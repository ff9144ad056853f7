---------------------- MODULE UserModeQueueRefinement ----------------------
(***************************************************************************)
(* The user mode queue implements PacketQueue.  How far a packet is can be *)
(* read off the ring, the producers' claims and the history of launches.   *)
(***************************************************************************)
EXTENDS UserModeQueue

StageOf(i) ==
  IF i >= write_index THEN "unclaimed"
  ELSE IF Launched(i) THEN IF InRing(i) THEN "launched" ELSE "retired"
  ELSE IF InRing(i) THEN "published" ELSE "claimed"

Abstract == INSTANCE PacketQueue WITH
  stage     <- [i \in Indices |-> StageOf(i)],
  freed     <- read_index,
  signalled <- {s \in Signals : sig[s] = 0}

\* The ring with its indices, headers and doorbell, several producers and the
\* scanning processor (hsa_queue.cc, CPUKernelAgent::Execute) are a packet
\* queue: every packet is handed over once and only into a free place, is
\* launched once and only when its barrier allows it, gives its place back in
\* order, and is signalled after it has left the ring.
ImplementsPacketQueue == Abstract!Spec
============================================================================
