---------------------------- MODULE PacketQueue ----------------------------
(***************************************************************************)
(* What a queue promises its clients, without a ring, a doorbell or a      *)
(* processor that scans: every packet goes through the stages              *)
(*                                                                         *)
(*   unclaimed -> claimed -> published -> launched -> retired              *)
(*                                                                         *)
(* once and in this order, its completion signal is set to 0 afterwards,   *)
(* and a packet is handed over only when fewer than Size packets before it *)
(* still have their places.                                                *)
(***************************************************************************)
EXTENDS Integers

CONSTANTS
  Size,         \* packets that the queue holds
  MaxIndex,     \* bound: packets 0 .. MaxIndex-1
  NumDeps,      \* signals a barrier packet can wait for
  HostSignals,  \* signals that the host sets
  NULL          \* no signal

VARIABLES
  content,      \* what each packet contains
  stage,        \* how far each packet is
  freed,        \* packets below this one have given their place back
  signalled     \* signals that are 0

vars == <<content, stage, freed, signalled>>

Indices == 0 .. MaxIndex - 1

Init ==
  /\ stage = [i \in Indices |-> "unclaimed"]
  /\ freed = 0
  /\ signalled = {}

Move(i, from, to) ==
  /\ stage[i] = from
  /\ stage' = [stage EXCEPT ![i] = to]

\* One producer claims the next n packets at once.
Claim(n) ==
  \E first \in Indices :
    /\ first + n <= MaxIndex
    /\ \A i \in Indices : stage[i] = "unclaimed" <=> i >= first
    /\ stage' = [i \in Indices |->
                   IF i \in first .. first + n - 1 THEN "claimed" ELSE stage[i]]
    /\ UNCHANGED <<content, freed, signalled>>

\* A packet is handed over only while there is a place for it.
Publish(i) ==
  /\ i < freed + Size
  /\ Move(i, "claimed", "published")
  /\ UNCHANGED <<content, freed, signalled>>

\* A barrier packet waits for its signals.
MayLaunch(i) ==
  LET D == {content[i].deps[k] : k \in 1 .. NumDeps} \ {NULL}
  IN  /\ content[i].type = "BARRIER_AND" => D \subseteq signalled
      /\ content[i].type = "BARRIER_OR" => D \cap signalled # {}

Launch(i) ==
  /\ MayLaunch(i)
  /\ Move(i, "published", "launched")
  /\ UNCHANGED <<content, freed, signalled>>

Retire(i) ==
  /\ Move(i, "launched", "retired")
  /\ UNCHANGED <<content, freed, signalled>>

\* Places are given back one by one and in order.
Free ==
  /\ freed < MaxIndex /\ stage[freed] = "retired"
  /\ freed' = freed + 1
  /\ UNCHANGED <<content, stage, signalled>>

Signal(i) ==
  /\ stage[i] = "retired" /\ content[i].completion
  /\ signalled' = signalled \cup {i}
  /\ UNCHANGED <<content, stage, freed>>

HostSignal(s) ==
  /\ signalled' = signalled \cup {s}
  /\ UNCHANGED <<content, stage, freed>>

Next ==
  \/ \E n \in 1 .. Size : Claim(n)
  \/ \E i \in Indices : Publish(i) \/ Launch(i) \/ Retire(i) \/ Signal(i)
  \/ Free
  \/ \E s \in HostSignals : HostSignal(s)

Spec == Init /\ [][Next]_vars
============================================================================
