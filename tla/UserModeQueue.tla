--------------------------- MODULE UserModeQueue ---------------------------
(***************************************************************************)
(* One user mode queue of the CPU kernel agent: the ring buffer that       *)
(* UserModeQueue.cc sets up, the hsa_queue_* index operations its          *)
(* producers call, and the packet processor, the body of the loop in       *)
(* CPUKernelAgent::Execute, that consumes the ring.                        *)
(*                                                                         *)
(* Every access to memory that a producer and the processor share is a     *)
(* step of its own: the doorbell, the two indices, a packet header, a      *)
(* packet body, a signal.  LastHandledDoorBell and PacketIsProcessed are   *)
(* only touched by the processor, so they move with the step next to them. *)
(* Memory is sequentially consistent, as the x86 builds of this code are   *)
(* for the plain stores it relies on.                                      *)
(*                                                                         *)
(* A packet is named by the write index its producer claimed; what it      *)
(* contains is content[index].  The completion signal of packet i is       *)
(* signal i.                                                               *)
(***************************************************************************)
EXTENDS Integers, Sequences, FiniteSets

CONSTANTS
  Size,         \* number of slots of the ring, HSAQueue->size
  Type,         \* "SINGLE" or "MULTI", HSAQueue->type
  Producers,    \* client threads that add packets
  ClaimBy,      \* how each producer moves the write index: "add", "cas", "store"
  Batches,      \* how many packets a producer may claim and ring for at once
  MaxIndex,     \* bound: packets 0 .. MaxIndex-1 are claimed in a behaviour
  NumDeps,      \* length of a barrier packet's dep_signal array (5 in hsa.h)
  HostSignals,  \* signals that a host thread sets to 0
  Workloads,    \* the contents the packets may have, functions on 0..MaxIndex-1
  NULL          \* the signal handle 0

Indices == 0 .. MaxIndex - 1
Slots == 0 .. Size - 1
Signals == Indices \cup HostSignals

\* Types of hsa_packet_type_t.
BarrierTypes == {"BARRIER_AND", "BARRIER_OR"}
UnsupportedTypes == {"AGENT_DISPATCH", "VENDOR_SPECIFIC"}
PublishedTypes == BarrierTypes \cup UnsupportedTypes \cup {"KERNEL_DISPATCH"}

\* What is wrong with a kernel dispatch packet, in the order it is reported:
\* its dimensions, the group memory it asks for, or the code object and the
\* work-group sizes.
Faults == {"none", "dimensions", "group_memory", "code_object"}

Packet == [type       : PublishedTypes,
           fault      : Faults,
           barrier    : BOOLEAN,         \* the barrier bit of the header
           deps       : [1 .. NumDeps -> Signals \cup {NULL}],
           completion : BOOLEAN]         \* has a completion signal

ASSUME QueueAssumption ==
  /\ Size \in Nat \ {0}
  /\ MaxIndex \in Nat
  /\ NumDeps \in Nat
  /\ Type \in {"SINGLE", "MULTI"}
  /\ Batches \subseteq 1 .. Size
  /\ ClaimBy \in [Producers -> {"add", "cas", "store"}]
  /\ Workloads \subseteq [Indices -> Packet]
  /\ NULL \notin Signals
  /\ HostSignals \cap Indices = {}
  \* Only the one producer of a single producer queue may store the index.
  /\ Type = "SINGLE" => \A p, q \in Producers : p = q
  /\ \A p \in Producers : ClaimBy[p] = "store" => Type = "SINGLE"

\* numeric_limits<hsa_signal_value_t>::max(): no index is ever that large.
SignalMax == MaxIndex

VARIABLES
  content,              \* what each packet contains (never changes)
  write_index, read_index, doorbell,
  header, body,         \* per slot: the packet type, the packet written there
  sig,                  \* value of every signal
  LastHandledDoorBell, PacketIsProcessed,
  ppc, next, last,      \* per producer: where it is, the packets it claimed
  wpc,                  \* where the packet processor is
  CurrentReadIndex, CurrentWriteIndex, CurrentIndex, LastIndex,
  dep,                  \* position in the dep_signal array
  CompletionSignal,
  launched              \* history: what was launched, in order

ringVars == <<write_index, read_index, doorbell, header, body>>
book == <<LastHandledDoorBell, PacketIsProcessed>>
cursor == <<CurrentReadIndex, CurrentWriteIndex, CurrentIndex, LastIndex>>
taken == <<dep, CompletionSignal, launched>>
procVars == <<wpc, book, cursor, taken>>
prodVars == <<ppc, next, last>>
vars == <<content, ringVars, sig, procVars, prodVars>>

Slot(i) == i % Size
Alive == wpc # "aborted"   \* abort() ends the whole process

Init ==
  /\ content \in Workloads
  /\ write_index = 0 /\ read_index = 0
  /\ doorbell = SignalMax
  /\ header = [s \in Slots |-> "INVALID"]
  /\ body = [s \in Slots |-> NULL]
  /\ sig = [s \in Signals |-> 1]
  /\ LastHandledDoorBell = SignalMax
  /\ PacketIsProcessed = [s \in Slots |-> FALSE]
  /\ ppc = [p \in Producers |-> "idle"]
  /\ next = [p \in Producers |-> 0]
  /\ last = [p \in Producers |-> 0]
  /\ wpc = "poll"
  /\ CurrentReadIndex = 0 /\ CurrentWriteIndex = 0
  /\ CurrentIndex = 0 /\ LastIndex = 0
  /\ dep = 1
  /\ CompletionSignal = NULL
  /\ launched = <<>>

----------------------------------------------------------------------------
(* The producers: the index operations of hsa_queue.cc and the protocol    *)
(* that hsa.h asks of a client around them.                                *)

\* p owns packets i .. i+n-1 from now on.
Claims(p, i, n) ==
  /\ write_index' = i + n
  /\ next' = [next EXCEPT ![p] = i]
  /\ last' = [last EXCEPT ![p] = i + n - 1]
  /\ ppc' = [ppc EXCEPT ![p] = "wait"]

\* hsa_queue_add_write_index_*
AddWriteIndex(p) ==
  /\ ppc[p] = "idle" /\ ClaimBy[p] = "add"
  /\ \E n \in Batches : write_index + n <= MaxIndex /\ Claims(p, write_index, n)
  /\ UNCHANGED <<content, read_index, doorbell, header, body, sig, procVars>>

\* hsa_queue_load_write_index_*
LoadWriteIndex(p) ==
  /\ ppc[p] = "idle" /\ ClaimBy[p] \in {"cas", "store"}
  /\ write_index < MaxIndex
  /\ next' = [next EXCEPT ![p] = write_index]
  /\ ppc' = [ppc EXCEPT ![p] = "loaded"]
  /\ UNCHANGED <<content, ringVars, sig, procVars, last>>

\* hsa_queue_cas_write_index_*: a claim if the index is still the one p
\* loaded; it returns the value it found, with which p tries again.
CompareExchangeWriteIndex(p) ==
  /\ ppc[p] = "loaded" /\ ClaimBy[p] = "cas"
  /\ \E n \in Batches :
       \/ /\ write_index = next[p] /\ next[p] + n <= MaxIndex
          /\ Claims(p, next[p], n)
       \/ /\ write_index # next[p]
          /\ next' = [next EXCEPT ![p] = write_index]
          /\ ppc' = [ppc EXCEPT ![p] = IF write_index < MaxIndex THEN "loaded" ELSE "idle"]
          /\ UNCHANGED <<write_index, last>>
  /\ UNCHANGED <<content, read_index, doorbell, header, body, sig, procVars>>

\* hsa_queue_store_write_index_*
StoreWriteIndex(p) ==
  /\ ppc[p] = "loaded" /\ ClaimBy[p] = "store"
  /\ \E n \in Batches : next[p] + n <= MaxIndex /\ Claims(p, next[p], n)
  /\ UNCHANGED <<content, read_index, doorbell, header, body, sig, procVars>>

\* hsa_queue_load_read_index_*: wait until the slot is free.
WaitForSpace(p) ==
  /\ ppc[p] = "wait"
  /\ next[p] - read_index < Size
  /\ ppc' = [ppc EXCEPT ![p] = "write"]
  /\ UNCHANGED <<content, ringVars, sig, procVars, next, last>>

WriteBody(p) ==
  /\ ppc[p] = "write"
  /\ body' = [body EXCEPT ![Slot(next[p])] = next[p]]
  /\ ppc' = [ppc EXCEPT ![p] = "publish"]
  /\ UNCHANGED <<content, write_index, read_index, doorbell, header, sig,
                 procVars, next, last>>

\* The header is written last: it hands the packet to the processor.
Publish(p) ==
  /\ ppc[p] = "publish"
  /\ header' = [header EXCEPT ![Slot(next[p])] = content[next[p]].type]
  /\ IF next[p] < last[p]
     THEN /\ next' = [next EXCEPT ![p] = @ + 1]
          /\ ppc' = [ppc EXCEPT ![p] = "wait"]
     ELSE /\ ppc' = [ppc EXCEPT ![p] = "ring"]
          /\ UNCHANGED next
  /\ UNCHANGED <<content, write_index, read_index, doorbell, body, sig,
                 procVars, last>>

RingDoorbell(p) ==
  /\ ppc[p] = "ring"
  /\ doorbell' = last[p]
  /\ ppc' = [ppc EXCEPT ![p] = "idle"]
  /\ UNCHANGED <<content, write_index, read_index, header, body, sig,
                 procVars, next, last>>

\* A host thread satisfies a dependency of a barrier packet.
HostStore(s) ==
  /\ Alive
  /\ sig[s] # 0 /\ \E i \in Indices, k \in 1 .. NumDeps : content[i].deps[k] = s
  /\ sig' = [sig EXCEPT ![s] = 0]
  /\ UNCHANGED <<content, ringVars, procVars, prodVars>>

----------------------------------------------------------------------------
(* The packet processor.                                                   *)

ThisSlot == Slot(CurrentIndex)
ThisPacket == content[body[ThisSlot]]
InScan == wpc = "scan" /\ CurrentIndex <= LastIndex /\ CurrentIndex < CurrentWriteIndex

\* A processed slot frees its place in the ring only when it is the oldest.
IsOldest == CurrentReadIndex = CurrentIndex

\* Faulty variant: the read index skips one slot too many.
FreeOldestAndNext ==
  /\ CurrentReadIndex' = CurrentIndex + 1
  /\ read_index' = CurrentIndex + 2
  /\ PacketIsProcessed' = [PacketIsProcessed EXCEPT ![ThisSlot] = FALSE]

FreeOldest ==
  /\ CurrentReadIndex' = CurrentIndex + 1
  /\ read_index' = CurrentIndex + 1
  /\ PacketIsProcessed' = [PacketIsProcessed EXCEPT ![ThisSlot] = FALSE]

\* Faulty variant: only a doorbell larger than the last one is noticed.
DoorBellGrew ==
  doorbell # SignalMax
    /\ (LastHandledDoorBell = SignalMax \/ doorbell > LastHandledDoorBell)

\* The processor notes the doorbell as handled before it looks at the ring.
\* Any change counts: several producers may ring out of index order.
DoorBellChanged == doorbell # SignalMax /\ doorbell # LastHandledDoorBell

CheckDoorBell ==
  /\ wpc = "poll"
  /\ DoorBellChanged
  /\ LastHandledDoorBell' = doorbell
  /\ wpc' = "indices"
  /\ UNCHANGED <<content, ringVars, sig, prodVars, PacketIsProcessed, cursor,
                 taken>>

\* Faulty variants: every queue is scanned as a multi producer queue; the
\* packet rung for is left out.
WholeRing == Size
UpToDoorBell ==
  IF Type = "SINGLE" THEN LastHandledDoorBell - read_index - 1 ELSE Size

PacketsToCheck ==
  IF Type = "SINGLE" THEN LastHandledDoorBell - read_index ELSE Size

LoadIndices ==
  /\ wpc = "indices"
  /\ CurrentReadIndex' = read_index
  /\ CurrentWriteIndex' = write_index
  /\ CurrentIndex' = read_index
  /\ LastIndex' = read_index + PacketsToCheck
  /\ wpc' = "scan"
  /\ UNCHANGED <<content, ringVars, sig, prodVars, book, taken>>

\* Past the last index to check, or at the write index: on to the next queue.
EndScan ==
  /\ wpc = "scan"
  /\ CurrentIndex > LastIndex \/ CurrentIndex >= CurrentWriteIndex
  /\ wpc' = "poll"
  /\ UNCHANGED <<content, ringVars, sig, prodVars, book, cursor, taken>>

\* Faulty variant: an INVALID packet is taken for a processed one.
SkipInvalidUnchecked ==
  /\ InScan
  /\ header[ThisSlot] = "INVALID"
  /\ IF IsOldest
     THEN FreeOldest
     ELSE UNCHANGED <<CurrentReadIndex, read_index, PacketIsProcessed>>
  /\ CurrentIndex' = CurrentIndex + 1
  /\ UNCHANGED <<content, write_index, doorbell, header, body, sig, prodVars,
                 LastHandledDoorBell, wpc, CurrentWriteIndex, LastIndex, taken>>

\* An INVALID packet: processed by an earlier scan, or still being written.
SkipInvalid ==
  /\ InScan
  /\ header[ThisSlot] = "INVALID"
  /\ IF PacketIsProcessed[ThisSlot] /\ IsOldest
     THEN FreeOldest
     ELSE UNCHANGED <<CurrentReadIndex, read_index, PacketIsProcessed>>
  /\ CurrentIndex' = CurrentIndex + 1
  /\ UNCHANGED <<content, write_index, doorbell, header, body, sig, prodVars,
                 LastHandledDoorBell, wpc, CurrentWriteIndex, LastIndex, taken>>

FetchBarrier ==
  /\ InScan
  /\ header[ThisSlot] \in BarrierTypes
  /\ dep' = 1
  /\ wpc' = "deps"
  /\ UNCHANGED <<content, ringVars, sig, prodVars, book, cursor,
                 CompletionSignal, launched>>

\* Signal::fromHSAObject(packet.completion_signal)
CompletionSignalOf(i) == IF content[i].completion THEN i ELSE NULL

\* Faulty variant: the slot is freed before the kernel has run.
FetchKernelAndFree ==
  /\ InScan
  /\ header[ThisSlot] = "KERNEL_DISPATCH"
  /\ CompletionSignal' = CompletionSignalOf(body[ThisSlot])
  /\ IF IsOldest THEN FreeOldest
     ELSE UNCHANGED <<CurrentReadIndex, read_index, PacketIsProcessed>>
  /\ wpc' = "kernel"
  /\ UNCHANGED <<content, write_index, doorbell, header, body, sig, prodVars,
                 LastHandledDoorBell, CurrentWriteIndex, CurrentIndex,
                 LastIndex, dep, launched>>

FetchKernel ==
  /\ InScan
  /\ header[ThisSlot] = "KERNEL_DISPATCH"
  /\ CompletionSignal' = CompletionSignalOf(body[ThisSlot])
  /\ wpc' = "kernel"
  /\ UNCHANGED <<content, ringVars, sig, prodVars, book, cursor, dep, launched>>

\* ABORT_UNIMPLEMENTED
FetchUnsupported ==
  /\ InScan
  /\ header[ThisSlot] \in UnsupportedTypes
  /\ wpc' = "aborted"
  /\ UNCHANGED <<content, ringVars, sig, prodVars, book, cursor, taken>>

\* One dep_signal after the other is loaded, until one of them decides.
Decisive(d) ==
  d # NULL /\ (IF header[ThisSlot] = "BARRIER_AND" THEN sig[d] # 0 ELSE sig[d] = 0)
\* Faulty variant: the last dep_signal is never loaded.
DepsBeforeLast == dep < NumDeps
DepsLeft == dep <= NumDeps

LoadDep ==
  /\ wpc = "deps" /\ DepsLeft
  /\ ~ Decisive(ThisPacket.deps[dep])
  /\ dep' = dep + 1
  /\ UNCHANGED <<content, ringVars, sig, prodVars, wpc, book, cursor,
                 CompletionSignal, launched>>

\* Barrier-AND: no signal was found unsatisfied.  Barrier-OR: this one is 0.
BarrierConditionOK ==
  IF header[ThisSlot] = "BARRIER_AND"
  THEN ~ DepsLeft
  ELSE DepsLeft /\ Decisive(ThisPacket.deps[dep])

\* launched records which packet was taken, the packet_id it was given and
\* how it went; the packet is read through a pointer into the ring.
Launch(outcome) ==
  launched' = Append(launched, [packet  |-> body[ThisSlot],
                                as      |-> CurrentIndex,
                                outcome |-> outcome])

PassBarrier ==
  /\ wpc = "deps"
  /\ BarrierConditionOK
  /\ CompletionSignal' = CompletionSignalOf(body[ThisSlot])
  /\ Launch("passed")
  /\ wpc' = "retire"
  /\ UNCHANGED <<content, ringVars, sig, prodVars, book, cursor, dep>>

\* "Unsatisfied barrier. Skip to the next packet in the next queue."
StopAtBarrier ==
  /\ wpc = "deps"
  /\ ~ BarrierConditionOK
  /\ DepsLeft => Decisive(ThisPacket.deps[dep])
  /\ wpc' = "poll"
  /\ UNCHANGED <<content, ringVars, sig, prodVars, book, cursor, taken>>

\* The kernel runs, or the queue's callback is told what is wrong with the
\* packet; either way the packet is done.
RunKernel ==
  /\ wpc = "kernel"
  /\ Launch(ThisPacket.fault)
  /\ wpc' = "retire"
  /\ UNCHANGED <<content, ringVars, sig, prodVars, book, cursor, dep, CompletionSignal>>

\* Faulty variant: the header is left as the producer wrote it.
RetireKeepingHeader ==
  /\ wpc = "retire"
  /\ wpc' = "advance"
  /\ UNCHANGED <<content, ringVars, sig, prodVars, book, cursor, taken>>

Retire ==
  /\ wpc = "retire"
  /\ header' = [header EXCEPT ![ThisSlot] = "INVALID"]
  /\ wpc' = "advance"
  /\ UNCHANGED <<content, write_index, read_index, doorbell, body, sig,
                 prodVars, book, cursor, taken>>

AdvanceReadIndex ==
  /\ wpc = "advance"
  /\ IF IsOldest
     THEN FreeOldest
     ELSE /\ PacketIsProcessed' = [PacketIsProcessed EXCEPT ![ThisSlot] = TRUE]
          /\ UNCHANGED <<CurrentReadIndex, read_index>>
  /\ wpc' = "complete"
  /\ UNCHANGED <<content, write_index, doorbell, header, body, sig, prodVars,
                 LastHandledDoorBell, CurrentWriteIndex, CurrentIndex,
                 LastIndex, taken>>

\* Faulty variant: the completion signal is read from the ring at the end,
\* after the slot was handed back to the producers.
CompleteFromRing ==
  LET S == CompletionSignalOf(body[ThisSlot])
  IN  /\ wpc = "complete"
      /\ sig' = IF S = NULL THEN sig ELSE [sig EXCEPT ![S] = 0]
      /\ CurrentIndex' = CurrentIndex + 1
      /\ wpc' = "scan"
      /\ UNCHANGED <<content, ringVars, prodVars, book, CurrentReadIndex,
                     CurrentWriteIndex, LastIndex, taken>>

Complete ==
  /\ wpc = "complete"
  /\ sig' = IF CompletionSignal = NULL THEN sig
            ELSE [sig EXCEPT ![CompletionSignal] = 0]
  /\ CurrentIndex' = CurrentIndex + 1
  /\ wpc' = "scan"
  /\ UNCHANGED <<content, ringVars, prodVars, book, CurrentReadIndex,
                 CurrentWriteIndex, LastIndex, taken>>

----------------------------------------------------------------------------
Producer(p) ==
  /\ Alive
  /\ \/ AddWriteIndex(p) \/ LoadWriteIndex(p) \/ CompareExchangeWriteIndex(p)
     \/ StoreWriteIndex(p) \/ WaitForSpace(p) \/ WriteBody(p) \/ Publish(p)
     \/ RingDoorbell(p)

Processor ==
  \/ CheckDoorBell \/ LoadIndices \/ EndScan \/ SkipInvalid
  \/ FetchBarrier \/ FetchKernel \/ FetchUnsupported
  \/ LoadDep \/ PassBarrier \/ StopAtBarrier \/ RunKernel
  \/ Retire \/ AdvanceReadIndex \/ Complete

\* Every packet was claimed, published, rung for and retired, and the
\* processor polls a doorbell that does not change any more; or it aborted.
Drained ==
  /\ write_index = MaxIndex /\ read_index = MaxIndex
  /\ \A p \in Producers : ppc[p] = "idle"
  /\ wpc = "poll" /\ ~ DoorBellChanged
Stopped == (Drained \/ ~ Alive) /\ UNCHANGED vars

Next ==
  \/ \E p \in Producers : Producer(p)
  \/ \E s \in HostSignals : HostStore(s)
  \/ Processor
  \/ Stopped

\* The processor thread runs all the time.  A client that has begun to claim
\* a packet goes on until it has published it and rung for it, but none has to
\* begin; a host thread sets the signals it is waited for.
Continue(p) == ppc[p] # "idle" /\ Producer(p)
Fairness ==
  /\ WF_vars(Processor)
  /\ \A p \in Producers : WF_vars(Continue(p))
  /\ \A s \in HostSignals : WF_vars(HostStore(s))

Spec == Init /\ [][Next]_vars
LiveSpec == Spec /\ Fairness

----------------------------------------------------------------------------
(* Properties                                                              *)

Launched(i) == \E k \in 1 .. Len(launched) : launched[k].packet = i
InRing(i) == body[Slot(i)] = i /\ header[Slot(i)] # "INVALID"
\* Claimed, but its producer has not written its header yet.
Pending(i) == \E p \in Producers :
                ppc[p] \in {"wait", "write", "publish"} /\ i \in next[p] .. last[p]
Published(i) == i < write_index /\ ~ Pending(i)
\* The slot the processor is working on, from fetching to retiring it.
Busy == wpc \in {"deps", "kernel", "retire"}

TypeOK ==
  /\ content \in Workloads
  /\ write_index \in 0 .. MaxIndex /\ read_index \in 0 .. MaxIndex
  /\ doorbell \in Indices \cup {SignalMax}
  /\ header \in [Slots -> PublishedTypes \cup {"INVALID"}]
  /\ body \in [Slots -> Indices \cup {NULL}]
  /\ sig \in [Signals -> {0, 1}]
  /\ LastHandledDoorBell \in Indices \cup {SignalMax}
  /\ PacketIsProcessed \in [Slots -> BOOLEAN]
  /\ ppc \in [Producers -> {"idle", "loaded", "wait", "write", "publish", "ring"}]
  /\ next \in [Producers -> 0 .. MaxIndex] /\ last \in [Producers -> 0 .. MaxIndex]
  /\ wpc \in {"poll", "indices", "scan", "deps", "kernel", "retire",
              "advance", "complete", "aborted"}
  /\ CurrentReadIndex \in 0 .. MaxIndex /\ CurrentWriteIndex \in 0 .. MaxIndex
  /\ CurrentIndex \in 0 .. MaxIndex /\ LastIndex \in Int
  /\ dep \in 1 .. NumDeps + 1
  /\ CompletionSignal \in Indices \cup {NULL}
  /\ launched \in Seq([packet : Indices \cup {NULL}, as : Indices,
                      outcome : Faults \cup {"passed"}])

\* A producer that found room in the ring has the slot for itself: the packet
\* that was there is retired, the processor is not at work on it, and no
\* other producer writes to it (the id - read_index < size protocol against
\* the order of CPUKernelAgent.cc lines 381-391).
SlotExclusive ==
  \A p \in Producers : ppc[p] \in {"write", "publish"} =>
    /\ header[Slot(next[p])] = "INVALID"
    /\ ~ (Busy /\ ThisSlot = Slot(next[p]))
    /\ \A q \in Producers \ {p} :
         ppc[q] \in {"write", "publish"} => Slot(next[q]) # Slot(next[p])

\* No packet is lost and none is launched twice: a published packet is still
\* in its slot or was launched, once, and between its launch and its
\* retirement it is the processor's current packet.
LaunchedOnce ==
  /\ \A i \in Indices : Published(i) => InRing(i) \/ Launched(i)
  /\ \A i \in Indices : Launched(i) =>
       Published(i) /\ (InRing(i) => wpc = "retire" /\ body[ThisSlot] = i)
  /\ \A j, k \in 1 .. Len(launched) :
       launched[j].packet = launched[k].packet => j = k

\* "The read index update can be done only after all packets until that read
\* index have been processed": the slots below the read index are free.
FreedAreDone ==
  /\ read_index <= write_index
  /\ \A i \in Indices : i < read_index => Launched(i) /\ ~ InRing(i)

\* The condition of a barrier packet over its non-null signals.
Satisfied(i) ==
  LET D == {content[i].deps[k] : k \in 1 .. NumDeps} \ {NULL}
  IN  CASE content[i].type = "BARRIER_AND" -> \A d \in D : sig[d] = 0
        [] content[i].type = "BARRIER_OR" -> \E d \in D : sig[d] = 0
        [] OTHER -> TRUE

\* A barrier packet was let through only on its condition: all of its
\* signals are 0, or one of them is (signals stay 0 here).
BarrierRespected ==
  \A i \in Indices : Launched(i) => Satisfied(i)

\* In a single producer queue "we execute packets in order", and the
\* packet_id handed to a kernel is the index of its packet.
InOrder ==
  \A k \in 1 .. Len(launched) : launched[k].packet = k - 1 /\ launched[k].as = k - 1

\* In a multi producer queue the scan runs one index past the ring, so that
\* a packet may be launched under the index one lap ahead, but no other.
PacketIdNear ==
  \A k \in 1 .. Len(launched) : launched[k].as - launched[k].packet \in {0, Size}

\* Every claimed packet is launched, completes and frees its slot, whatever
\* the order in which the producers publish and ring, if no barrier of the
\* queue waits for a signal that the host sets and no packet is of a type the
\* processor aborts on.
WaitsForHost(i) == \E k \in 1 .. NumDeps : content[i].deps[k] \in HostSignals
Handled(i) == ~ WaitsForHost(i) /\ content[i].type \notin UnsupportedTypes
EveryPacketDone ==
  \A i \in Indices :
    i < write_index /\ (\A j \in Indices : Handled(j)) ~>
      i < read_index /\ (content[i].completion => sig[i] = 0)

\* An unsatisfied barrier packet is left in the ring, and the processor looks
\* at it again when the doorbell changes next: then, if its condition holds
\* and nothing before it is left, it passes, unless the process aborts.
NextRingRechecks ==
  \A i \in Indices :
    /\ Published(i) /\ Satisfied(i) /\ DoorBellChanged
    /\ \A j \in 0 .. i - 1 : Launched(j)
    ~> Launched(i) \/ ~ Alive

\* "Packet used by agents to delay processing of subsequent packets" (hsa.h):
\* a barrier packet delays until its condition holds, and is then processed.
BarrierOnlyDelays ==
  \A i \in Indices :
    Published(i) /\ Satisfied(i) /\ (\A j \in 0 .. i - 1 : Launched(j)) ~> Launched(i)

============================================================================
