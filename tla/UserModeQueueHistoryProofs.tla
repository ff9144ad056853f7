-------------------- MODULE UserModeQueueHistoryProofs ---------------------
(***************************************************************************)
(* What became of the packets of a UserModeQueue, for every ring size,     *)
(* every number of producers and of packets, and every content of the      *)
(* packets.  The invariant IInv of UserModeQueueProofs speaks of the ring  *)
(* as it is; here it is extended by what the history of launches has to do *)
(* with the ring (HistInv), with the signals (BarrierInv) and with the     *)
(* indices of the scan (NearInv).  From these the last section shows that  *)
(* the queue implements PacketQueue.                                       *)
(***************************************************************************)
EXTENDS UserModeQueueRefinement, UserModeQueueProofs

----------------------------------------------------------------------------
(* The invariants.                                                         *)

\* Published packets are in the ring until they are retired and are launched
\* once; what is freed, marked as processed or being retired was launched.
HistInv ==
  /\ \A i \in Indices : i < read_index => Launched(i)
  /\ \A i \in Indices : Launched(i) => Published(i)
  /\ \A i \in Indices : Published(i) => InRing(i) \/ Launched(i)
  /\ \A i \in Indices : Launched(i) /\ InRing(i) => wpc = "retire" /\ body[ThisSlot] = i
  /\ \A j, k \in 1 .. Len(launched) :
       launched[j].packet = launched[k].packet => j = k
  /\ \A s \in Slots : PacketIsProcessed[s] => Launched(body[s])
  /\ wpc \in {"retire", "advance"} => Launched(body[ThisSlot])

----------------------------------------------------------------------------
(* What the steps do to the packets.                                       *)

\* The processor at its current slot: the packet there is in the ring.
LEMMA CurrentPacket ==
  ASSUME IInv, wpc \in {"deps", "kernel", "retire"}
  PROVE  /\ ThisSlot \in Slots /\ Occupied(ThisSlot)
         /\ body[ThisSlot] \in Indices /\ Slot(body[ThisSlot]) = ThisSlot
         /\ InRing(body[ThisSlot]) /\ Published(body[ThisSlot])
         /\ header[ThisSlot] = content[body[ThisSlot]].type
<1>1. ThisSlot \in Slots
  BY SlotInSlots DEF IInv, TypeOK, ThisSlot
<1>2. Occupied(ThisSlot) /\ header[ThisSlot] # "INVALID"
      /\ header[ThisSlot] = content[body[ThisSlot]].type
  BY <1>1 DEF IInv, RingInv
<1> QED
  BY <1>1, <1>2 DEF Occupied, InRing

\* A packet in the ring is one of the window.
LEMMA RingWindow ==
  ASSUME IInv, NEW i \in Indices, InRing(i)
  PROVE  InWindow(i) /\ Published(i) /\ Occupied(Slot(i)) /\ Slot(i) \in Slots
<1>1. Slot(i) \in Slots
  BY SlotInSlots, QueueAssumption DEF Indices
<1> QED
  BY <1>1 DEF IInv, RingInv, InRing, Occupied

\* A claim at the write index publishes nothing.
LEMMA ClaimKeeps ==
  ASSUME IInv, NEW p \in Producers, ppc[p] \in {"idle", "loaded"},
         NEW n \in Batches, Claims(p, write_index, n)
  PROVE  \A i \in Indices : Published(i)' <=> Published(i)
<1> USE QueueAssumption DEF IInv
<1> SUFFICES ASSUME NEW i \in Indices PROVE Published(i)' <=> Published(i)
  OBVIOUS
<1>0. /\ n \in Nat /\ n >= 1 /\ write_index \in Nat /\ i \in Nat
      /\ write_index' = write_index + n
  BY DEF TypeOK, Claims, Indices
<1>1. /\ ppc'[p] = "wait" /\ next'[p] = write_index /\ last'[p] = write_index + n - 1
      /\ \A q \in Producers \ {p} :
           ppc'[q] = ppc[q] /\ next'[q] = next[q] /\ last'[q] = last[q]
  BY DEF TypeOK, Claims
<1>2. Pending(i)' <=> Pending(i) \/ i \in write_index .. write_index + n - 1
  BY <1>0, <1>1 DEF Pending
<1> QED
  BY <1>0, <1>2 DEF Published

\* The steps of a producer that publish nothing leave the packets where they
\* are.
LEMMA ProducerKeeps ==
  ASSUME IInv, NEW p \in Producers,
         \/ AddWriteIndex(p) \/ LoadWriteIndex(p) \/ CompareExchangeWriteIndex(p)
         \/ StoreWriteIndex(p) \/ WaitForSpace(p) \/ RingDoorbell(p)
  PROVE  /\ \A i \in Indices : Published(i)' <=> Published(i)
         /\ UNCHANGED <<content, header, body, read_index, sig, procVars>>
<1> USE QueueAssumption DEF IInv
<1>1. CASE AddWriteIndex(p)
  BY <1>1, ClaimKeeps DEF AddWriteIndex
<1>2. CASE StoreWriteIndex(p)
  <2>1. next[p] = write_index
    BY <1>2 DEF StoreWriteIndex, ClaimInv
  <2> QED
    BY <1>2, <2>1, ClaimKeeps DEF StoreWriteIndex
<1>3. CASE CompareExchangeWriteIndex(p)
  <2>1. PICK n \in Batches :
          \/ write_index = next[p] /\ Claims(p, next[p], n)
          \/ /\ next' = [next EXCEPT ![p] = write_index]
             /\ ppc' = [ppc EXCEPT ![p] = IF write_index < MaxIndex THEN "loaded" ELSE "idle"]
             /\ UNCHANGED <<write_index, last>>
    BY <1>3 DEF CompareExchangeWriteIndex
  <2>2. CASE write_index = next[p] /\ Claims(p, next[p], n)
    BY <1>3, <2>2, ClaimKeeps DEF CompareExchangeWriteIndex
  <2>3. CASE /\ next' = [next EXCEPT ![p] = write_index]
             /\ ppc' = [ppc EXCEPT ![p] = IF write_index < MaxIndex THEN "loaded" ELSE "idle"]
             /\ UNCHANGED <<write_index, last>>
    BY <1>3, <2>3 DEF CompareExchangeWriteIndex, Published, Pending, TypeOK
  <2> QED
    BY <1>3, <2>1, <2>2, <2>3 DEF CompareExchangeWriteIndex
<1>4. CASE LoadWriteIndex(p) \/ WaitForSpace(p) \/ RingDoorbell(p)
  BY <1>4 DEF LoadWriteIndex, WaitForSpace, RingDoorbell, ringVars, Published, Pending, TypeOK
<1> QED
  BY <1>1, <1>2, <1>3, <1>4

\* A producer writes a packet body into a slot where no packet is.
LEMMA WriteBodyKeeps ==
  ASSUME IInv, NEW p \in Producers, WriteBody(p)
  PROVE  /\ \A i \in Indices : Published(i)' <=> Published(i)
         /\ \A i \in Indices : InRing(i)' <=> InRing(i)
         /\ \A s \in Slots : Occupied(s) => body'[s] = body[s]
         /\ UNCHANGED <<content, header, read_index, sig, procVars>>
<1> USE QueueAssumption DEF IInv, WriteBody
<1> DEFINE o == Slot(next[p])
<1>1. o \in Slots /\ ~ Occupied(o) /\ header[o] = "INVALID"
  BY OwnSlotFree DEF RingInv
<1>2. \A i \in Indices : Published(i)' <=> Published(i)
  BY DEF Published, Pending, TypeOK
<1>3. \A s \in Slots : s # o => body'[s] = body[s]
  BY <1>1 DEF TypeOK
<1>4. ASSUME NEW i \in Indices PROVE InRing(i)' <=> InRing(i)
  <2>1. Slot(i) \in Slots
    BY SlotInSlots DEF Indices
  <2>2. CASE Slot(i) = o
    BY <1>1, <2>2 DEF InRing
  <2>3. CASE Slot(i) # o
    BY <1>3, <2>1, <2>3 DEF InRing
  <2> QED
    BY <2>2, <2>3
<1> QED
  BY <1>1, <1>2, <1>3, <1>4

\* Writing the header publishes one packet, which is in the ring then.
LEMMA PublishEffect ==
  ASSUME IInv, NEW p \in Producers, Publish(p)
  PROVE  /\ next[p] \in Indices /\ InWindow(next[p])
         /\ ~ Published(next[p]) /\ ~ InRing(next[p])
         /\ \A i \in Indices : Published(i)' <=> Published(i) \/ i = next[p]
         /\ \A i \in Indices : InRing(i)' <=> InRing(i) \/ i = next[p]
         /\ \A s \in Slots : Occupied(s) => header'[s] = header[s]
         /\ UNCHANGED <<content, body, write_index, read_index, sig, procVars>>
<1> USE QueueAssumption DEF IInv
<1> DEFINE i == next[p]
           o == Slot(i)
<1>1. /\ o \in Slots /\ ~ Occupied(o) /\ i \in Indices /\ InWindow(i) /\ i < write_index
      /\ header[o] = "INVALID" /\ body[o] = i
  BY OwnSlotFree DEF Publish, RingInv, ClaimInv
<1>2. content[i].type \in PublishedTypes /\ content[i].type # "INVALID"
  <2>1. content \in [Indices -> Packet]
    BY DEF TypeOK
  <2> QED
    BY <1>1, <2>1 DEF Packet, PublishedTypes, BarrierTypes, UnsupportedTypes
<1>3. /\ header' = [header EXCEPT ![o] = content[i].type]
      /\ UNCHANGED <<content, body, write_index, read_index, sig, procVars, last>>
  BY DEF Publish
<1>4. header'[o] # "INVALID" /\ \A s \in Slots : s # o => header'[s] = header[s]
  BY <1>1, <1>2, <1>3 DEF TypeOK
<1>5. ASSUME NEW j \in Indices PROVE InRing(j)' <=> InRing(j) \/ j = i
  <2>1. Slot(j) \in Slots
    BY SlotInSlots DEF Indices
  <2>2. CASE Slot(j) = o
    BY <1>1, <1>3, <1>4, <2>2 DEF InRing
  <2>3. CASE Slot(j) # o
    BY <1>3, <1>4, <2>1, <2>3 DEF InRing
  <2> QED
    BY <2>2, <2>3
<1>6. /\ next[p] \in Nat /\ last[p] \in Nat /\ next[p] <= last[p] /\ Claiming(p)
  BY DEF Publish, ClaimInv, Claiming, TypeOK
<1>7. Pending(i)
  BY <1>6 DEF Pending, Claiming
<1>8. ASSUME NEW j \in Indices PROVE Pending(j)' <=> Pending(j) /\ j # i
  <2>0. j \in Nat
    BY DEF Indices
  <2>1. \A q \in Producers \ {p} : next'[q] = next[q] /\ ppc'[q] = ppc[q]
    BY DEF Publish, TypeOK
  <2>2. \/ ppc'[p] = "wait" /\ next'[p] = i + 1 /\ i < last[p]
        \/ ppc'[p] = "ring" /\ ~ (i < last[p])
    BY DEF Publish, TypeOK
  <2>3. Claiming(p)' /\ j \in next'[p] .. last[p] <=> j \in next[p] .. last[p] /\ j # i
    BY <1>6, <2>0, <2>2 DEF Claiming
  <2>4. \A q \in Producers \ {p} : Claiming(q) => i \notin next[q] .. last[q]
    <3> SUFFICES ASSUME NEW q \in Producers \ {p}, Claiming(q)
                 PROVE  i \notin next[q] .. last[q]
      OBVIOUS
    <3>1. /\ last[p] < next[q] \/ last[q] < next[p]
          /\ next[q] \in Nat /\ last[q] \in Nat
      BY <1>6 DEF ClaimInv, TypeOK
    <3> QED
      BY <1>6, <3>1
  <2> QED
    BY <1>3, <1>6, <2>1, <2>3, <2>4 DEF Pending, Claiming
<1>9. \A j \in Indices : Published(j)' <=> Published(j) \/ j = i
  BY <1>1, <1>3, <1>8 DEF Published
<1> QED
  BY <1>1, <1>3, <1>4, <1>5, <1>7, <1>9 DEF Published, InRing

\* The steps of the processor that only move it on.
QuietProcessor ==
  \/ CheckDoorBell \/ LoadIndices \/ EndScan \/ FetchBarrier \/ FetchKernel
  \/ FetchUnsupported \/ LoadDep \/ StopAtBarrier \/ Complete

\* The other steps of the processor leave the ring and the history.
LEMMA QuietKeeps ==
  ASSUME QuietProcessor
  PROVE  /\ \A i \in Indices : Published(i)' <=> Published(i)
         /\ UNCHANGED <<content, ringVars, prodVars, PacketIsProcessed, launched>>
         /\ wpc \notin {"retire", "advance"} /\ wpc' \notin {"retire", "advance"}
<1>1. /\ UNCHANGED <<content, ringVars, prodVars, PacketIsProcessed, launched>>
      /\ wpc \notin {"retire", "advance"} /\ wpc' \notin {"retire", "advance"}
  BY DEF QuietProcessor, CheckDoorBell, LoadIndices, EndScan, FetchBarrier, FetchKernel,
     FetchUnsupported, LoadDep, StopAtBarrier, Complete, InScan, book, taken
<1>2. \A i \in Indices : Published(i)' <=> Published(i)
  BY <1>1 DEF Published, Pending, ringVars, prodVars
<1> QED
  BY <1>1, <1>2

\* The packet that is launched was published, is in the ring and was not
\* launched before.
LEMMA LaunchEffect ==
  ASSUME IInv, HistInv, PassBarrier \/ RunKernel
  PROVE  LET b == body[ThisSlot]
         IN  /\ b \in Indices /\ InRing(b) /\ Published(b) /\ ~ Launched(b)
             /\ \A i \in Indices : Launched(i)' <=> Launched(i) \/ i = b
             /\ Len(launched') = Len(launched) + 1
             /\ launched'[Len(launched')].packet = b
             /\ launched'[Len(launched')].as = CurrentIndex
             /\ \A k \in 1 .. Len(launched) : launched'[k] = launched[k]
             /\ wpc \in {"deps", "kernel"} /\ wpc' = "retire"
             /\ UNCHANGED <<content, ringVars, sig, prodVars, book, cursor>>
             /\ \A i \in Indices : Published(i)' <=> Published(i)
<1> DEFINE b == body[ThisSlot]
<1>0. /\ wpc \in {"deps", "kernel"} /\ wpc' = "retire"
      /\ UNCHANGED <<content, ringVars, sig, prodVars, book, cursor>>
  BY DEF PassBarrier, RunKernel
<1>1. b \in Indices /\ InRing(b) /\ Published(b)
  BY <1>0, CurrentPacket
<1>2. ~ Launched(b)
  BY <1>0, <1>1 DEF HistInv
<1>3. PICK out : launched' = Append(launched, [packet |-> b, as |-> CurrentIndex, outcome |-> out])
  BY DEF PassBarrier, RunKernel, Launch
<1>4. launched \in Seq([packet : Indices \cup {NULL}, as : Indices,
                        outcome : Faults \cup {"passed"}])
  BY DEF IInv, TypeOK
<1> DEFINE r == [packet |-> b, as |-> CurrentIndex, outcome |-> out]
<1>5. r.packet = b /\ r.as = CurrentIndex
  OBVIOUS
<1>6. /\ Len(launched) \in Nat /\ Len(launched') = Len(launched) + 1
      /\ launched'[Len(launched')] = r
      /\ \A k \in 1 .. Len(launched) : launched'[k] = launched[k]
  <2> HIDE DEF r
  <2> QED
    BY <1>3, <1>4 DEF r
<1>7. \A i \in Indices : Launched(i)' <=> Launched(i) \/ i = b
  <2> HIDE DEF b, r
  <2>1. \A k \in 1 .. Len(launched') : k \in 1 .. Len(launched) \/ k = Len(launched')
    BY <1>6
  <2>2. Len(launched') \in 1 .. Len(launched')
    BY <1>6
  <2>3. \A k \in 1 .. Len(launched) : k \in 1 .. Len(launched')
    BY <1>6
  <2> QED
    BY <1>5, <1>6, <2>1, <2>2, <2>3 DEF Launched
<1>8. \A i \in Indices : Published(i)' <=> Published(i)
  BY <1>0 DEF Published, Pending, ringVars, prodVars
<1> QED
  BY <1>0, <1>1, <1>2, <1>5, <1>6, <1>7, <1>8

\* Resetting the header takes the current packet out of the ring.
LEMMA RetireEffect ==
  ASSUME IInv, Retire
  PROVE  /\ body[ThisSlot] \in Indices /\ InRing(body[ThisSlot])
         /\ \A i \in Indices : InRing(i)' <=> InRing(i) /\ i # body[ThisSlot]
         /\ \A i \in Indices : Published(i)' <=> Published(i)
         /\ UNCHANGED <<content, body, write_index, read_index, sig, prodVars,
                        PacketIsProcessed, cursor, launched>>
<1>0. /\ wpc = "retire"
      /\ header' = [header EXCEPT ![ThisSlot] = "INVALID"]
      /\ UNCHANGED <<content, body, write_index, read_index, sig, prodVars,
                     PacketIsProcessed, cursor, launched>>
  BY DEF Retire, book, taken
<1>1. /\ ThisSlot \in Slots /\ body[ThisSlot] \in Indices
      /\ InRing(body[ThisSlot]) /\ Slot(body[ThisSlot]) = ThisSlot
  BY <1>0, CurrentPacket
<1>2. header'[ThisSlot] = "INVALID" /\ \A s \in Slots : s # ThisSlot => header'[s] = header[s]
  BY <1>0, <1>1 DEF IInv, TypeOK
<1>3. ASSUME NEW i \in Indices
      PROVE  InRing(i)' <=> InRing(i) /\ i # body[ThisSlot]
  <2>1. Slot(i) \in Slots
    BY SlotInSlots, QueueAssumption DEF Indices
  <2>2. CASE Slot(i) = ThisSlot
    BY <1>2, <2>2 DEF InRing
  <2>3. CASE Slot(i) # ThisSlot
    BY <1>0, <1>1, <1>2, <2>1, <2>3 DEF InRing
  <2> QED
    BY <2>2, <2>3
<1>4. \A i \in Indices : Published(i)' <=> Published(i)
  BY <1>0 DEF Published, Pending, prodVars
<1> QED
  BY <1>0, <1>1, <1>3, <1>4

\* The read index moves past the packet it stands at, which was launched and
\* has left the ring.
LEMMA FreeEffect ==
  ASSUME IInv, HistInv, SkipInvalid \/ AdvanceReadIndex
  PROVE  /\ UNCHANGED <<content, header, body, write_index, sig, prodVars, launched>>
         /\ \A i \in Indices : Published(i)' <=> Published(i)
         /\ wpc \in {"scan", "advance"} /\ wpc' \in {"scan", "complete"}
         /\ ThisSlot \in Slots
         /\ \/ /\ read_index' = read_index
               /\ \/ UNCHANGED PacketIsProcessed
                  \/ /\ PacketIsProcessed' = [PacketIsProcessed EXCEPT ![ThisSlot] = TRUE]
                     /\ Launched(body[ThisSlot])
            \/ /\ read_index' = read_index + 1
               /\ read_index \in Indices /\ Launched(read_index) /\ ~ InRing(read_index)
               /\ PacketIsProcessed' = [PacketIsProcessed EXCEPT ![ThisSlot] = FALSE]
<1>0. ThisSlot \in Slots
  BY SlotInSlots DEF IInv, TypeOK, ThisSlot
<1>1. /\ UNCHANGED <<content, header, body, write_index, sig, prodVars, launched>>
      /\ wpc \in {"scan", "advance"} /\ wpc' \in {"scan", "complete"}
  BY DEF SkipInvalid, AdvanceReadIndex, InScan, taken
<1>2. \A i \in Indices : Published(i)' <=> Published(i)
  BY <1>1 DEF Published, Pending, prodVars
<1>3. ASSUME Occupied(ThisSlot), header[ThisSlot] = "INVALID", Launched(body[ThisSlot]),
             IsOldest, FreeOldest
      PROVE  /\ read_index' = read_index + 1
             /\ read_index \in Indices /\ Launched(read_index) /\ ~ InRing(read_index)
             /\ PacketIsProcessed' = [PacketIsProcessed EXCEPT ![ThisSlot] = FALSE]
  <2>1. body[ThisSlot] = read_index
    BY <1>1, <1>3, OldestFreed
  <2>2. CurrentIndex = read_index
    BY <1>1, <1>3 DEF IInv, CursorInv, IsOldest
  <2>3. ~ InRing(read_index)
    BY <1>3, <2>2 DEF InRing, ThisSlot
  <2> QED
    BY <1>3, <2>1, <2>2, <2>3 DEF FreeOldest, Occupied
<1>4. CASE SkipInvalid
  <2>1. CASE PacketIsProcessed[ThisSlot] /\ IsOldest
    <3>1. Occupied(ThisSlot) /\ header[ThisSlot] = "INVALID" /\ Launched(body[ThisSlot])
      BY <1>0, <2>1 DEF IInv, RingInv, HistInv
    <3>2. FreeOldest
      BY <1>4, <2>1 DEF SkipInvalid
    <3> QED
      BY <1>0, <1>1, <1>2, <1>3, <2>1, <3>1, <3>2
  <2>2. CASE ~ (PacketIsProcessed[ThisSlot] /\ IsOldest)
    BY <1>0, <1>1, <1>2, <1>4, <2>2 DEF SkipInvalid
  <2> QED
    BY <2>1, <2>2
<1>5. CASE AdvanceReadIndex
  <2>1. Occupied(ThisSlot) /\ header[ThisSlot] = "INVALID" /\ Launched(body[ThisSlot])
    BY <1>5 DEF AdvanceReadIndex, IInv, RingInv, HistInv
  <2>2. CASE IsOldest
    <3>1. FreeOldest
      BY <1>5, <2>2 DEF AdvanceReadIndex
    <3> QED
      BY <1>0, <1>1, <1>2, <1>3, <2>1, <2>2, <3>1
  <2>3. CASE ~ IsOldest
    BY <1>0, <1>1, <1>2, <1>5, <2>1, <2>3 DEF AdvanceReadIndex
  <2> QED
    BY <2>2, <2>3
<1> QED
  BY <1>4, <1>5

----------------------------------------------------------------------------
(* The history of launches.                                                *)

\* Nothing is launched in the beginning.
LEMMA InitHist == Init => HistInv
<1> SUFFICES ASSUME Init PROVE HistInv
  OBVIOUS
<1>1. \A i \in Indices : ~ Launched(i) /\ ~ Published(i)
  BY QueueAssumption DEF Init, Launched, Published, Indices
<1>2. Len(launched) = 0
  BY DEF Init
<1>3. \A s \in Slots : ~ PacketIsProcessed[s]
  BY DEF Init
<1> QED
  BY <1>1, <1>2, <1>3, QueueAssumption DEF Init, HistInv, Indices

\* A step that leaves the packets and the packet being retired where they are.
LEMMA SameHistory ==
  ASSUME HistInv, UNCHANGED <<launched, header, body, read_index, PacketIsProcessed>>,
         \A i \in Indices : Published(i)' <=> Published(i),
         \/ UNCHANGED <<wpc, CurrentIndex>>
         \/ wpc \notin {"retire", "advance"} /\ wpc' \notin {"retire", "advance"}
  PROVE  HistInv'
<1>1. /\ \A i \in Indices : Launched(i)' <=> Launched(i)
      /\ \A i \in Indices : InRing(i)' <=> InRing(i)
      /\ \A s : Launched(body[s])' <=> Launched(body[s])
  BY DEF Launched, InRing
<1>2. CASE UNCHANGED <<wpc, CurrentIndex>>
  BY <1>1, <1>2 DEF HistInv, ThisSlot
<1>3. CASE wpc \notin {"retire", "advance"} /\ wpc' \notin {"retire", "advance"}
  BY <1>1, <1>3 DEF HistInv
<1> QED
  BY <1>2, <1>3

\* A producer writes into a slot that holds no packet of the ring.
LEMMA WriteBodyHist ==
  ASSUME IInv, HistInv, NEW p \in Producers, WriteBody(p)
  PROVE  HistInv'
<1>1. /\ \A i \in Indices : Published(i)' <=> Published(i)
      /\ \A i \in Indices : InRing(i)' <=> InRing(i)
      /\ \A s \in Slots : Occupied(s) => body'[s] = body[s]
      /\ UNCHANGED <<read_index, procVars>>
  BY WriteBodyKeeps
<1>2. /\ UNCHANGED <<wpc, launched, PacketIsProcessed>> /\ ThisSlot' = ThisSlot
      /\ \A i : Launched(i)' <=> Launched(i)
  BY <1>1 DEF procVars, book, cursor, taken, ThisSlot, Launched
<1>3. \A s \in Slots : PacketIsProcessed[s] => body'[s] = body[s]
  BY <1>1 DEF IInv, RingInv
<1>4. wpc \in {"retire", "advance"} => body'[ThisSlot] = body[ThisSlot]
  <2>1. ThisSlot \in Slots
    BY SlotInSlots DEF IInv, TypeOK, ThisSlot
  <2> QED
    BY <1>1, <2>1 DEF IInv, RingInv
<1> QED
  BY <1>1, <1>2, <1>3, <1>4 DEF HistInv

\* A packet that is being published was not launched.
LEMMA PublishHist ==
  ASSUME IInv, HistInv, NEW p \in Producers, Publish(p)
  PROVE  HistInv'
<1>1. /\ next[p] \in Indices /\ ~ Published(next[p])
      /\ \A i \in Indices : Published(i)' <=> Published(i) \/ i = next[p]
      /\ \A i \in Indices : InRing(i)' <=> InRing(i) \/ i = next[p]
      /\ UNCHANGED <<body, read_index, procVars>>
  BY PublishEffect
<1>2. /\ UNCHANGED <<wpc, launched, PacketIsProcessed>> /\ ThisSlot' = ThisSlot
      /\ \A i : Launched(i)' <=> Launched(i)
  BY <1>1 DEF procVars, book, cursor, taken, ThisSlot, Launched
<1>3. ~ Launched(next[p])
  BY <1>1 DEF HistInv
<1> QED
  BY <1>1, <1>2, <1>3 DEF HistInv

\* The packet that is launched was not launched before.
LEMMA LaunchHist ==
  ASSUME IInv, HistInv, PassBarrier \/ RunKernel
  PROVE  HistInv'
<1> DEFINE b == body[ThisSlot]
<1>1. /\ b \in Indices /\ InRing(b) /\ Published(b) /\ ~ Launched(b)
      /\ \A i \in Indices : Launched(i)' <=> Launched(i) \/ i = b
      /\ Len(launched') = Len(launched) + 1
      /\ launched'[Len(launched')].packet = b
      /\ \A k \in 1 .. Len(launched) : launched'[k] = launched[k]
      /\ wpc \in {"deps", "kernel"} /\ wpc' = "retire"
      /\ UNCHANGED <<ringVars, book, cursor>>
      /\ \A i \in Indices : Published(i)' <=> Published(i)
  BY LaunchEffect
<1>2. /\ UNCHANGED <<header, body, read_index, PacketIsProcessed>> /\ ThisSlot' = ThisSlot
      /\ \A i \in Indices : InRing(i)' <=> InRing(i)
  BY <1>1 DEF ringVars, book, cursor, ThisSlot, InRing
<1>3. \A s \in Slots : PacketIsProcessed[s] => body[s] \in Indices
  BY DEF IInv, RingInv, Occupied
<1>4. Len(launched) \in Nat
  BY DEF IInv, TypeOK
<1>5. \A k \in 1 .. Len(launched) : launched[k].packet # b
  BY <1>1 DEF Launched
<1> HIDE DEF b
<1>6. \A j, k \in 1 .. Len(launched') :
        launched'[j].packet = launched'[k].packet => j = k
  <2>1. \A k \in 1 .. Len(launched') :
          \/ k \in 1 .. Len(launched) /\ launched'[k].packet = launched[k].packet
          \/ k = Len(launched') /\ launched'[k].packet = b
    BY <1>1, <1>4
  <2> QED
    BY <1>5, <2>1 DEF HistInv
<1>7. \A i \in Indices : Launched(i)' /\ InRing(i)' => body'[ThisSlot'] = i
  BY <1>1, <1>2 DEF HistInv, b
<1> QED
  BY <1>1, <1>2, <1>3, <1>6, <1>7 DEF HistInv, b

\* The packet that is retired was launched.
LEMMA RetireHist ==
  ASSUME IInv, HistInv, Retire
  PROVE  HistInv'
<1>1. /\ body[ThisSlot] \in Indices
      /\ \A i \in Indices : InRing(i)' <=> InRing(i) /\ i # body[ThisSlot]
      /\ \A i \in Indices : Published(i)' <=> Published(i)
      /\ UNCHANGED <<body, read_index, PacketIsProcessed, cursor, launched>>
      /\ wpc = "retire" /\ wpc' = "advance"
  BY RetireEffect DEF Retire
<1>2. ThisSlot' = ThisSlot /\ \A i : Launched(i)' <=> Launched(i)
  BY <1>1 DEF cursor, ThisSlot, Launched
<1> QED
  BY <1>1, <1>2 DEF HistInv

\* The packets that are freed were launched.
LEMMA FreeHist ==
  ASSUME IInv, HistInv, SkipInvalid \/ AdvanceReadIndex
  PROVE  HistInv'
<1>1. /\ UNCHANGED <<header, body, launched>>
      /\ \A i \in Indices : Published(i)' <=> Published(i)
      /\ wpc \in {"scan", "advance"} /\ wpc' \in {"scan", "complete"}
      /\ ThisSlot \in Slots
  BY FreeEffect
<1>2. /\ \A i : Launched(i)' <=> Launched(i)
      /\ \A i \in Indices : InRing(i)' <=> InRing(i)
  BY <1>1 DEF Launched, InRing
<1>3. \A i \in Indices : i < read_index' => Launched(i)
  <2>1. \/ read_index' = read_index
        \/ read_index' = read_index + 1 /\ Launched(read_index)
    BY FreeEffect
  <2>2. read_index \in Int
    BY DEF IInv, TypeOK
  <2> QED
    BY <2>1, <2>2 DEF HistInv, Indices
<1>4. \A s \in Slots : PacketIsProcessed'[s] => Launched(body[s])
  <2>1. \/ UNCHANGED PacketIsProcessed
        \/ /\ PacketIsProcessed' = [PacketIsProcessed EXCEPT ![ThisSlot] = TRUE]
           /\ Launched(body[ThisSlot])
        \/ PacketIsProcessed' = [PacketIsProcessed EXCEPT ![ThisSlot] = FALSE]
    BY FreeEffect
  <2>2. PacketIsProcessed \in [Slots -> BOOLEAN]
    BY DEF IInv, TypeOK
  <2> QED
    BY <1>1, <2>1, <2>2 DEF HistInv
<1> QED
  BY <1>1, <1>2, <1>3, <1>4 DEF HistInv

\* Every step preserves HistInv.
LEMMA NextHist == IInv /\ HistInv /\ [Next]_vars => HistInv'
<1> SUFFICES ASSUME IInv, HistInv, [Next]_vars PROVE HistInv'
  OBVIOUS
<1>1. ASSUME NEW p \in Producers, Producer(p) PROVE HistInv'
  <2>1. ASSUME \/ AddWriteIndex(p) \/ LoadWriteIndex(p) \/ CompareExchangeWriteIndex(p)
               \/ StoreWriteIndex(p) \/ WaitForSpace(p) \/ RingDoorbell(p)
        PROVE  HistInv'
    BY <2>1, ProducerKeeps, SameHistory DEF procVars, book, cursor, taken
  <2> QED
    BY <1>1, <2>1, WriteBodyHist, PublishHist DEF Producer
<1>2. CASE QuietProcessor
  BY <1>2, QuietKeeps, SameHistory DEF ringVars
<1>3. ASSUME Processor PROVE HistInv'
  BY <1>2, <1>3, LaunchHist, RetireHist, FreeHist DEF Processor, QuietProcessor
<1>4. ASSUME \/ UNCHANGED vars
             \/ \E h \in HostSignals : HostStore(h)
      PROVE  HistInv'
  <2>1. UNCHANGED <<ringVars, procVars, prodVars>>
    BY <1>4 DEF HostStore, vars
  <2>2. \A i \in Indices : Published(i)' <=> Published(i)
    BY <2>1 DEF Published, Pending, ringVars, prodVars
  <2> QED
    BY <2>1, <2>2, SameHistory DEF ringVars, procVars, book, cursor, taken
<1> QED
  BY <1>1, <1>3, <1>4 DEF Next, Stopped

\* No packet is lost and none is launched twice, however the producers'
\* publishing and ringing and the processor's scans interleave.
THEOREM LaunchesOnce == Spec => []LaunchedOnce
<1>1. HistInv => LaunchedOnce
  BY DEF HistInv, LaunchedOnce
<1> QED
  BY <1>1, InitHist, NextHist, InitIInv, NextIInv, PTL DEF Spec

\* CPUKernelAgent::Execute moves the read index only past packets that were
\* launched and whose slots hold no packet any more.
THEOREM FreesDone == Spec => []FreedAreDone
<1>1. IInv /\ HistInv => FreedAreDone
  <2> SUFFICES ASSUME IInv, HistInv PROVE FreedAreDone
    OBVIOUS
  <2>1. ASSUME NEW i \in Indices, i < read_index PROVE ~ InRing(i)
    <3>1. read_index \in Int /\ i \in Int
      BY QueueAssumption DEF IInv, TypeOK, Indices
    <3> QED
      BY <2>1, <3>1, RingWindow DEF InWindow
  <2> QED
    BY <2>1 DEF IInv, CursorInv, HistInv, FreedAreDone
<1> QED
  BY <1>1, InitHist, NextHist, InitIInv, NextIInv, PTL DEF Spec

----------------------------------------------------------------------------
(* Barriers.                                                               *)

\* A packet was launched on its condition, which stays true; the dep_signals
\* a barrier-AND packet has got past are 0 while the next one is loaded.
BarrierInv ==
  /\ BarrierRespected
  /\ wpc = "deps" /\ header[ThisSlot] = "BARRIER_AND" =>
       \A k \in 1 .. dep - 1 : ThisPacket.deps[k] = NULL \/ sig[ThisPacket.deps[k]] = 0

\* The dep_signals of a packet are signals or NULL.
LEMMA DepsType ==
  ASSUME IInv, NEW i \in Indices
  PROVE  /\ content[i].type \in PublishedTypes
         /\ \A k \in 1 .. NumDeps : content[i].deps[k] \in Signals \cup {NULL}
<1>1. content \in [Indices -> Packet]
  BY QueueAssumption DEF IInv, TypeOK
<1>2. content[i] \in Packet
  BY <1>1
<1> QED
  BY <1>2 DEF Packet

\* What every step does to the signals: none leaves 0.
SignalsFall == /\ content' = content
               /\ \A s \in Signals : sig[s] = 0 => sig'[s] = 0

\* A condition that holds stays so.
LEMMA SatisfiedStays ==
  ASSUME IInv, NEW i \in Indices, Satisfied(i), SignalsFall
  PROVE  Satisfied(i)'
<1>1. \A k \in 1 .. NumDeps : content[i].deps[k] \in Signals \cup {NULL}
  BY DepsType
<1> DEFINE D == {content[i].deps[k] : k \in 1 .. NumDeps} \ {NULL}
<1>2. D \subseteq Signals
  BY <1>1
<1>3. /\ content'[i] = content[i]
      /\ {content'[i].deps[k] : k \in 1 .. NumDeps} \ {NULL} = D
  BY DEF SignalsFall
<1>4. CASE content[i].type = "BARRIER_AND"
  <2>1. \A d \in D : sig[d] = 0
    BY <1>4 DEF Satisfied
  <2>2. \A d \in D : sig'[d] = 0
    BY <1>2, <2>1 DEF SignalsFall
  <2> HIDE DEF D
  <2> QED
    BY <1>3, <1>4, <2>2 DEF Satisfied
<1>5. CASE content[i].type = "BARRIER_OR"
  <2>1. \E d \in D : sig[d] = 0
    BY <1>5 DEF Satisfied
  <2>2. \E d \in D : sig'[d] = 0
    BY <1>2, <2>1 DEF SignalsFall
  <2> HIDE DEF D
  <2> QED
    BY <1>3, <1>5, <2>2 DEF Satisfied
<1>6. CASE content[i].type \notin {"BARRIER_AND", "BARRIER_OR"}
  BY <1>3, <1>6 DEF Satisfied
<1> QED
  BY <1>4, <1>5, <1>6

\* A step that launches nothing and leaves the barrier packet in hand alone.
LEMMA SameBarrier ==
  ASSUME IInv, BarrierInv, SignalsFall,
         \A i \in Indices : Launched(i)' => Launched(i),
         wpc' = "deps" =>
           /\ wpc = "deps"
           /\ UNCHANGED <<dep, ThisSlot, header[ThisSlot], body[ThisSlot]>>
  PROVE  BarrierInv'
<1>1. BarrierRespected'
  BY SatisfiedStays DEF BarrierInv, BarrierRespected
<1>2. ASSUME wpc' = "deps", header'[ThisSlot'] = "BARRIER_AND", NEW k \in 1 .. dep' - 1
      PROVE  ThisPacket'.deps[k] = NULL \/ sig'[ThisPacket'.deps[k]] = 0
  <2>1. /\ wpc = "deps" /\ dep' = dep /\ ThisPacket' = ThisPacket
        /\ header[ThisSlot] = "BARRIER_AND"
    BY <1>2 DEF ThisPacket, SignalsFall
  <2>2. ThisPacket.deps[k] = NULL \/ sig[ThisPacket.deps[k]] = 0
    BY <1>2, <2>1 DEF BarrierInv
  <2>3. ThisPacket.deps[k] \in Signals \cup {NULL}
    <3>1. body[ThisSlot] \in Indices
      BY <2>1, CurrentPacket
    <3>2. k \in 1 .. NumDeps
      BY <1>2, <2>1, QueueAssumption DEF IInv, TypeOK
    <3> QED
      BY <3>1, <3>2, DepsType DEF ThisPacket
  <2> QED
    BY <2>1, <2>2, <2>3 DEF SignalsFall
<1> QED
  BY <1>1, <1>2 DEF BarrierInv

\* The loop over dep_signal: what it has passed is NULL or 0.
LEMMA LoadDepBarrier ==
  ASSUME IInv, BarrierInv, LoadDep
  PROVE  BarrierInv'
<1>1. /\ UNCHANGED <<content, header, body, sig, launched, wpc, CurrentIndex>>
      /\ wpc = "deps" /\ dep' = dep + 1 /\ dep \in Nat
      /\ ~ Decisive(ThisPacket.deps[dep])
  BY DEF LoadDep, ringVars, cursor, IInv, TypeOK
<1>2. SignalsFall /\ BarrierRespected'
  <2>1. SignalsFall /\ \A i : Launched(i)' <=> Launched(i)
    BY <1>1 DEF SignalsFall, Launched
  <2> QED
    BY <2>1, SatisfiedStays DEF BarrierInv, BarrierRespected
<1>3. UNCHANGED <<ThisSlot, ThisPacket>>
  BY <1>1 DEF ThisSlot, ThisPacket
<1>4. ASSUME header[ThisSlot] = "BARRIER_AND", NEW k \in 1 .. dep
      PROVE  ThisPacket.deps[k] = NULL \/ sig[ThisPacket.deps[k]] = 0
  <2>1. CASE k = dep
    BY <1>1, <1>4, <2>1 DEF Decisive
  <2>2. CASE k # dep
    <3>1. k \in 1 .. dep - 1
      BY <1>1, <1>4, <2>2
    <3> QED
      BY <1>1, <1>4, <3>1 DEF BarrierInv
  <2> QED
    BY <2>1, <2>2
<1>5. dep' - 1 = dep
  BY <1>1
<1> QED
  BY <1>1, <1>2, <1>3, <1>4, <1>5 DEF BarrierInv

\* A barrier packet passes on its condition, a kernel packet has none.
LEMMA LaunchBarrier ==
  ASSUME IInv, HistInv, BarrierInv, PassBarrier \/ RunKernel
  PROVE  BarrierInv'
<1> DEFINE b == body[ThisSlot]
<1>1. /\ b \in Indices /\ wpc' = "retire"
      /\ \A i \in Indices : Launched(i)' <=> Launched(i) \/ i = b
      /\ UNCHANGED <<content, sig>> /\ wpc \in {"deps", "kernel"}
  BY LaunchEffect
<1>2. header[ThisSlot] = content[b].type
  BY <1>1, CurrentPacket
<1>3. Satisfied(b)
  <2>1. CASE PassBarrier
    <3>1. wpc = "deps" /\ BarrierConditionOK /\ dep \in 1 .. NumDeps + 1
      BY <2>1 DEF PassBarrier, IInv, TypeOK
    <3>2. CASE content[b].type = "BARRIER_AND"
      <4>1. dep = NumDeps + 1 /\ NumDeps \in Nat
        BY <1>2, <3>1, <3>2, QueueAssumption DEF BarrierConditionOK, DepsLeft
      <4>2. \A k \in 1 .. NumDeps : ThisPacket.deps[k] = NULL \/ sig[ThisPacket.deps[k]] = 0
        BY <1>2, <3>1, <3>2, <4>1 DEF BarrierInv
      <4> QED
        BY <3>2, <4>2 DEF Satisfied, ThisPacket
    <3>3. CASE content[b].type # "BARRIER_AND"
      <4>1. DepsLeft /\ Decisive(ThisPacket.deps[dep])
        BY <1>2, <3>1, <3>3 DEF BarrierConditionOK
      <4>2. /\ dep \in 1 .. NumDeps /\ content[b].deps[dep] # NULL
            /\ sig[content[b].deps[dep]] = 0
        BY <1>2, <3>1, <3>3, <4>1, QueueAssumption DEF DepsLeft, Decisive, ThisPacket
      <4> QED
        BY <3>3, <4>2 DEF Satisfied
    <3> QED
      BY <3>2, <3>3
  <2>2. CASE RunKernel
    <3>1. content[b].type = "KERNEL_DISPATCH"
      BY <1>2, <2>2 DEF RunKernel, IInv, RingInv
    <3> QED
      BY <3>1 DEF Satisfied
  <2> QED
    BY <2>1, <2>2
<1>4. SignalsFall
  BY <1>1 DEF SignalsFall
<1>5. BarrierRespected'
  BY <1>1, <1>3, <1>4, SatisfiedStays DEF BarrierInv, BarrierRespected
<1> QED
  BY <1>1, <1>5 DEF BarrierInv

\* Every step preserves BarrierInv.
LEMMA NextBarrier == IInv /\ HistInv /\ BarrierInv /\ [Next]_vars => BarrierInv'
<1> SUFFICES ASSUME IInv, HistInv, BarrierInv, [Next]_vars PROVE BarrierInv'
  OBVIOUS
<1> USE DEF procVars, book, cursor, taken, ringVars
<1>0. wpc = "deps" => ThisSlot \in Slots /\ Occupied(ThisSlot)
  BY CurrentPacket
<1>1. ASSUME NEW p \in Producers, Producer(p) PROVE BarrierInv'
  <2>1. /\ UNCHANGED <<content, sig, procVars>>
        /\ \A s \in Slots : Occupied(s) => header'[s] = header[s] /\ body'[s] = body[s]
    BY <1>1, ProducerKeeps, WriteBodyKeeps, PublishEffect DEF Producer
  <2>2. ThisSlot' = ThisSlot /\ \A i : Launched(i)' <=> Launched(i)
    BY <2>1 DEF ThisSlot, Launched
  <2> QED
    BY <1>0, <2>1, <2>2, SameBarrier DEF SignalsFall
<1>2. CASE LoadDep
  BY <1>2, LoadDepBarrier
<1>3. CASE FetchBarrier
  <2>1. UNCHANGED <<content, sig, launched>> /\ dep' = 1
    BY <1>3 DEF FetchBarrier
  <2>2. SignalsFall /\ \A i : Launched(i)' <=> Launched(i)
    BY <2>1 DEF SignalsFall, Launched
  <2>3. BarrierRespected'
    BY <2>2, SatisfiedStays DEF BarrierInv, BarrierRespected
  <2> QED
    BY <2>1, <2>3 DEF BarrierInv
<1>4. CASE \/ CheckDoorBell \/ LoadIndices \/ EndScan \/ FetchKernel \/ FetchUnsupported
           \/ StopAtBarrier \/ Complete
  <2>1. /\ UNCHANGED <<content, launched>> /\ wpc' # "deps"
    BY <1>4 DEF CheckDoorBell, LoadIndices, EndScan, FetchKernel, FetchUnsupported,
       StopAtBarrier, Complete
  <2>2. \A s \in Signals : sig[s] = 0 => sig'[s] = 0
    <3>1. sig' = sig \/ sig' = [sig EXCEPT ![CompletionSignal] = 0]
      BY <1>4 DEF CheckDoorBell, LoadIndices, EndScan, FetchKernel, FetchUnsupported,
         StopAtBarrier, Complete
    <3> QED
      BY <3>1 DEF IInv, TypeOK
  <2> QED
    BY <2>1, <2>2, SameBarrier DEF SignalsFall, Launched
<1>5. CASE PassBarrier \/ RunKernel
  BY <1>5, LaunchBarrier
<1>6. CASE Retire \/ SkipInvalid \/ AdvanceReadIndex
  <2>1. UNCHANGED <<content, sig, launched>> /\ wpc' # "deps"
    BY <1>6 DEF Retire, SkipInvalid, AdvanceReadIndex, InScan
  <2> QED
    BY <2>1, SameBarrier DEF SignalsFall, Launched
<1>7. ASSUME Processor PROVE BarrierInv'
  BY <1>2, <1>3, <1>4, <1>5, <1>6, <1>7 DEF Processor
<1>8. ASSUME NEW h \in HostSignals, HostStore(h) PROVE BarrierInv'
  <2>1. UNCHANGED <<content, ringVars, procVars>> /\ \A s \in Signals : sig[s] = 0 => sig'[s] = 0
    BY <1>8 DEF HostStore, IInv, TypeOK
  <2> QED
    BY <2>1, SameBarrier DEF SignalsFall, Launched, ThisSlot
<1>9. CASE UNCHANGED vars
  BY <1>9, SameBarrier DEF vars, SignalsFall, Launched, ThisSlot
<1> QED
  BY <1>1, <1>7, <1>8, <1>9 DEF Next, Stopped

\* Every barrier packet that was let through had its condition met: all of its
\* signals 0 for a barrier-AND packet, one of them for a barrier-OR packet,
\* although the processor loads them one after the other.
THEOREM BarriersRespected == Spec => []BarrierRespected
<1>1. Init => BarrierInv
  BY DEF Init, BarrierInv, BarrierRespected, Launched
<1>2. BarrierInv => BarrierRespected
  BY DEF BarrierInv
<1> QED
  BY <1>1, <1>2, InitHist, NextHist, InitIInv, NextIInv, NextBarrier, PTL DEF Spec

----------------------------------------------------------------------------
(* The packet_id a packet is launched under.                               *)

Scanning == wpc \in {"scan", "deps", "kernel", "retire", "advance", "complete"}

\* A producer rings only for a packet that had its place in the ring, so that
\* no scan goes further than one index past the ring.
NearInv ==
  /\ \A p \in Producers : ppc[p] = "ring" => last[p] < read_index + Size
  /\ doorbell # SignalMax => doorbell < read_index + Size
  /\ wpc = "indices" => LastHandledDoorBell < read_index + Size
  /\ Scanning => LastIndex <= read_index + Size
  /\ wpc \in {"deps", "kernel"} => CurrentIndex <= LastIndex
  /\ PacketIdNear

\* The processor leaves the scan as it is, or ends it; the read index may move.
LEMMA SameNear ==
  ASSUME IInv, NearInv,
         read_index' = read_index \/ read_index' = read_index + 1,
         \A p \in Producers : ppc'[p] = "ring" => ppc[p] = "ring" /\ last'[p] = last[p],
         doorbell' = doorbell, launched' = launched,
         wpc' = "indices" => wpc = "indices" /\ LastHandledDoorBell' = LastHandledDoorBell,
         Scanning' => Scanning /\ LastIndex' = LastIndex,
         wpc' \in {"deps", "kernel"} => CurrentIndex' <= LastIndex
  PROVE  NearInv'
<1>1. read_index \in Nat /\ Size \in Nat /\ LastIndex \in Int
      /\ doorbell \in Int /\ LastHandledDoorBell \in Int
      /\ \A p \in Producers : last[p] \in Int
  BY QueueAssumption DEF IInv, TypeOK, Indices, SignalMax
<1>2. PacketIdNear'
  BY DEF NearInv, PacketIdNear
<1>3. \A p \in Producers : ppc'[p] = "ring" => last'[p] < read_index' + Size
  BY <1>1 DEF NearInv
<1>4. /\ doorbell' # SignalMax => doorbell' < read_index' + Size
      /\ wpc' = "indices" => LastHandledDoorBell' < read_index' + Size
      /\ Scanning' => LastIndex' <= read_index' + Size
  BY <1>1 DEF NearInv
<1>5. wpc' \in {"deps", "kernel"} => CurrentIndex' <= LastIndex'
  BY DEF Scanning
<1> QED
  BY <1>2, <1>3, <1>4, <1>5 DEF NearInv

\* The packet in a slot the scan has reached is the one of the index it has
\* reached, or the one a lap before.
LEMMA LaunchNear ==
  ASSUME IInv, HistInv, NearInv, PassBarrier \/ RunKernel
  PROVE  NearInv'
<1> DEFINE b == body[ThisSlot]
<1>1. /\ Len(launched') = Len(launched) + 1
      /\ launched'[Len(launched')].packet = b
      /\ launched'[Len(launched')].as = CurrentIndex
      /\ \A k \in 1 .. Len(launched) : launched'[k] = launched[k]
      /\ wpc \in {"deps", "kernel"} /\ wpc' = "retire"
      /\ UNCHANGED <<content, ringVars, sig, prodVars, book, cursor>>
  BY LaunchEffect
<1>2. /\ b \in Indices /\ Slot(b) = Slot(CurrentIndex) /\ InWindow(b)
  BY <1>1, CurrentPacket DEF Occupied, ThisSlot
<1>3. /\ read_index \in Nat /\ Size \in Nat \ {0} /\ b \in Nat /\ CurrentIndex \in Nat
      /\ LastIndex \in Int /\ Len(launched) \in Nat
  BY <1>2, QueueAssumption DEF IInv, TypeOK, Indices
<1>4. read_index <= CurrentIndex /\ CurrentIndex <= read_index + Size
  BY <1>1, <1>3 DEF NearInv, Scanning, IInv, CursorInv
<1>5. CurrentIndex - b \in {0, Size}
  <2> HIDE DEF b
  <2>1. CASE CurrentIndex < b + Size
    BY <1>2, <1>3, <1>4, <2>1, SameSlot DEF InWindow
  <2>2. CASE CurrentIndex >= b + Size
    BY <1>2, <1>3, <1>4, <2>2 DEF InWindow
  <2> QED
    BY <1>3, <2>1, <2>2
<1>6. PacketIdNear'
  <2> SUFFICES ASSUME NEW k \in 1 .. Len(launched')
               PROVE  launched'[k].as - launched'[k].packet \in {0, Size}
    BY DEF PacketIdNear
  <2>1. CASE k = Len(launched')
    BY <1>1, <1>5, <2>1
  <2>2. CASE k # Len(launched')
    <3>1. k \in 1 .. Len(launched)
      BY <1>1, <1>3, <2>2
    <3> QED
      BY <1>1, <3>1 DEF NearInv, PacketIdNear
  <2> QED
    BY <2>1, <2>2
<1> QED
  BY <1>1, <1>6 DEF NearInv, Scanning, ringVars, prodVars, book, cursor

\* What the producers do to the doorbell.
LEMMA ProducerNear ==
  ASSUME IInv, NearInv, NEW p \in Producers, Producer(p)
  PROVE  NearInv'
<1> USE QueueAssumption DEF IInv, procVars, book, cursor, taken, Scanning
<1>1. CASE AddWriteIndex(p) \/ StoreWriteIndex(p)
  <2>1. /\ UNCHANGED <<read_index, doorbell, procVars>>
        /\ \A q \in Producers : ppc'[q] = "ring" => ppc[q] = "ring" /\ last'[q] = last[q]
    BY <1>1 DEF AddWriteIndex, StoreWriteIndex, Claims, TypeOK
  <2> QED
    BY <2>1, SameNear DEF NearInv
<1>2. CASE CompareExchangeWriteIndex(p)
  <2>1. /\ UNCHANGED <<read_index, doorbell, procVars>>
        /\ \A q \in Producers : ppc'[q] = "ring" => ppc[q] = "ring" /\ last'[q] = last[q]
    BY <1>2 DEF CompareExchangeWriteIndex, Claims, TypeOK
  <2> QED
    BY <2>1, SameNear DEF NearInv
<1>3. CASE LoadWriteIndex(p) \/ WaitForSpace(p) \/ WriteBody(p)
  <2>1. /\ UNCHANGED <<read_index, doorbell, procVars>>
        /\ \A q \in Producers : ppc'[q] = "ring" => ppc[q] = "ring" /\ last'[q] = last[q]
    BY <1>3 DEF LoadWriteIndex, WaitForSpace, WriteBody, ringVars, TypeOK
  <2> QED
    BY <2>1, SameNear DEF NearInv
<1>4. CASE Publish(p)
  <2>1. UNCHANGED <<read_index, doorbell, procVars, last>>
    BY <1>4 DEF Publish
  <2>2. ASSUME NEW q \in Producers, ppc'[q] = "ring"
        PROVE  last[q] < read_index + Size
    <3>1. CASE q = p
      <4>1. ~ (next[p] < last[p])
        BY <1>4, <2>2, <3>1 DEF Publish, TypeOK
      <4>2. next[p] < read_index + Size /\ next[p] \in Int /\ last[p] \in Int /\ read_index \in Int
        BY <1>4 DEF Publish, ClaimInv, TypeOK
      <4> QED
        BY <3>1, <4>1, <4>2
    <3>2. CASE q # p
      BY <1>4, <2>2, <3>2 DEF Publish, TypeOK, NearInv
    <3> QED
      BY <3>1, <3>2
  <2> QED
    BY <2>1, <2>2 DEF NearInv, PacketIdNear
<1>5. CASE RingDoorbell(p)
  <2>1. /\ doorbell' = last[p] /\ last[p] < read_index + Size
        /\ UNCHANGED <<read_index, procVars, last>>
        /\ \A q \in Producers : ppc'[q] = "ring" => ppc[q] = "ring"
    BY <1>5 DEF RingDoorbell, TypeOK, NearInv
  <2> QED
    BY <2>1 DEF NearInv, PacketIdNear
<1> QED
  BY <1>1, <1>2, <1>3, <1>4, <1>5 DEF Producer

\* Every step preserves NearInv.
LEMMA NextNear == IInv /\ HistInv /\ NearInv /\ [Next]_vars => NearInv'
<1> SUFFICES ASSUME IInv, HistInv, NearInv, [Next]_vars PROVE NearInv'
  OBVIOUS
<1> USE QueueAssumption DEF procVars, book, cursor, taken, ringVars, prodVars, Scanning
<1>1. CASE CheckDoorBell
  BY <1>1 DEF CheckDoorBell, DoorBellChanged, NearInv, PacketIdNear
<1>2. CASE LoadIndices
  <2>1. LastIndex' <= read_index + Size
    <3>1. /\ LastIndex' = read_index + PacketsToCheck
          /\ LastHandledDoorBell < read_index + Size
          /\ LastHandledDoorBell \in Int /\ read_index \in Int /\ Size \in Int
      BY <1>2 DEF LoadIndices, NearInv, IInv, TypeOK, Indices, SignalMax
    <3> QED
      BY <3>1 DEF PacketsToCheck
  <2> QED
    BY <1>2, <2>1 DEF LoadIndices, NearInv, PacketIdNear
<1>3. CASE FetchBarrier \/ FetchKernel
  <2>1. CurrentIndex <= LastIndex
    BY <1>3 DEF FetchBarrier, FetchKernel, InScan
  <2> QED
    BY <1>3, <2>1, SameNear DEF FetchBarrier, FetchKernel, InScan
<1>4. CASE \/ EndScan \/ FetchUnsupported \/ LoadDep \/ StopAtBarrier
           \/ Retire \/ Complete
  <2>1. /\ UNCHANGED <<read_index, doorbell, prodVars, launched, LastIndex>>
        /\ wpc' # "indices" /\ (Scanning' => Scanning)
        /\ wpc' \in {"deps", "kernel"} => wpc = "deps" /\ CurrentIndex' = CurrentIndex
    BY <1>4 DEF EndScan, FetchUnsupported, LoadDep, StopAtBarrier, Retire, Complete
  <2> QED
    BY <2>1, SameNear DEF NearInv
<1>5. CASE PassBarrier \/ RunKernel
  BY <1>5, LaunchNear
<1>6. CASE SkipInvalid \/ AdvanceReadIndex
  <2>1. /\ UNCHANGED <<doorbell, prodVars, launched, LastIndex>>
        /\ wpc \in {"scan", "advance"} /\ wpc' \in {"scan", "complete"}
    BY <1>6 DEF SkipInvalid, AdvanceReadIndex, InScan
  <2>2. read_index' = read_index \/ read_index' = read_index + 1
    BY <1>6, FreeEffect
  <2> QED
    BY <2>1, <2>2, SameNear
<1>7. ASSUME Processor PROVE NearInv'
  BY <1>1, <1>2, <1>3, <1>4, <1>5, <1>6, <1>7 DEF Processor
<1>8. ASSUME NEW h \in HostSignals, HostStore(h) PROVE NearInv'
  BY <1>8 DEF HostStore, NearInv, PacketIdNear
<1>9. CASE UNCHANGED vars
  BY <1>9 DEF vars, NearInv, PacketIdNear
<1> QED
  BY <1>7, <1>8, <1>9, ProducerNear DEF Next, Stopped

\* The packet_id handed to a kernel is the index of its packet or the index
\* one lap ahead, although the scan of a multi producer queue in
\* CPUKernelAgent::Execute runs one index past the ring.
THEOREM PacketIdsNear == Spec => []PacketIdNear
<1>1. Init => NearInv
  BY QueueAssumption DEF Init, NearInv, PacketIdNear, Scanning
<1>2. NearInv => PacketIdNear
  BY DEF NearInv
<1> QED
  BY <1>1, <1>2, InitHist, NextHist, InitIInv, NextIInv, NextNear, PTL DEF Spec

----------------------------------------------------------------------------
(* Single producer queues.                                                 *)

\* The packets up to i are published.
UpTo(i) == \A j \in Indices : j <= i => Published(j)

\* The one producer rings when all it has claimed is published, so that the
\* scan, which ends at the doorbell, stays with the oldest packet of the ring.
OrderInv ==
  /\ doorbell # SignalMax => UpTo(doorbell)
  /\ LastHandledDoorBell # SignalMax => UpTo(LastHandledDoorBell)
  /\ wpc = "indices" \/ Scanning => LastHandledDoorBell # SignalMax
  /\ Scanning => LastIndex = LastHandledDoorBell
  /\ wpc \in {"scan", "deps", "kernel", "retire", "advance"} =>
       CurrentIndex = CurrentReadIndex
  /\ wpc = "complete" => CurrentReadIndex = CurrentIndex + 1
  /\ \A s \in Slots : ~ PacketIsProcessed[s]
  /\ Len(launched) = IF wpc \in {"retire", "advance"} THEN read_index + 1 ELSE read_index
  /\ InOrder

\* A published packet stays published.
LEMMA PublishedStays ==
  ASSUME IInv, HistInv, [Next]_vars, NEW i \in Indices, Published(i)
  PROVE  Published(i)'
<1>1. ASSUME NEW p \in Producers, Producer(p) PROVE Published(i)'
  BY <1>1, ProducerKeeps, WriteBodyKeeps, PublishEffect DEF Producer
<1>2. ASSUME Processor PROVE Published(i)'
  BY <1>2, QuietKeeps, LaunchEffect, RetireEffect, FreeEffect DEF Processor, QuietProcessor
<1>3. ASSUME UNCHANGED vars \/ \E h \in HostSignals : HostStore(h) PROVE Published(i)'
  BY <1>3 DEF HostStore, vars, ringVars, prodVars, Published, Pending
<1> QED
  BY <1>1, <1>2, <1>3 DEF Next, Stopped

\* In order, as many packets were launched as lie below the read index, and
\* the one at the read index was not.
LEMMA OldestNotLaunched ==
  ASSUME IInv, OrderInv, wpc \notin {"retire", "advance"}
  PROVE  ~ Launched(read_index)
<1>1. Len(launched) = read_index /\ read_index \in Nat
  BY DEF OrderInv, IInv, TypeOK
<1> QED
  BY <1>1 DEF Launched, OrderInv, InOrder

\* The slot at the scan's index holds the oldest packet, which is published:
\* its header is set.
LEMMA NothingSkipped ==
  ASSUME IInv, HistInv, OrderInv, InScan
  PROVE  header[ThisSlot] # "INVALID"
<1>1. /\ CurrentIndex = read_index /\ CurrentIndex \in Indices
      /\ CurrentIndex <= LastHandledDoorBell /\ LastHandledDoorBell # SignalMax
  BY QueueAssumption DEF InScan, OrderInv, Scanning, IInv, CursorInv, TypeOK, Indices
<1>2. Published(CurrentIndex)
  BY <1>1 DEF OrderInv, UpTo
<1>3. ~ Launched(CurrentIndex)
  BY <1>1, OldestNotLaunched DEF InScan
<1> QED
  BY <1>1, <1>2, <1>3 DEF HistInv, InRing, ThisSlot

\* A step that leaves the scan, the doorbell and the history alone.
LEMMA SameOrder ==
  ASSUME OrderInv, \A i \in Indices : Published(i) => Published(i)',
         UNCHANGED <<doorbell, LastHandledDoorBell, LastIndex, CurrentIndex, CurrentReadIndex,
                     PacketIsProcessed, launched, read_index>>,
         \/ wpc' = wpc
         \/ wpc = "scan" /\ wpc' \in {"deps", "kernel", "poll", "aborted"}
         \/ wpc = "deps" /\ wpc' = "poll"
         \/ wpc = "retire" /\ wpc' = "advance"
  PROVE  OrderInv'
<1>1. \A i : UpTo(i) => UpTo(i)'
  BY DEF UpTo
<1>2. /\ doorbell' # SignalMax => UpTo(doorbell)'
      /\ LastHandledDoorBell' # SignalMax => UpTo(LastHandledDoorBell)'
  BY <1>1 DEF OrderInv
<1>3. InOrder'
  BY DEF OrderInv, InOrder
<1> QED
  BY <1>2, <1>3 DEF OrderInv, Scanning

\* A single producer that rings has nothing pending.
LEMMA RingOrder ==
  ASSUME Type = "SINGLE", IInv, HistInv, OrderInv, [Next]_vars,
         NEW p \in Producers, RingDoorbell(p)
  PROVE  OrderInv'
<1>1. UpTo(last[p])'
  <2> SUFFICES ASSUME NEW j \in Indices, j <= last[p] PROVE Published(j)'
    BY DEF UpTo, RingDoorbell
  <2>1. ~ Pending(j)
    BY QueueAssumption DEF Pending, RingDoorbell
  <2>2. j < write_index
    BY QueueAssumption DEF RingDoorbell, IInv, ClaimInv, TypeOK, Indices
  <2> QED
    BY <2>1, <2>2, PublishedStays DEF Published
<1>2. /\ doorbell' = last[p] /\ last' = last
      /\ UNCHANGED <<read_index, wpc, LastHandledDoorBell, LastIndex, CurrentIndex,
                     CurrentReadIndex, PacketIsProcessed, launched>>
  BY DEF RingDoorbell, procVars, book, cursor, taken
<1>3. UpTo(doorbell)'
  BY <1>1, <1>2 DEF UpTo
<1>4. LastHandledDoorBell' # SignalMax => UpTo(LastHandledDoorBell)'
  BY <1>2, PublishedStays DEF OrderInv, UpTo
<1>5. InOrder'
  BY <1>2 DEF OrderInv, InOrder
<1> QED
  BY <1>2, <1>3, <1>4, <1>5 DEF OrderInv, Scanning

\* A pass begins.
LEMMA CheckDoorBellOrder ==
  ASSUME IInv, HistInv, OrderInv, [Next]_vars, CheckDoorBell
  PROVE  OrderInv'
<1>1. /\ doorbell # SignalMax /\ LastHandledDoorBell' = doorbell
      /\ UNCHANGED <<doorbell, read_index, PacketIsProcessed, launched>>
      /\ wpc = "poll" /\ wpc' = "indices"
  BY DEF CheckDoorBell, DoorBellChanged, ringVars, taken
<1>2. UpTo(doorbell)'
  BY <1>1, PublishedStays DEF OrderInv, UpTo
<1>3. UpTo(LastHandledDoorBell)'
  BY <1>1, <1>2 DEF UpTo
<1>4. InOrder'
  BY <1>1 DEF OrderInv, InOrder
<1> QED
  BY <1>1, <1>2, <1>3, <1>4 DEF OrderInv, Scanning

\* The scan begins at the read index.
LEMMA LoadIndicesOrder ==
  ASSUME Type = "SINGLE", IInv, HistInv, OrderInv, [Next]_vars, LoadIndices
  PROVE  OrderInv'
<1>1. /\ CurrentIndex' = read_index /\ CurrentReadIndex' = read_index
      /\ LastIndex' = read_index + (LastHandledDoorBell - read_index)
      /\ UNCHANGED <<doorbell, LastHandledDoorBell, read_index, PacketIsProcessed, launched>>
      /\ wpc = "indices" /\ wpc' = "scan"
  BY DEF LoadIndices, PacketsToCheck, ringVars, book, taken
<1>2. LastIndex' = LastHandledDoorBell
  BY <1>1, QueueAssumption DEF IInv, TypeOK, Indices, SignalMax
<1>3. /\ doorbell' # SignalMax => UpTo(doorbell)'
      /\ LastHandledDoorBell' # SignalMax => UpTo(LastHandledDoorBell)'
  BY <1>1, PublishedStays DEF OrderInv, UpTo
<1>4. InOrder'
  BY <1>1 DEF OrderInv, InOrder
<1> QED
  BY <1>1, <1>2, <1>3, <1>4 DEF OrderInv, Scanning

\* The packet that is launched is the oldest, under its own index.
LEMMA LaunchOrder ==
  ASSUME IInv, HistInv, OrderInv, [Next]_vars, PassBarrier \/ RunKernel
  PROVE  OrderInv'
<1> DEFINE b == body[ThisSlot]
<1>1. /\ Len(launched') = Len(launched) + 1
      /\ launched'[Len(launched')].packet = b
      /\ launched'[Len(launched')].as = CurrentIndex
      /\ \A k \in 1 .. Len(launched) : launched'[k] = launched[k]
      /\ wpc \in {"deps", "kernel"} /\ wpc' = "retire"
      /\ UNCHANGED <<ringVars, book, cursor>>
  BY LaunchEffect
<1>2. b \in Indices /\ Slot(b) = Slot(CurrentIndex) /\ InWindow(b)
  BY <1>1, CurrentPacket DEF Occupied, ThisSlot
<1>3. CurrentIndex = read_index /\ read_index \in Nat /\ Len(launched) = read_index
  BY <1>1 DEF OrderInv, IInv, CursorInv, TypeOK
<1>4. b = read_index
  BY <1>2, <1>3, SameSlot, QueueAssumption DEF InWindow, Indices
<1>5. InOrder'
  <2> HIDE DEF b
  <2> SUFFICES ASSUME NEW k \in 1 .. Len(launched')
               PROVE  launched'[k].packet = k - 1 /\ launched'[k].as = k - 1
    BY DEF InOrder
  <2>1. CASE k = Len(launched')
    BY <1>1, <1>3, <1>4, <2>1
  <2>2. CASE k # Len(launched')
    <3>1. k \in 1 .. Len(launched)
      BY <1>1, <1>3, <2>2
    <3> QED
      BY <1>1, <3>1 DEF OrderInv, InOrder
  <2> QED
    BY <2>1, <2>2
<1>6. /\ doorbell' # SignalMax => UpTo(doorbell)'
      /\ LastHandledDoorBell' # SignalMax => UpTo(LastHandledDoorBell)'
  BY <1>1, PublishedStays DEF OrderInv, UpTo, ringVars, book
<1> QED
  BY <1>1, <1>3, <1>5, <1>6 DEF OrderInv, Scanning, ringVars, book, cursor

\* The retired packet is the oldest: the read index moves on at once.
LEMMA AdvanceOrder ==
  ASSUME IInv, HistInv, OrderInv, [Next]_vars, AdvanceReadIndex
  PROVE  OrderInv'
<1>1. wpc = "advance" /\ wpc' = "complete" /\ IsOldest
  BY DEF AdvanceReadIndex, OrderInv, IsOldest
<1>2. /\ FreeOldest /\ CurrentIndex = read_index
      /\ UNCHANGED <<doorbell, LastHandledDoorBell, LastIndex, CurrentIndex, launched>>
  BY <1>1 DEF AdvanceReadIndex, IsOldest, IInv, CursorInv, taken
<1>3. \A s \in Slots : ~ PacketIsProcessed'[s]
  BY <1>2 DEF FreeOldest, OrderInv, IInv, TypeOK
<1>4. /\ doorbell' # SignalMax => UpTo(doorbell)'
      /\ LastHandledDoorBell' # SignalMax => UpTo(LastHandledDoorBell)'
  BY <1>2, PublishedStays DEF OrderInv, UpTo
<1>5. InOrder'
  BY <1>2 DEF OrderInv, InOrder
<1> QED
  BY <1>1, <1>2, <1>3, <1>4, <1>5 DEF OrderInv, Scanning, FreeOldest

\* The scan goes on behind the packet that is done.
LEMMA CompleteOrder ==
  ASSUME IInv, HistInv, OrderInv, [Next]_vars, Complete
  PROVE  OrderInv'
<1>1. /\ wpc = "complete" /\ wpc' = "scan" /\ CurrentIndex' = CurrentIndex + 1
      /\ UNCHANGED <<doorbell, LastHandledDoorBell, LastIndex, CurrentReadIndex, launched,
                     read_index, PacketIsProcessed>>
  BY DEF Complete, ringVars, book, taken
<1>2. /\ doorbell' # SignalMax => UpTo(doorbell)'
      /\ LastHandledDoorBell' # SignalMax => UpTo(LastHandledDoorBell)'
  BY <1>1, PublishedStays DEF OrderInv, UpTo
<1>3. InOrder'
  BY <1>1 DEF OrderInv, InOrder
<1> QED
  BY <1>1, <1>2, <1>3 DEF OrderInv, Scanning

\* Every step preserves OrderInv.
LEMMA NextOrder ==
  ASSUME Type = "SINGLE", IInv, HistInv, OrderInv, [Next]_vars
  PROVE  OrderInv'
<1> USE DEF procVars, book, cursor, taken, ringVars
<1>0. \A i \in Indices : Published(i) => Published(i)'
  BY PublishedStays
<1>1. ASSUME NEW p \in Producers, Producer(p), ~ RingDoorbell(p) PROVE OrderInv'
  <2>1. UNCHANGED <<doorbell, read_index, procVars>>
    BY <1>1 DEF Producer, AddWriteIndex, LoadWriteIndex, CompareExchangeWriteIndex,
       StoreWriteIndex, WaitForSpace, WriteBody, Publish
  <2> QED
    BY <1>0, <2>1, SameOrder
<1>2. CASE \/ EndScan \/ FetchBarrier \/ FetchKernel \/ FetchUnsupported \/ LoadDep
           \/ StopAtBarrier \/ Retire
  <2>1. /\ UNCHANGED <<doorbell, read_index, book, cursor, launched>>
        /\ \/ wpc' = wpc
           \/ wpc = "scan" /\ wpc' \in {"deps", "kernel", "poll", "aborted"}
           \/ wpc = "deps" /\ wpc' = "poll"
           \/ wpc = "retire" /\ wpc' = "advance"
    BY <1>2 DEF EndScan, FetchBarrier, FetchKernel, FetchUnsupported, LoadDep,
       StopAtBarrier, Retire, InScan
  <2> QED
    BY <1>0, <2>1, SameOrder
<1>3. CASE SkipInvalid
  BY <1>3, NothingSkipped DEF SkipInvalid
<1>4. ASSUME Processor PROVE OrderInv'
  BY <1>2, <1>3, <1>4, CheckDoorBellOrder, LoadIndicesOrder, LaunchOrder, AdvanceOrder,
     CompleteOrder DEF Processor
<1>5. ASSUME UNCHANGED vars \/ \E h \in HostSignals : HostStore(h) PROVE OrderInv'
  <2>1. UNCHANGED <<ringVars, procVars>>
    BY <1>5 DEF HostStore, vars
  <2> QED
    BY <1>0, <2>1, SameOrder
<1> QED
  BY <1>1, <1>4, <1>5, RingOrder DEF Next, Stopped

\* The packets of a single producer queue are launched in the order of their
\* indices, each under its own index, as CPUKernelAgent::Execute says ("we
\* execute packets in order").
THEOREM SingleProducerInOrder == Type = "SINGLE" => (Spec => []InOrder)
<1> SUFFICES ASSUME Type = "SINGLE" PROVE Spec => []InOrder
  OBVIOUS
<1>1. Init => OrderInv
  BY QueueAssumption DEF Init, OrderInv, InOrder, Scanning
<1>2. IInv /\ HistInv /\ OrderInv /\ [Next]_vars => OrderInv'
  BY NextOrder
<1>3. OrderInv => InOrder
  BY DEF OrderInv
<1> QED
  BY <1>1, <1>2, <1>3, InitHist, NextHist, InitIInv, NextIInv, PTL DEF Spec

----------------------------------------------------------------------------
(* The user mode queue implements PacketQueue, for every ring size, every  *)
(* number of producers and of packets, and every content of the packets:   *)
(* each step of the queue is, under the mapping of                         *)
(* UserModeQueueRefinement, one step of the packet queue or none.          *)

\* The completion signal the processor has taken from the packet is that of
\* the packet in hand, and still is one of a retired packet when the slot has
\* been given back.
CompletionInv ==
  /\ wpc \in {"kernel", "retire", "advance"} =>
       CompletionSignal = CompletionSignalOf(body[ThisSlot])
  /\ wpc = "complete" /\ CompletionSignal # NULL =>
       /\ CompletionSignal \in Indices /\ content[CompletionSignal].completion
       /\ Launched(CompletionSignal) /\ ~ InRing(CompletionSignal)

RInv == IInv /\ HistInv /\ BarrierInv /\ CompletionInv

----------------------------------------------------------------------------
(* The completion signal.                                                  *)

\* A producer does not touch the packet in hand.
LEMMA ProducerCompletion ==
  ASSUME IInv, HistInv, CompletionInv, NEW p \in Producers, Producer(p)
  PROVE  CompletionInv'
<1> USE DEF procVars, book, cursor, taken
<1>1. UNCHANGED <<content, procVars>>
  BY ProducerKeeps, WriteBodyKeeps, PublishEffect DEF Producer
<1>2. ThisSlot' = ThisSlot /\ \A i : Launched(i)' <=> Launched(i)
  BY <1>1 DEF ThisSlot, Launched
<1>3. \A i \in Indices : Launched(i) /\ ~ InRing(i) => ~ InRing(i)'
  <2>1. ASSUME Publish(p), NEW i \in Indices, Launched(i) PROVE InRing(i)' => InRing(i)
    BY <2>1, PublishEffect DEF HistInv
  <2>2. ASSUME WriteBody(p), NEW i \in Indices PROVE InRing(i)' => InRing(i)
    BY <2>2, WriteBodyKeeps
  <2>3. ASSUME ~ Publish(p), ~ WriteBody(p), NEW i \in Indices PROVE InRing(i)' => InRing(i)
    <3>1. UNCHANGED <<header, body>>
      BY <2>3, ProducerKeeps DEF Producer
    <3> QED
      BY <3>1 DEF InRing
  <2> QED
    BY <2>1, <2>2, <2>3
<1>4. wpc \in {"kernel", "retire", "advance"} => body'[ThisSlot] = body[ThisSlot]
  <2>1. wpc \in {"kernel", "retire", "advance"} => ThisSlot \in Slots /\ Occupied(ThisSlot)
    BY CurrentPacket, SlotInSlots DEF IInv, RingInv, TypeOK, ThisSlot
  <2>2. \A s \in Slots : Occupied(s) => body'[s] = body[s]
    BY ProducerKeeps, WriteBodyKeeps, PublishEffect DEF Producer
  <2> QED
    BY <2>1, <2>2
<1> QED
  BY <1>1, <1>2, <1>3, <1>4 DEF CompletionInv, CompletionSignalOf

\* The packet in hand stays retired when its slot is given back.
LEMMA AdvanceCompletion ==
  ASSUME IInv, HistInv, CompletionInv, AdvanceReadIndex
  PROVE  CompletionInv'
<1>1. /\ wpc = "advance" /\ wpc' = "complete"
      /\ UNCHANGED <<content, header, body, launched, CompletionSignal>>
  BY DEF AdvanceReadIndex, taken
<1>2. /\ Occupied(ThisSlot) /\ header[ThisSlot] = "INVALID" /\ Launched(body[ThisSlot])
      /\ CompletionSignal = CompletionSignalOf(body[ThisSlot])
  BY <1>1 DEF IInv, RingInv, HistInv, CompletionInv
<1>3. body[ThisSlot] \in Indices /\ ~ InRing(body[ThisSlot])
  BY <1>2 DEF Occupied, InRing
<1> QED
  BY <1>1, <1>2, <1>3 DEF CompletionInv, CompletionSignalOf, Launched, InRing

\* Every step preserves CompletionInv.
LEMMA NextCompletion == IInv /\ HistInv /\ CompletionInv /\ [Next]_vars => CompletionInv'
<1> SUFFICES ASSUME IInv, HistInv, CompletionInv, [Next]_vars PROVE CompletionInv'
  OBVIOUS
<1> USE DEF procVars, book, cursor, taken, ringVars
<1>1. CASE FetchKernel
  BY <1>1 DEF FetchKernel, CompletionInv, ThisSlot, CompletionSignalOf
<1>2. CASE PassBarrier
  BY <1>2 DEF PassBarrier, CompletionInv, ThisSlot, CompletionSignalOf
<1>3. CASE RunKernel \/ Retire
  BY <1>3 DEF RunKernel, Retire, CompletionInv, ThisSlot, CompletionSignalOf
<1>4. CASE \/ CheckDoorBell \/ LoadIndices \/ EndScan \/ SkipInvalid \/ FetchBarrier
           \/ FetchUnsupported \/ LoadDep \/ StopAtBarrier \/ Complete
  <2>1. wpc' \notin {"kernel", "retire", "advance", "complete"}
    BY <1>4 DEF CheckDoorBell, LoadIndices, EndScan, SkipInvalid, FetchBarrier,
       FetchUnsupported, LoadDep, StopAtBarrier, Complete, InScan
  <2> QED
    BY <2>1 DEF CompletionInv
<1>5. ASSUME Processor PROVE CompletionInv'
  BY <1>1, <1>2, <1>3, <1>4, <1>5, AdvanceCompletion DEF Processor
<1>6. ASSUME UNCHANGED vars \/ \E h \in HostSignals : HostStore(h) PROVE CompletionInv'
  <2>1. UNCHANGED <<content, ringVars, procVars>>
    BY <1>6 DEF HostStore, vars
  <2> QED
    BY <2>1 DEF CompletionInv, ThisSlot, CompletionSignalOf, Launched, InRing
<1> QED
  BY <1>5, <1>6, ProducerCompletion DEF Next, Stopped

----------------------------------------------------------------------------
(* The mapping.                                                            *)

Stage == [i \in Indices |-> StageOf(i)]
Signalled == {s \in Signals : sig[s] = 0}

\* Nothing happens to the packet queue.
LEMMA Stutter ==
  ASSUME Stage' = Stage, UNCHANGED <<content, read_index, sig>>
  PROVE  UNCHANGED Abstract!vars
BY DEF Abstract!vars, Stage

\* A packet that stays where it is stays in its stage.
LEMMA StageStays ==
  ASSUME NEW i \in Indices,
         i < write_index' <=> i < write_index, write_index \in Int, write_index' \in Int,
         Launched(i)' <=> Launched(i), InRing(i)' <=> InRing(i)
  PROVE  StageOf(i)' = StageOf(i)
BY QueueAssumption DEF StageOf, Indices

\* An empty ring is an empty packet queue.
LEMMA AbstractInit == Init => Abstract!Init
<1> SUFFICES ASSUME Init PROVE Abstract!Init
  OBVIOUS
<1>1. \A i \in Indices : StageOf(i) = "unclaimed"
  BY QueueAssumption DEF Init, StageOf, Indices
<1>2. \A s \in Signals : sig[s] # 0
  BY DEF Init
<1> QED
  BY <1>1, <1>2 DEF Init, Abstract!Init, Indices, Abstract!Indices

\* One packet goes from one stage to another.
LEMMA OneMoves ==
  ASSUME NEW i \in Indices, NEW from, NEW to,
         StageOf(i) = from, StageOf(i)' = to,
         \A j \in Indices : j # i => StageOf(j)' = StageOf(j)
  PROVE  Abstract!Move(i, from, to)
BY DEF Abstract!Move

\* No packet goes from one stage to another.
LEMMA NoneMoves ==
  ASSUME write_index \in Int, write_index' = write_index,
         \A i \in Indices : (Launched(i)' <=> Launched(i)) /\ (InRing(i)' <=> InRing(i))
  PROVE  Stage' = Stage
<1>1. \A i \in Indices : StageOf(i)' = StageOf(i)
  BY StageStays
<1> QED
  BY <1>1 DEF Stage

----------------------------------------------------------------------------
(* The producers' steps.                                                   *)

\* A producer that moves the write index claims the packets it moves it past.
LEMMA ClaimRefines ==
  ASSUME RInv, NEW n \in Batches, write_index + n <= MaxIndex,
         write_index' = write_index + n,
         UNCHANGED <<content, read_index, header, body, sig, procVars>>
  PROVE  Abstract!Next
<1>0. /\ n \in 1 .. Size /\ write_index \in Indices /\ write_index \in Nat /\ n \in Nat
      /\ write_index' \in Nat
  BY QueueAssumption DEF RInv, IInv, TypeOK, Indices
<1>1. \A i : (Launched(i)' <=> Launched(i)) /\ (InRing(i)' <=> InRing(i))
  BY DEF procVars, taken, Launched, InRing
<1>2. ASSUME NEW i \in Indices
      PROVE  StageOf(i) = "unclaimed" <=> i >= write_index
  BY <1>0, <1>2 DEF StageOf, Indices
<1>3. ASSUME NEW i \in Indices, i \in write_index .. write_index + n - 1
      PROVE  StageOf(i)' = "claimed"
  <2>1. ~ Published(i)
    BY <1>0, <1>3 DEF Published
  <2>2. ~ Launched(i) /\ ~ InRing(i)
    BY <2>1, RingWindow DEF RInv, HistInv
  <2>3. ~ (i >= write_index')
    BY <1>0, <1>3
  <2> QED
    BY <1>1, <2>2, <2>3 DEF StageOf
<1>4. ASSUME NEW i \in Indices, i \notin write_index .. write_index + n - 1
      PROVE  StageOf(i)' = StageOf(i)
  <2>1. i < write_index' <=> i < write_index
    BY <1>0, <1>4, QueueAssumption DEF Indices
  <2> QED
    BY <1>0, <1>1, <2>1, StageStays
<1>5. Stage' = [i \in Indices |->
                  IF i \in write_index .. write_index + n - 1 THEN "claimed" ELSE Stage[i]]
  BY <1>3, <1>4 DEF Stage
<1>6. Abstract!Claim(n)
  BY <1>0, <1>2, <1>5 DEF Abstract!Claim, Indices, Abstract!Indices, Stage
<1> QED
  BY <1>0, <1>6 DEF Abstract!Next

\* Writing the header hands one packet over.
LEMMA PublishRefines ==
  ASSUME RInv, NEW p \in Producers, Publish(p)
  PROVE  Abstract!Next
<1>0. PICK i \in Indices : i = next[p]
  BY PublishEffect DEF RInv
<1>1. /\ InWindow(i) /\ ~ Published(i) /\ ~ InRing(i)
      /\ \A j \in Indices : InRing(j)' <=> InRing(j) \/ j = i
      /\ UNCHANGED <<content, write_index, read_index, sig, procVars>>
  BY <1>0, PublishEffect DEF RInv
<1>2. \A j : Launched(j)' <=> Launched(j)
  BY <1>1 DEF procVars, taken, Launched
<1>3. i < write_index /\ write_index \in Int
  BY <1>0, QueueAssumption DEF Publish, RInv, IInv, ClaimInv, Claiming, TypeOK
<1>4. ~ Launched(i)
  BY <1>1 DEF RInv, HistInv
<1>5. StageOf(i) = "claimed" /\ StageOf(i)' = "published"
  BY <1>1, <1>2, <1>3, <1>4, QueueAssumption DEF StageOf, Indices
<1>6. \A j \in Indices : j # i => StageOf(j)' = StageOf(j)
  BY <1>1, <1>2, <1>3, StageStays
<1>7. Abstract!Publish(i)
  BY <1>1, <1>5, <1>6, OneMoves DEF Abstract!Publish, InWindow
<1> QED
  BY <1>1, <1>7 DEF Abstract!Next, Indices, Abstract!Indices

\* The other steps of a producer do not show.
LEMMA ProducerRefines ==
  ASSUME RInv, NEW p \in Producers, Producer(p)
  PROVE  [Abstract!Next]_(Abstract!vars)
<1> USE DEF RInv
<1>0. write_index \in Int
  BY QueueAssumption DEF IInv, TypeOK
<1>1. ASSUME NEW n \in Batches, write_index + n <= MaxIndex, Claims(p, write_index, n),
             UNCHANGED <<content, read_index, header, body, sig, procVars>>
      PROVE  Abstract!Next
  BY <1>1, ClaimRefines DEF Claims
<1>2. ASSUME UNCHANGED <<content, write_index, read_index, header, body, sig, procVars>>
      PROVE  UNCHANGED Abstract!vars
  <2>1. \A i : (Launched(i)' <=> Launched(i)) /\ (InRing(i)' <=> InRing(i))
    BY <1>2 DEF procVars, taken, Launched, InRing
  <2> QED
    BY <1>0, <1>2, <2>1, NoneMoves, Stutter
<1>3. CASE AddWriteIndex(p)
  BY <1>1, <1>3 DEF AddWriteIndex
<1>4. CASE StoreWriteIndex(p)
  <2>1. next[p] = write_index
    BY <1>4 DEF StoreWriteIndex, IInv, ClaimInv
  <2> QED
    BY <1>1, <1>4, <2>1 DEF StoreWriteIndex
<1>5. CASE CompareExchangeWriteIndex(p)
  BY <1>1, <1>2, <1>5 DEF CompareExchangeWriteIndex
<1>6. CASE LoadWriteIndex(p) \/ WaitForSpace(p) \/ RingDoorbell(p)
  BY <1>2, <1>6 DEF LoadWriteIndex, WaitForSpace, RingDoorbell, ringVars
<1>7. CASE WriteBody(p)
  <2>1. /\ \A i \in Indices : InRing(i)' <=> InRing(i)
        /\ UNCHANGED <<content, write_index, read_index, sig, procVars>>
    BY <1>7, WriteBodyKeeps DEF WriteBody
  <2>2. \A i : Launched(i)' <=> Launched(i)
    BY <2>1 DEF procVars, taken, Launched
  <2> QED
    BY <1>0, <2>1, <2>2, NoneMoves, Stutter
<1> QED
  BY <1>3, <1>4, <1>5, <1>6, <1>7, PublishRefines DEF Producer

----------------------------------------------------------------------------
(* The processor's steps.                                                  *)

\* The condition of a barrier packet is the abstract one.
LEMMA SatisfiedMayLaunch ==
  ASSUME IInv, NEW i \in Indices, Satisfied(i)
  PROVE  Abstract!MayLaunch(i)
<1> DEFINE D == {content[i].deps[k] : k \in 1 .. NumDeps} \ {NULL}
<1>1. D \subseteq Signals
  BY DepsType
<1>2. content[i].type = "BARRIER_AND" => \A d \in D : sig[d] = 0
  BY DEF Satisfied
<1>3. content[i].type = "BARRIER_OR" => \E d \in D : sig[d] = 0
  BY DEF Satisfied
<1> HIDE DEF D
<1>4. /\ content[i].type = "BARRIER_AND" => D \subseteq Signalled
      /\ content[i].type = "BARRIER_OR" => D \cap Signalled # {}
  BY <1>1, <1>2, <1>3 DEF Signalled
<1> QED
  BY <1>4 DEF D, Signalled, Abstract!MayLaunch

\* A packet is launched when its barrier allows it.
LEMMA LaunchRefines ==
  ASSUME RInv, PassBarrier \/ RunKernel
  PROVE  Abstract!Next
<1> USE DEF RInv
<1>0. PICK b \in Indices : b = body[ThisSlot]
  BY LaunchEffect
<1>1. /\ InRing(b) /\ Published(b) /\ ~ Launched(b)
      /\ \A j \in Indices : Launched(j)' <=> Launched(j) \/ j = b
      /\ UNCHANGED <<content, ringVars, sig>>
  BY <1>0, LaunchEffect
<1>2. \A j : InRing(j)' <=> InRing(j)
  BY <1>1 DEF ringVars, InRing
<1>3. b < write_index /\ write_index \in Int /\ write_index' = write_index
  BY <1>1, QueueAssumption DEF Published, IInv, TypeOK, ringVars
<1>4. StageOf(b) = "published" /\ StageOf(b)' = "launched"
  BY <1>1, <1>2, <1>3, QueueAssumption DEF StageOf, Indices
<1>5. \A j \in Indices : j # b => StageOf(j)' = StageOf(j)
  BY <1>1, <1>2, <1>3, StageStays
<1>6. Satisfied(b)
  <2>1. Satisfied(b)'
    BY <1>1, LaunchBarrier DEF BarrierInv, BarrierRespected
  <2> QED
    BY <1>1, <2>1 DEF Satisfied
<1>7. Abstract!Launch(b)
  BY <1>1, <1>4, <1>5, <1>6, OneMoves, SatisfiedMayLaunch DEF Abstract!Launch, ringVars
<1> QED
  BY <1>7 DEF Abstract!Next, Indices, Abstract!Indices

\* Resetting the header retires the packet that was launched.
LEMMA RetireRefines ==
  ASSUME RInv, Retire
  PROVE  Abstract!Next
<1> USE DEF RInv
<1>0. PICK b \in Indices : b = body[ThisSlot]
  BY RetireEffect
<1>1. /\ InRing(b) /\ \A j \in Indices : InRing(j)' <=> InRing(j) /\ j # b
      /\ UNCHANGED <<content, write_index, read_index, sig, launched>>
  BY <1>0, RetireEffect
<1>2. \A j : Launched(j)' <=> Launched(j)
  BY <1>1 DEF Launched
<1>3. Launched(b) /\ b < write_index /\ write_index \in Int
  BY <1>0, QueueAssumption DEF Retire, HistInv, Published, IInv, TypeOK
<1>4. StageOf(b) = "launched" /\ StageOf(b)' = "retired"
  BY <1>1, <1>2, <1>3, QueueAssumption DEF StageOf, Indices
<1>5. \A j \in Indices : j # b => StageOf(j)' = StageOf(j)
  BY <1>1, <1>2, <1>3, StageStays
<1>6. Abstract!Retire(b)
  BY <1>1, <1>4, <1>5, OneMoves DEF Abstract!Retire
<1> QED
  BY <1>6 DEF Abstract!Next, Indices, Abstract!Indices

\* The read index moves past one retired packet, or stays.
LEMMA FreeRefines ==
  ASSUME RInv, SkipInvalid \/ AdvanceReadIndex
  PROVE  [Abstract!Next]_(Abstract!vars)
<1> USE DEF RInv
<1>1. /\ UNCHANGED <<content, header, body, write_index, sig, launched>>
      /\ \/ read_index' = read_index
         \/ /\ read_index' = read_index + 1
            /\ read_index \in Indices /\ Launched(read_index) /\ ~ InRing(read_index)
  BY FreeEffect
<1>2. \A j : (Launched(j)' <=> Launched(j)) /\ (InRing(j)' <=> InRing(j))
  BY <1>1 DEF Launched, InRing
<1>3. Stage' = Stage
  BY <1>1, <1>2, NoneMoves, QueueAssumption DEF IInv, TypeOK
<1>4. CASE read_index' = read_index
  BY <1>1, <1>3, <1>4, Stutter
<1>5. CASE /\ read_index' = read_index + 1
           /\ read_index \in Indices /\ Launched(read_index) /\ ~ InRing(read_index)
  <2>1. read_index < write_index /\ read_index < MaxIndex /\ read_index \in Int /\ write_index \in Int
    BY <1>5, QueueAssumption DEF HistInv, Published, IInv, TypeOK, Indices
  <2>2. StageOf(read_index) = "retired"
    BY <1>5, <2>1 DEF StageOf
  <2>3. Stage[read_index] = "retired"
    BY <1>5, <2>2 DEF Stage
  <2>4. Abstract!Free
    BY <1>1, <1>3, <1>5, <2>1, <2>3 DEF Abstract!Free, Stage
  <2> QED
    BY <2>4 DEF Abstract!Next
<1> QED
  BY <1>1, <1>4, <1>5

\* One signal becomes 0.
LEMMA OneSignalled ==
  ASSUME TypeOK, NEW s \in Signals, sig' = [sig EXCEPT ![s] = 0]
  PROVE  Signalled' = Signalled \cup {s}
BY DEF TypeOK, Signalled

\* The completion signal is that of a retired packet.
LEMMA CompleteRefines ==
  ASSUME RInv, Complete
  PROVE  [Abstract!Next]_(Abstract!vars)
<1> USE DEF RInv
<1>1. UNCHANGED <<content, ringVars, launched>>
  BY DEF Complete, taken
<1>2. \A j : (Launched(j)' <=> Launched(j)) /\ (InRing(j)' <=> InRing(j))
  BY <1>1 DEF Launched, InRing, ringVars
<1>3. Stage' = Stage
  BY <1>1, <1>2, NoneMoves, QueueAssumption DEF IInv, TypeOK, ringVars
<1>4. CASE CompletionSignal = NULL
  BY <1>1, <1>3, <1>4, Stutter DEF Complete, ringVars
<1>5. CASE CompletionSignal # NULL
  <2>0. PICK i \in Indices : i = CompletionSignal
    BY <1>5 DEF Complete, CompletionInv
  <2>1. content[i].completion /\ Launched(i) /\ ~ InRing(i)
    BY <1>5, <2>0 DEF Complete, CompletionInv
  <2>2. i < write_index /\ write_index \in Int
    BY <2>1, QueueAssumption DEF HistInv, Published, IInv, TypeOK
  <2>3. StageOf(i) = "retired"
    BY <2>1, <2>2, QueueAssumption DEF StageOf, Indices
  <2>4. Signalled' = Signalled \cup {i}
    BY <1>5, <2>0, OneSignalled DEF Complete, IInv, Signals
  <2>5. Abstract!Signal(i)
    BY <1>1, <1>3, <2>1, <2>3, <2>4 DEF Abstract!Signal, Stage, Signalled, ringVars
  <2> QED
    BY <2>5 DEF Abstract!Next, Indices, Abstract!Indices
<1> QED
  BY <1>4, <1>5

\* The processor's other steps do not show.
LEMMA ProcessorRefines ==
  ASSUME RInv, Processor
  PROVE  [Abstract!Next]_(Abstract!vars)
<1> USE DEF RInv
<1>1. CASE \/ CheckDoorBell \/ LoadIndices \/ EndScan \/ FetchBarrier \/ FetchKernel
           \/ FetchUnsupported \/ LoadDep \/ StopAtBarrier
  <2>1. UNCHANGED <<content, ringVars, sig, launched>>
    BY <1>1 DEF CheckDoorBell, LoadIndices, EndScan, FetchBarrier, FetchKernel,
       FetchUnsupported, LoadDep, StopAtBarrier, taken
  <2>2. \A j : (Launched(j)' <=> Launched(j)) /\ (InRing(j)' <=> InRing(j))
    BY <2>1 DEF Launched, InRing, ringVars
  <2>3. Stage' = Stage
    BY <2>1, <2>2, NoneMoves, QueueAssumption DEF IInv, TypeOK, ringVars
  <2> QED
    BY <2>1, <2>3, Stutter DEF ringVars
<1> QED
  BY <1>1, LaunchRefines, RetireRefines, FreeRefines, CompleteRefines DEF Processor

----------------------------------------------------------------------------
\* A host thread's store is seen as it is; a step that changes nothing of the
\* queue changes nothing of the packet queue.
LEMMA NextRefines == RInv /\ [Next]_vars => [Abstract!Next]_(Abstract!vars)
<1> SUFFICES ASSUME RInv, [Next]_vars PROVE [Abstract!Next]_(Abstract!vars)
  OBVIOUS
<1> USE DEF RInv
<1>1. ASSUME UNCHANGED <<content, ringVars, procVars>> PROVE Stage' = Stage
  <2>1. \A j : (Launched(j)' <=> Launched(j)) /\ (InRing(j)' <=> InRing(j))
    BY <1>1 DEF Launched, InRing, ringVars, procVars, taken
  <2> QED
    BY <1>1, <2>1, NoneMoves, QueueAssumption DEF IInv, TypeOK, ringVars
<1>2. ASSUME NEW h \in HostSignals, HostStore(h) PROVE Abstract!Next
  <2>1. /\ UNCHANGED <<content, ringVars, procVars>>
        /\ sig' = [sig EXCEPT ![h] = 0]
    BY <1>2 DEF HostStore
  <2>2. Signalled' = Signalled \cup {h}
    BY <2>1, OneSignalled DEF IInv, Signals
  <2>3. Abstract!HostSignal(h)
    BY <1>1, <2>1, <2>2 DEF Abstract!HostSignal, Stage, Signalled, ringVars
  <2> QED
    BY <2>3 DEF Abstract!Next
<1>3. CASE UNCHANGED vars
  BY <1>1, <1>3, Stutter DEF vars, ringVars
<1> QED
  BY <1>2, <1>3, ProducerRefines, ProcessorRefines DEF Next, Stopped

\* The user mode queue implements PacketQueue: with any number of producers,
\* any ring size and any packets, the index operations of hsa_queue.cc and
\* the loop of CPUKernelAgent::Execute hand every packet over once and into a
\* free place, launch it once and when its barrier allows it, free the places
\* in order and set the completion signals of retired packets only.
THEOREM Refines == Spec => ImplementsPacketQueue
<1>1. Init => BarrierInv
  BY DEF Init, BarrierInv, BarrierRespected, Launched
<1>2. Init => CompletionInv
  BY DEF Init, CompletionInv
<1>3. RInv /\ [Next]_vars => RInv'
  BY NextIInv, NextHist, NextBarrier, NextCompletion DEF RInv
<1>4. Init => RInv
  BY <1>1, <1>2, InitIInv, InitHist DEF RInv
<1> QED
  BY <1>3, <1>4, AbstractInit, NextRefines, PTL
     DEF Spec, ImplementsPacketQueue, Abstract!Spec
============================================================================
