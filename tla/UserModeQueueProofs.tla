------------------------ MODULE UserModeQueueProofs ------------------------
(***************************************************************************)
(* Proofs about UserModeQueue, for every ring size, every number of        *)
(* producers and of packets, and every content of the packets.             *)
(***************************************************************************)
EXTENDS UserModeQueue, TLAPS

----------------------------------------------------------------------------
(* The inductive invariant.                                                *)

\* Packet i is one of the Size packets the ring may hold now.
InWindow(i) == read_index <= i /\ i < read_index + Size

\* Slot s holds the body of a published packet that is not freed yet.
Occupied(s) ==
  /\ body[s] \in Indices /\ Slot(body[s]) = s
  /\ InWindow(body[s]) /\ Published(body[s])

Claiming(p) == ppc[p] \in {"wait", "write", "publish"}

\* The processor's indices against the shared ones.
CursorInv ==
  /\ read_index <= write_index
  /\ CurrentWriteIndex <= write_index
  /\ wpc \in {"scan", "deps", "kernel", "retire", "advance", "complete"} =>
       CurrentReadIndex = read_index
  /\ wpc = "scan" => CurrentIndex <= CurrentWriteIndex
  /\ wpc \in {"deps", "kernel", "retire", "advance", "complete"} =>
       CurrentIndex < CurrentWriteIndex
  /\ wpc \in {"scan", "deps", "kernel", "retire", "advance"} =>
       CurrentReadIndex <= CurrentIndex
  /\ wpc = "complete" => CurrentReadIndex <= CurrentIndex + 1

\* The claims of the producers are disjoint and none is freed.
ClaimInv ==
  /\ \A p \in Producers : Claiming(p) =>
       read_index <= next[p] /\ next[p] <= last[p] /\ last[p] < write_index
  /\ \A p \in Producers : ppc[p] = "ring" => last[p] < write_index
  /\ \A p \in Producers : ppc[p] \in {"write", "publish"} => next[p] < read_index + Size
  /\ \A p \in Producers : ppc[p] = "loaded" =>
       next[p] <= write_index /\ (ClaimBy[p] = "store" => next[p] = write_index)
  /\ \A p, q \in Producers :
       p # q /\ Claiming(p) /\ Claiming(q) => last[p] < next[q] \/ last[q] < next[p]
  /\ \A p \in Producers : ppc[p] = "publish" => body[Slot(next[p])] = next[p]

\* A slot whose header is set, or that is marked as processed, or that the
\* processor has just retired, belongs to a published packet of the window.
RingInv ==
  /\ \A s \in Slots : header[s] # "INVALID" =>
       Occupied(s) /\ header[s] = content[body[s]].type
  /\ \A s \in Slots : PacketIsProcessed[s] => Occupied(s) /\ header[s] = "INVALID"
  /\ wpc \in {"deps", "kernel", "retire"} => header[ThisSlot] # "INVALID"
  /\ wpc = "deps" => header[ThisSlot] \in BarrierTypes
  /\ wpc = "kernel" => header[ThisSlot] = "KERNEL_DISPATCH"
  /\ wpc = "advance" => Occupied(ThisSlot) /\ header[ThisSlot] = "INVALID"

IInv == TypeOK /\ CursorInv /\ ClaimInv /\ RingInv

----------------------------------------------------------------------------
(* Arithmetic of the ring.                                                 *)

\* Quotient and remainder.
LEMMA DivMod ==
  ASSUME NEW i \in Nat, NEW n \in Nat \ {0}
  PROVE  i = n * (i \div n) + (i % n) /\ i \div n \in Nat /\ i % n \in 0 .. n - 1
OBVIOUS

\* Multiples of n are n apart.
LEMMA Multiples ==
  ASSUME NEW n \in Nat \ {0}, NEW j \in Nat, NEW k \in Nat, j < k
  PROVE  n * k >= n * j + n
OBVIOUS

\* Every packet has a slot.
LEMMA SlotInSlots == \A i \in Nat : Slot(i) \in Slots
BY DivMod, QueueAssumption DEF Slot, Slots

\* Two packets less than a lap apart in the same slot are the same packet.
LEMMA SameSlot ==
  ASSUME NEW i \in Nat, NEW j \in Nat,
         Slot(i) = Slot(j), i < j + Size, j < i + Size
  PROVE  i = j
<1> DEFINE a == i \div Size
           b == j \div Size
<1>1. Size \in Nat \ {0} /\ i % Size = j % Size
  BY QueueAssumption DEF Slot
<1>2. a \in Nat /\ b \in Nat /\ i = Size * a + (i % Size) /\ j = Size * b + (j % Size)
  BY <1>1, DivMod
<1>3. i - j = Size * a - Size * b /\ Size * a \in Nat /\ Size * b \in Nat
  BY <1>1, <1>2
<1> HIDE DEF a, b
<1>4. ~ (a > b) /\ ~ (b > a)
  BY <1>1, <1>2, <1>3, Multiples
<1> QED
  BY <1>1, <1>2, <1>3, <1>4

----------------------------------------------------------------------------
(* Initial states.                                                         *)

\* A queue that was just created satisfies the invariant.
LEMMA InitIInv == Init => IInv
<1> SUFFICES ASSUME Init PROVE IInv
  OBVIOUS
<1> USE QueueAssumption
<1>1. TypeOK
  BY DEF Init, TypeOK, Indices, SignalMax, Slots
<1>2. CursorInv /\ ClaimInv
  BY <1>1 DEF Init, CursorInv, ClaimInv, Claiming, TypeOK
<1>3. RingInv
  BY <1>1 DEF Init, RingInv, TypeOK
<1> QED
  BY <1>1, <1>2, <1>3 DEF IInv

----------------------------------------------------------------------------
(* Steps of the packet processor.                                          *)

\* Noting the doorbell as handled touches neither ring nor cursor.
LEMMA CheckDoorBellStep ==
  ASSUME IInv, CheckDoorBell
  PROVE  IInv'
<1> USE QueueAssumption DEF IInv, CheckDoorBell, ringVars, procVars, prodVars, book, cursor, taken
<1>1. TypeOK'
  BY DEF TypeOK, Indices, Slots, SignalMax
<1>2. CursorInv'
  BY DEF TypeOK, CursorInv, Indices, InScan
<1>3. ClaimInv'
  BY DEF TypeOK, ClaimInv, Claiming, Indices
<1>4. RingInv'
  BY DEF TypeOK, RingInv, Occupied, InWindow, Published, Pending, ThisSlot, Indices
<1> QED
  BY <1>1, <1>2, <1>3, <1>4

\* Loading the indices starts a scan at the read index, below the write index.
LEMMA LoadIndicesStep ==
  ASSUME IInv, LoadIndices
  PROVE  IInv'
<1> USE QueueAssumption DEF IInv, LoadIndices, ringVars, procVars, prodVars, book, cursor, taken
<1>1. TypeOK'
  BY DEF TypeOK, Indices, Slots, SignalMax, PacketsToCheck
<1>2. CursorInv'
  BY DEF TypeOK, CursorInv, Indices, InScan
<1>3. ClaimInv'
  BY DEF TypeOK, ClaimInv, Claiming, Indices
<1>4. RingInv'
  BY DEF TypeOK, RingInv, Occupied, InWindow, Published, Pending, ThisSlot, Indices
<1> QED
  BY <1>1, <1>2, <1>3, <1>4

\* The end of a scan changes only where the processor is.
LEMMA EndScanStep ==
  ASSUME IInv, EndScan
  PROVE  IInv'
<1> USE QueueAssumption DEF IInv, EndScan, ringVars, procVars, prodVars, book, cursor, taken
<1>1. TypeOK'
  BY DEF TypeOK, Indices, Slots, SignalMax
<1>2. CursorInv'
  BY DEF TypeOK, CursorInv, Indices, InScan
<1>3. ClaimInv'
  BY DEF TypeOK, ClaimInv, Claiming, Indices
<1>4. RingInv'
  BY DEF TypeOK, RingInv, Occupied, InWindow, Published, Pending, ThisSlot, Indices
<1> QED
  BY <1>1, <1>2, <1>3, <1>4

\* Fetching a barrier packet: its header is set, so its slot is occupied.
LEMMA FetchBarrierStep ==
  ASSUME IInv, FetchBarrier
  PROVE  IInv'
<1> USE QueueAssumption DEF IInv, FetchBarrier, ringVars, procVars, prodVars, book, cursor, taken
<1>0. ThisSlot \in Slots
  BY SlotInSlots DEF TypeOK, ThisSlot
<1>1. TypeOK'
  BY DEF TypeOK, Indices, Slots, SignalMax
<1>2. CursorInv'
  BY DEF TypeOK, CursorInv, Indices, InScan
<1>3. ClaimInv'
  BY DEF TypeOK, ClaimInv, Claiming, Indices
<1>4. RingInv'
  BY <1>0 DEF TypeOK, RingInv, Occupied, InWindow, Published, Pending, ThisSlot, Indices, InScan, BarrierTypes
<1> QED
  BY <1>1, <1>2, <1>3, <1>4

\* Fetching a kernel dispatch packet: its body names it, so that its
\* completion signal is a signal.
LEMMA FetchKernelStep ==
  ASSUME IInv, FetchKernel
  PROVE  IInv'
<1> USE QueueAssumption DEF IInv, FetchKernel, ringVars, procVars, prodVars, book, cursor, taken
<1>0. ThisSlot \in Slots
  BY SlotInSlots DEF TypeOK, ThisSlot
<1>1. TypeOK'
  BY <1>0 DEF TypeOK, Indices, Slots, SignalMax, CompletionSignalOf, RingInv, Occupied, InScan
<1>2. CursorInv'
  BY DEF TypeOK, CursorInv, Indices, InScan
<1>3. ClaimInv'
  BY DEF TypeOK, ClaimInv, Claiming, Indices
<1>4. RingInv'
  BY <1>0 DEF TypeOK, RingInv, Occupied, InWindow, Published, Pending, ThisSlot, Indices, InScan
<1> QED
  BY <1>1, <1>2, <1>3, <1>4

\* An unsupported packet type stops everything.
LEMMA FetchUnsupportedStep ==
  ASSUME IInv, FetchUnsupported
  PROVE  IInv'
<1> USE QueueAssumption DEF IInv, FetchUnsupported, ringVars, procVars, prodVars, book, cursor, taken
<1>0. ThisSlot \in Slots
  BY SlotInSlots DEF TypeOK, ThisSlot
<1>1. TypeOK'
  BY DEF TypeOK, Indices, Slots, SignalMax
<1>2. CursorInv'
  BY DEF TypeOK, CursorInv, Indices, InScan
<1>3. ClaimInv'
  BY DEF TypeOK, ClaimInv, Claiming, Indices
<1>4. RingInv'
  BY <1>0 DEF TypeOK, RingInv, Occupied, InWindow, Published, Pending, ThisSlot, Indices, InScan
<1> QED
  BY <1>1, <1>2, <1>3, <1>4

\* Loading a dep_signal stays within the array.
LEMMA LoadDepStep ==
  ASSUME IInv, LoadDep
  PROVE  IInv'
<1> USE QueueAssumption DEF IInv, LoadDep, ringVars, procVars, prodVars, book, cursor, taken
<1>1. TypeOK'
  BY DEF TypeOK, Indices, Slots, SignalMax, DepsLeft
<1>2. CursorInv'
  BY DEF TypeOK, CursorInv, Indices, InScan
<1>3. ClaimInv'
  BY DEF TypeOK, ClaimInv, Claiming, Indices
<1>4. RingInv'
  BY DEF TypeOK, RingInv, Occupied, InWindow, Published, Pending, ThisSlot, Indices
<1> QED
  BY <1>1, <1>2, <1>3, <1>4

\* A barrier that passes is launched under an index below the write index.
LEMMA PassBarrierStep ==
  ASSUME IInv, PassBarrier
  PROVE  IInv'
<1> USE QueueAssumption DEF IInv, PassBarrier, ringVars, procVars, prodVars, book, cursor, taken
<1>0. ThisSlot \in Slots
  BY SlotInSlots DEF TypeOK, ThisSlot
<1>5. body[ThisSlot] \in Indices /\ CurrentIndex \in Indices
  BY <1>0 DEF TypeOK, RingInv, CursorInv, Occupied, Indices
<1>1. TypeOK'
  BY <1>0, <1>5 DEF TypeOK, Launch, CompletionSignalOf
<1>2. CursorInv'
  BY DEF TypeOK, CursorInv, Indices, InScan
<1>3. ClaimInv'
  BY DEF TypeOK, ClaimInv, Claiming, Indices
<1>4. RingInv'
  BY <1>0 DEF TypeOK, RingInv, Occupied, InWindow, Published, Pending, ThisSlot, Indices
<1> QED
  BY <1>1, <1>2, <1>3, <1>4

\* A kernel that runs is launched under an index below the write index.
LEMMA RunKernelStep ==
  ASSUME IInv, RunKernel
  PROVE  IInv'
<1> USE QueueAssumption DEF IInv, RunKernel, ringVars, procVars, prodVars, book, cursor, taken
<1>0. ThisSlot \in Slots
  BY SlotInSlots DEF TypeOK, ThisSlot
<1>5. body[ThisSlot] \in Indices /\ CurrentIndex \in Indices
  BY <1>0 DEF TypeOK, RingInv, CursorInv, Occupied, Indices
<1>6. content \in [Indices -> Packet]
  BY DEF TypeOK
<1>7. ThisPacket.fault \in Faults
  BY <1>5, <1>6 DEF ThisPacket, Packet
<1>1. TypeOK'
  BY <1>0, <1>5, <1>7 DEF TypeOK, Launch
<1>2. CursorInv'
  BY DEF TypeOK, CursorInv, Indices, InScan
<1>3. ClaimInv'
  BY DEF TypeOK, ClaimInv, Claiming, Indices
<1>4. RingInv'
  BY <1>0 DEF TypeOK, RingInv, Occupied, InWindow, Published, Pending, ThisSlot, Indices
<1> QED
  BY <1>1, <1>2, <1>3, <1>4

\* An unsatisfied barrier leaves the ring as it is.
LEMMA StopAtBarrierStep ==
  ASSUME IInv, StopAtBarrier
  PROVE  IInv'
<1> USE QueueAssumption DEF IInv, StopAtBarrier, ringVars, procVars, prodVars, book, cursor, taken
<1>1. TypeOK'
  BY DEF TypeOK, Indices, Slots, SignalMax
<1>2. CursorInv'
  BY DEF TypeOK, CursorInv, Indices, InScan
<1>3. ClaimInv'
  BY DEF TypeOK, ClaimInv, Claiming, Indices
<1>4. RingInv'
  BY DEF TypeOK, RingInv, Occupied, InWindow, Published, Pending, ThisSlot, Indices
<1> QED
  BY <1>1, <1>2, <1>3, <1>4

\* Resetting the header leaves the slot occupied until the read index moves.
LEMMA RetireStep ==
  ASSUME IInv, Retire
  PROVE  IInv'
<1> USE QueueAssumption DEF IInv, Retire, ringVars, procVars, prodVars, book, cursor, taken
<1>0. ThisSlot \in Slots
  BY SlotInSlots DEF TypeOK, ThisSlot
<1>1. TypeOK'
  BY <1>0 DEF TypeOK
<1>2. CursorInv'
  BY DEF TypeOK, CursorInv, Indices, InScan
<1>3. ClaimInv'
  BY DEF TypeOK, ClaimInv, Claiming, Indices
<1>4. RingInv'
  BY <1>0 DEF TypeOK, RingInv, Occupied, InWindow, Published, Pending, ThisSlot, Indices
<1> QED
  BY <1>1, <1>2, <1>3, <1>4

\* Setting the completion signal moves the scan one packet on.
LEMMA CompleteStep ==
  ASSUME IInv, Complete
  PROVE  IInv'
<1> USE QueueAssumption DEF IInv, Complete, ringVars, procVars, prodVars, book, cursor, taken
<1>0. ThisSlot \in Slots
  BY SlotInSlots DEF TypeOK, ThisSlot
<1>1. TypeOK'
  BY <1>0 DEF TypeOK, CursorInv, Signals, Indices
<1>2. CursorInv'
  BY DEF TypeOK, CursorInv, Indices, InScan
<1>3. ClaimInv'
  BY DEF TypeOK, ClaimInv, Claiming, Indices
<1>4. RingInv'
  BY DEF TypeOK, RingInv, Occupied, InWindow, Published, Pending, ThisSlot, Indices
<1> QED
  BY <1>1, <1>2, <1>3, <1>4

\* The processor frees the slot of the oldest packet: the window moves on, no
\* producer is left behind and no other slot changes.
LEMMA OldestFreed ==
  ASSUME IInv, wpc \in {"scan", "advance"}, IsOldest, FreeOldest,
         Occupied(ThisSlot), UNCHANGED <<write_index, body, prodVars>>
  PROVE  /\ body[ThisSlot] = read_index
         /\ ClaimInv'
         /\ \A s \in Slots \ {ThisSlot} : Occupied(s) => Occupied(s)'
<1> USE QueueAssumption DEF IInv, prodVars
<1>1. read_index \in Nat /\ CurrentIndex = read_index /\ read_index' = read_index + 1
  BY DEF TypeOK, CursorInv, IsOldest, FreeOldest
<1>2. body[ThisSlot] = read_index
  BY <1>1, SameSlot DEF Occupied, InWindow, ThisSlot, Indices
<1>3. \A p \in Producers : Claiming(p) => read_index < next[p]
  <2> SUFFICES ASSUME NEW p \in Producers, Claiming(p) PROVE read_index < next[p]
    OBVIOUS
  <2>1. read_index <= next[p] /\ next[p] <= last[p] /\ next[p] \in Int /\ last[p] \in Int
    BY DEF ClaimInv, TypeOK
  <2>2. ~ Pending(read_index)
    BY <1>2 DEF Occupied, Published
  <2>3. read_index \notin next[p] .. last[p]
    BY <2>2 DEF Pending, Claiming
  <2> QED
    BY <1>1, <2>1, <2>3
<1>4. ClaimInv'
  BY <1>1, <1>3 DEF ClaimInv, Claiming, TypeOK
<1>5. ASSUME NEW s \in Slots \ {ThisSlot}, Occupied(s)
      PROVE  Occupied(s)'
  <2>1. body[s] # read_index /\ body[s] \in Int
    BY <1>1, <1>5 DEF Occupied, ThisSlot, Indices
  <2>2. InWindow(body[s])'
    BY <1>1, <1>5, <2>1 DEF Occupied, InWindow
  <2> QED
    BY <1>5, <2>2 DEF Occupied, Published, Pending
<1> QED
  BY <1>2, <1>4, <1>5

\* An INVALID packet frees its slot only if an earlier scan processed it.
LEMMA SkipInvalidStep ==
  ASSUME IInv, SkipInvalid
  PROVE  IInv'
<1> USE QueueAssumption DEF IInv, SkipInvalid, InScan, prodVars, taken
<1>0. ThisSlot \in Slots
  BY SlotInSlots DEF TypeOK, ThisSlot
<1>9. PacketIsProcessed' \in [Slots -> BOOLEAN]
  BY <1>0 DEF TypeOK, FreeOldest
<1>1. TypeOK'
  BY <1>9 DEF TypeOK, CursorInv, FreeOldest
<1>2. CursorInv'
  BY DEF TypeOK, CursorInv, FreeOldest, Indices, IsOldest
<1>3. CASE PacketIsProcessed[ThisSlot] /\ IsOldest
  <2>1. ClaimInv' /\ \A s \in Slots \ {ThisSlot} : Occupied(s) => Occupied(s)'
    BY <1>0, <1>3, OldestFreed DEF RingInv
  <2>2. RingInv'
    BY <1>0, <1>3, <2>1 DEF RingInv, FreeOldest, TypeOK
  <2> QED
    BY <1>1, <1>2, <2>1, <2>2
<1>4. CASE ~ (PacketIsProcessed[ThisSlot] /\ IsOldest)
  <2>1. ClaimInv'
    BY <1>4 DEF ClaimInv, Claiming
  <2>2. RingInv'
    BY <1>4 DEF RingInv, Occupied, InWindow, Published, Pending
  <2> QED
    BY <1>1, <1>2, <2>1, <2>2
<1> QED
  BY <1>3, <1>4

\* The retired packet frees its slot if it is the oldest, else it is marked.
LEMMA AdvanceReadIndexStep ==
  ASSUME IInv, AdvanceReadIndex
  PROVE  IInv'
<1> USE QueueAssumption DEF IInv, AdvanceReadIndex, prodVars, taken
<1>0. ThisSlot \in Slots
  BY SlotInSlots DEF TypeOK, ThisSlot
<1>9. PacketIsProcessed' \in [Slots -> BOOLEAN]
  BY <1>0 DEF TypeOK, FreeOldest
<1>1. TypeOK'
  BY <1>9 DEF TypeOK, CursorInv, FreeOldest
<1>2. CursorInv'
  BY DEF TypeOK, CursorInv, FreeOldest, Indices, IsOldest
<1>3. CASE IsOldest
  <2>1. ClaimInv' /\ \A s \in Slots \ {ThisSlot} : Occupied(s) => Occupied(s)'
    BY <1>0, <1>3, OldestFreed DEF RingInv
  <2>2. RingInv'
    BY <1>0, <1>3, <2>1 DEF RingInv, FreeOldest, TypeOK
  <2> QED
    BY <1>1, <1>2, <2>1, <2>2
<1>4. CASE ~ IsOldest
  <2>1. ClaimInv'
    BY <1>4 DEF ClaimInv, Claiming
  <2>2. \A s \in Slots : Occupied(s) => Occupied(s)'
    BY <1>4 DEF Occupied, InWindow, Published, Pending
  <2>3. RingInv'
    BY <1>0, <1>4, <2>2 DEF RingInv, TypeOK
  <2> QED
    BY <1>1, <1>2, <2>1, <2>3
<1> QED
  BY <1>3, <1>4

----------------------------------------------------------------------------
(* Steps of the producers.                                                 *)

\* A producer that found room claims a packet of the window.
LEMMA WaitForSpaceStep ==
  ASSUME IInv, NEW p \in Producers, WaitForSpace(p)
  PROVE  IInv'
<1> USE QueueAssumption DEF IInv, WaitForSpace, ringVars, procVars, book, cursor, taken
<1>1. TypeOK'
  BY DEF TypeOK
<1>2. CursorInv'
  BY DEF CursorInv
<1>3. ClaimInv'
  BY DEF TypeOK, ClaimInv, Claiming
<1>4. RingInv'
  BY DEF TypeOK, RingInv, Occupied, InWindow, Published, Pending, ThisSlot
<1> QED
  BY <1>1, <1>2, <1>3, <1>4

\* Ringing stores an index below the write index.
LEMMA RingDoorbellStep ==
  ASSUME IInv, NEW p \in Producers, RingDoorbell(p)
  PROVE  IInv'
<1> USE QueueAssumption DEF IInv, RingDoorbell, procVars, book, cursor, taken
<1>1. TypeOK'
  BY DEF TypeOK, ClaimInv, Indices
<1>2. CursorInv'
  BY DEF CursorInv
<1>3. ClaimInv'
  BY DEF TypeOK, ClaimInv, Claiming
<1>4. RingInv'
  BY DEF TypeOK, RingInv, Occupied, InWindow, Published, Pending, ThisSlot
<1> QED
  BY <1>1, <1>2, <1>3, <1>4

\* Loading the write index claims nothing.
LEMMA LoadWriteIndexStep ==
  ASSUME IInv, NEW p \in Producers, LoadWriteIndex(p)
  PROVE  IInv'
<1> USE QueueAssumption DEF IInv, LoadWriteIndex, ringVars, procVars, book, cursor, taken
<1>1. TypeOK'
  BY DEF TypeOK
<1>2. CursorInv'
  BY DEF CursorInv
<1>3. ClaimInv'
  BY DEF TypeOK, ClaimInv, Claiming
<1>4. RingInv'
  BY DEF TypeOK, RingInv, Occupied, InWindow, Published, Pending, ThisSlot
<1> QED
  BY <1>1, <1>2, <1>3, <1>4

\* A claim of n packets at the write index, however it is made.
LEMMA ClaimStep ==
  ASSUME IInv, NEW p \in Producers, ppc[p] \in {"idle", "loaded"},
         NEW n \in Batches, write_index + n <= MaxIndex, Claims(p, write_index, n),
         UNCHANGED <<content, read_index, doorbell, header, body, sig, procVars>>
  PROVE  IInv'
<1> USE QueueAssumption DEF IInv, Claims, procVars, book, cursor, taken
<1>0. n \in Nat /\ n >= 1 /\ write_index \in Nat /\ write_index' = write_index + n
  BY DEF TypeOK
<1>1. TypeOK'
  BY <1>0 DEF TypeOK
<1>2. CursorInv'
  BY <1>0 DEF CursorInv, TypeOK
<1>3. ClaimInv'
  <2>1. \A q \in Producers : Claiming(q)' =>
          read_index' <= next'[q] /\ next'[q] <= last'[q] /\ last'[q] < write_index'
    BY <1>0 DEF ClaimInv, Claiming, CursorInv, TypeOK
  <2>2. \A q, r \in Producers : q # r /\ Claiming(q)' /\ Claiming(r)' =>
          last'[q] < next'[r] \/ last'[r] < next'[q]
    BY <1>0 DEF ClaimInv, Claiming, TypeOK
  <2>3. \A q \in Producers : ppc'[q] = "loaded" =>
          next'[q] <= write_index' /\ (ClaimBy[q] = "store" => next'[q] = write_index')
    BY <1>0 DEF ClaimInv, TypeOK
  <2> QED
    BY <1>0, <2>1, <2>2, <2>3 DEF ClaimInv, TypeOK
<1>4. \A i \in Indices : Published(i) => Published(i)'
  BY <1>0 DEF Published, Pending, TypeOK, Indices
<1>5. \A s \in Slots : Occupied(s) => Occupied(s)'
  BY <1>4 DEF Occupied, InWindow
<1>6. ThisSlot \in Slots /\ ThisSlot' = ThisSlot
  BY SlotInSlots DEF TypeOK, ThisSlot
<1>7. RingInv'
  BY <1>5, <1>6 DEF RingInv
<1> QED
  BY <1>1, <1>2, <1>3, <1>7

\* hsa_queue_add_write_index claims at the write index.
LEMMA AddWriteIndexStep ==
  ASSUME IInv, NEW p \in Producers, AddWriteIndex(p)
  PROVE  IInv'
BY ClaimStep DEF AddWriteIndex

\* hsa_queue_store_write_index claims at the write index, because the one
\* producer of the queue is the only one to move it.
LEMMA StoreWriteIndexStep ==
  ASSUME IInv, NEW p \in Producers, StoreWriteIndex(p)
  PROVE  IInv'
<1>1. next[p] = write_index
  BY DEF StoreWriteIndex, IInv, ClaimInv
<1> QED
  BY <1>1, ClaimStep DEF StoreWriteIndex

\* hsa_queue_cas_write_index claims at the write index or claims nothing.
LEMMA CompareExchangeWriteIndexStep ==
  ASSUME IInv, NEW p \in Producers, CompareExchangeWriteIndex(p)
  PROVE  IInv'
<1> USE QueueAssumption
<1>1. PICK n \in Batches :
        \/ write_index = next[p] /\ next[p] + n <= MaxIndex /\ Claims(p, next[p], n)
        \/ /\ write_index # next[p]
           /\ next' = [next EXCEPT ![p] = write_index]
           /\ ppc' = [ppc EXCEPT ![p] = IF write_index < MaxIndex THEN "loaded" ELSE "idle"]
           /\ UNCHANGED <<write_index, last>>
  BY DEF CompareExchangeWriteIndex
<1>2. CASE write_index = next[p]
  BY <1>1, <1>2, ClaimStep DEF CompareExchangeWriteIndex
<1>3. CASE write_index # next[p]
  <2>0. /\ next' = [next EXCEPT ![p] = write_index]
        /\ ppc' = [ppc EXCEPT ![p] = IF write_index < MaxIndex THEN "loaded" ELSE "idle"]
        /\ UNCHANGED <<content, ringVars, sig, procVars, last>>
        /\ ppc[p] = "loaded" /\ ClaimBy[p] = "cas"
    BY <1>1, <1>3 DEF CompareExchangeWriteIndex, ringVars
  <2> USE <2>0 DEF IInv, ringVars, procVars, book, cursor, taken
  <2>1. TypeOK'
    BY DEF TypeOK
  <2>2. CursorInv'
    BY DEF CursorInv
  <2>3. ClaimInv'
    BY DEF TypeOK, ClaimInv, Claiming
  <2>4. RingInv'
    BY DEF TypeOK, RingInv, Occupied, InWindow, Published, Pending, ThisSlot
  <2> QED
    BY <2>1, <2>2, <2>3, <2>4
<1> QED
  BY <1>2, <1>3

\* A producer that found room writes to a slot that holds no live packet.
LEMMA OwnSlotFree ==
  ASSUME IInv, NEW p \in Producers, ppc[p] \in {"write", "publish"}
  PROVE  /\ Slot(next[p]) \in Slots
         /\ ~ Occupied(Slot(next[p]))
         /\ next[p] \in Indices /\ InWindow(next[p]) /\ next[p] < write_index
<1> USE QueueAssumption DEF IInv
<1>1. /\ next[p] \in Nat /\ last[p] \in Nat /\ read_index \in Nat
      /\ write_index \in Nat /\ write_index <= MaxIndex
      /\ read_index <= next[p] /\ next[p] < read_index + Size
      /\ next[p] <= last[p] /\ last[p] < write_index
  BY DEF TypeOK, ClaimInv, Claiming
<1>2. Slot(next[p]) \in Slots /\ next[p] \in Indices /\ InWindow(next[p]) /\ next[p] < write_index
  BY <1>1, SlotInSlots DEF Indices, InWindow
<1>3. ASSUME Occupied(Slot(next[p])) PROVE FALSE
  <2> DEFINE b == body[Slot(next[p])]
  <2>1. b \in Nat /\ Slot(b) = Slot(next[p]) /\ InWindow(b) /\ ~ Pending(b)
    BY <1>3 DEF Occupied, Published, Indices
  <2>2. b = next[p]
    BY <1>1, <2>1, SameSlot DEF InWindow
  <2>3. Pending(next[p])
    BY <1>1 DEF Pending
  <2> QED
    BY <2>1, <2>2, <2>3
<1> QED
  BY <1>2, <1>3

\* Two producers that found room write to different slots.
LEMMA OwnSlotsDiffer ==
  ASSUME IInv, NEW p \in Producers, NEW q \in Producers, p # q,
         ppc[p] \in {"write", "publish"}, ppc[q] \in {"write", "publish"}
  PROVE  Slot(next[p]) # Slot(next[q])
<1> USE QueueAssumption DEF IInv
<1>1. /\ next[p] \in Nat /\ last[p] \in Nat /\ next[q] \in Nat /\ last[q] \in Nat
      /\ read_index \in Nat
      /\ read_index <= next[p] /\ next[p] < read_index + Size /\ next[p] <= last[p]
      /\ read_index <= next[q] /\ next[q] < read_index + Size /\ next[q] <= last[q]
  BY DEF TypeOK, ClaimInv, Claiming
<1>2. last[p] < next[q] \/ last[q] < next[p]
  BY DEF ClaimInv, Claiming
<1>3. next[p] # next[q]
  BY <1>1, <1>2
<1> QED
  BY <1>1, <1>3, SameSlot

\* Writing a packet body disturbs no packet that is in the ring.
LEMMA WriteBodyStep ==
  ASSUME IInv, NEW p \in Producers, WriteBody(p)
  PROVE  IInv'
<1> USE QueueAssumption DEF IInv, WriteBody, procVars, book, cursor, taken
<1> DEFINE o == Slot(next[p])
<1>0. o \in Slots /\ ~ Occupied(o) /\ next[p] \in Indices
  BY OwnSlotFree
<1>1. TypeOK'
  BY <1>0 DEF TypeOK
<1>2. CursorInv'
  BY DEF CursorInv
<1>3. ASSUME NEW q \in Producers, ppc'[q] = "publish"
      PROVE  body'[Slot(next'[q])] = next'[q]
  <2>1. CASE q = p
    BY <1>0, <2>1 DEF TypeOK
  <2>2. CASE q # p
    <3>1. ppc[q] = "publish" /\ Slot(next[q]) # o
      BY <1>3, <2>2, OwnSlotsDiffer DEF TypeOK
    <3> QED
      BY <1>0, <3>1 DEF TypeOK, ClaimInv
  <2> QED
    BY <2>1, <2>2
<1>4. ClaimInv'
  BY <1>3 DEF TypeOK, ClaimInv, Claiming
<1>5. \A i \in Indices : Published(i) => Published(i)'
  BY DEF Published, Pending, TypeOK
<1>6. \A s \in Slots : Occupied(s) => Occupied(s)'
  BY <1>0, <1>5 DEF Occupied, InWindow, TypeOK
<1>7. ThisSlot \in Slots /\ ThisSlot' = ThisSlot
  BY SlotInSlots DEF TypeOK, ThisSlot
<1>8. \A s \in Slots : Occupied(s) => body'[s] = body[s]
  BY <1>0 DEF TypeOK
<1>9. RingInv'
  BY <1>6, <1>7, <1>8 DEF RingInv
<1> QED
  BY <1>1, <1>2, <1>4, <1>9

\* Publishing a packet makes its slot occupied and shrinks the claim.
LEMMA PublishStep ==
  ASSUME IInv, NEW p \in Producers, Publish(p)
  PROVE  IInv'
<1> USE QueueAssumption DEF IInv
<1>a. next[p] \in Indices
  BY OwnSlotFree DEF ClaimInv, Publish
<1>b. PICK i \in Indices : i = next[p]
  BY <1>a
<1>c. PICK o \in Slots : o = Slot(i)
  BY SlotInSlots DEF Indices
<1>0. /\ ~ Occupied(o) /\ InWindow(i) /\ i < write_index /\ body[o] = i
      /\ i = next[p] /\ o = Slot(i)
  BY <1>b, <1>c, OwnSlotFree DEF ClaimInv, Publish
<1>1. content \in [Indices -> Packet]
  BY DEF TypeOK
<1>2. content[i].type \in PublishedTypes /\ content[i].type # "INVALID"
  BY <1>0, <1>1 DEF Packet, PublishedTypes, BarrierTypes, UnsupportedTypes
<1>3. /\ header' = [header EXCEPT ![o] = content[i].type]
      /\ UNCHANGED <<content, write_index, read_index, doorbell, body, sig,
                     procVars, last>>
  BY <1>b, <1>c DEF Publish
<1>4. /\ next[p] <= last[p] /\ last[p] < write_index /\ write_index <= MaxIndex
      /\ next[p] \in Nat /\ last[p] \in Nat /\ write_index \in Nat
      /\ read_index \in Nat /\ read_index <= next[p]
  BY DEF Publish, ClaimInv, Claiming, TypeOK
\* The claim of p shrinks by the packet it publishes, the others stay.
<1>5. \/ /\ next[p] < last[p]
         /\ next' = [next EXCEPT ![p] = next[p] + 1]
         /\ ppc' = [ppc EXCEPT ![p] = "wait"]
      \/ /\ next' = next
         /\ ppc' = [ppc EXCEPT ![p] = "ring"]
  BY DEF Publish
<1>6. \A q \in Producers \ {p} : next'[q] = next[q] /\ ppc'[q] = ppc[q]
  BY <1>5 DEF TypeOK
<1>7. \/ ppc'[p] = "wait" /\ next'[p] = next[p] + 1 /\ next[p] < last[p]
      \/ ppc'[p] = "ring"
  BY <1>5 DEF TypeOK
<1> USE DEF procVars, book, cursor, taken
<1>8. TypeOK'
  <2>1. header' \in [Slots -> PublishedTypes \cup {"INVALID"}]
    BY <1>0, <1>2, <1>3 DEF TypeOK
  <2>2. next' \in [Producers -> 0 .. MaxIndex]
    <3>1. CASE next' = next
      BY <3>1 DEF TypeOK
    <3>2. CASE next[p] < last[p] /\ next' = [next EXCEPT ![p] = next[p] + 1]
      <4>1. next[p] + 1 \in 0 .. MaxIndex
        BY <1>4, <3>2
      <4> QED
        BY <3>2, <4>1 DEF TypeOK
    <3> QED
      BY <1>5, <3>1, <3>2
  <2>3. ppc' \in [Producers -> {"idle", "loaded", "wait", "write", "publish", "ring"}]
    BY <1>5 DEF TypeOK
  <2> QED
    BY <1>3, <2>1, <2>2, <2>3 DEF TypeOK
<1>9. CursorInv'
  BY <1>3 DEF CursorInv
<1>10. \A q \in Producers : Claiming(q)' =>
         Claiming(q) /\ next[q] <= next'[q] /\ next'[q] <= last'[q] /\ i \notin next'[q] .. last'[q]
  <2> SUFFICES ASSUME NEW q \in Producers, Claiming(q)'
               PROVE  Claiming(q) /\ next[q] <= next'[q] /\ next'[q] <= last'[q]
                        /\ i \notin next'[q] .. last'[q]
    OBVIOUS
  <2>1. CASE q = p
    BY <1>b, <1>3, <1>4, <1>7, <2>1 DEF Claiming, Publish
  <2>2. CASE q # p
    <3>1. Claiming(q) /\ next'[q] = next[q] /\ last'[q] = last[q] /\ Claiming(p)
      BY <1>3, <1>6, <2>2 DEF Claiming, Publish
    <3>2. /\ last[p] < next[q] \/ last[q] < next[p]
          /\ next[q] <= last[q] /\ next[q] \in Nat /\ last[q] \in Nat
      BY <2>2, <3>1 DEF ClaimInv, TypeOK
    <3> QED
      BY <1>b, <1>3, <1>4, <3>1, <3>2
  <2> QED
    BY <2>1, <2>2
<1>11. ClaimInv'
  <2>1. \A q \in Producers : ppc'[q] \in {"loaded", "write", "publish"} =>
          q # p /\ next'[q] = next[q] /\ ppc'[q] = ppc[q]
    BY <1>6, <1>7
  <2>2. \A q \in Producers : Claiming(q)' =>
          read_index <= next'[q] /\ next'[q] <= last[q] /\ last[q] < write_index
    <3> SUFFICES ASSUME NEW q \in Producers, Claiming(q)'
                 PROVE  read_index <= next'[q] /\ next'[q] <= last[q] /\ last[q] < write_index
      OBVIOUS
    <3>1. /\ Claiming(q) /\ next[q] <= next'[q] /\ next'[q] <= last[q]
          /\ next[q] \in Nat /\ next'[q] \in Nat
      BY <1>3, <1>8, <1>10 DEF TypeOK
    <3>2. read_index <= next[q] /\ last[q] < write_index
      BY <3>1 DEF ClaimInv
    <3> QED
      BY <1>4, <3>1, <3>2
  <2>3. \A q \in Producers : ppc'[q] = "ring" => last[q] < write_index
    BY <1>4, <1>6 DEF ClaimInv
  <2>4. \A q, r \in Producers :
          q # r /\ Claiming(q)' /\ Claiming(r)' => last[q] < next'[r] \/ last[r] < next'[q]
    <3> SUFFICES ASSUME NEW q \in Producers, NEW r \in Producers,
                        q # r, Claiming(q)', Claiming(r)'
                 PROVE  last[q] < next'[r] \/ last[r] < next'[q]
      OBVIOUS
    <3>1. /\ Claiming(q) /\ next[q] <= next'[q]
          /\ Claiming(r) /\ next[r] <= next'[r]
          /\ next[q] \in Nat /\ next'[q] \in Nat /\ last[q] \in Nat
          /\ next[r] \in Nat /\ next'[r] \in Nat /\ last[r] \in Nat
      BY <1>8, <1>10 DEF TypeOK
    <3>2. last[q] < next[r] \/ last[r] < next[q]
      BY <3>1 DEF ClaimInv
    <3> QED
      BY <3>1, <3>2
  <2> QED
    BY <1>3, <2>1, <2>2, <2>3, <2>4 DEF ClaimInv
<1>12. Published(i)' /\ \A j \in Indices : Published(j) => Published(j)'
  <2>1. \A j \in Indices : Pending(j)' => Pending(j) /\ j # i
    <3> SUFFICES ASSUME NEW j \in Indices, Pending(j)'
                 PROVE  Pending(j) /\ j # i
      OBVIOUS
    <3>1. PICK q \in Producers : Claiming(q)' /\ j \in next'[q] .. last[q]
      BY <1>3 DEF Pending, Claiming
    <3>2. /\ Claiming(q) /\ next[q] <= next'[q] /\ i \notin next'[q] .. last[q]
          /\ next[q] \in Nat /\ next'[q] \in Nat /\ last[q] \in Nat
      BY <1>3, <1>8, <1>10, <3>1 DEF TypeOK
    <3>3. j \in next[q] .. last[q]
      BY <3>1, <3>2
    <3> QED
      BY <3>1, <3>2, <3>3 DEF Pending, Claiming
  <2> QED
    BY <1>0, <1>3, <2>1 DEF Published
<1>13. \A s \in Slots : Occupied(s) => Occupied(s)'
  BY <1>3, <1>12 DEF Occupied, InWindow
<1>14. Occupied(o)' /\ header'[o] = content'[body'[o]].type
  BY <1>0, <1>3, <1>12 DEF Occupied, InWindow, TypeOK
<1>15. ThisSlot \in Slots /\ ThisSlot' = ThisSlot
  BY <1>3, SlotInSlots DEF TypeOK, ThisSlot
<1>16. \A s \in Slots : s # o => header'[s] = header[s]
  BY <1>0, <1>3 DEF TypeOK
<1>17. RingInv'
  BY <1>0, <1>3, <1>13, <1>14, <1>15, <1>16 DEF RingInv
<1> QED
  BY <1>8, <1>9, <1>11, <1>17

\* A store to a host signal touches nothing of the queue.
LEMMA HostStoreStep ==
  ASSUME IInv, NEW h \in HostSignals, HostStore(h)
  PROVE  IInv'
<1> USE QueueAssumption DEF IInv, HostStore, ringVars, procVars, prodVars, book, cursor, taken
<1>1. TypeOK'
  BY DEF TypeOK, Signals
<1>2. CursorInv' /\ ClaimInv'
  BY DEF CursorInv, ClaimInv, Claiming
<1>3. RingInv'
  BY DEF RingInv, Occupied, InWindow, Published, Pending, ThisSlot
<1> QED
  BY <1>1, <1>2, <1>3

----------------------------------------------------------------------------
(* The theorems.                                                           *)

\* Every step of the queue preserves the invariant.
LEMMA NextIInv == IInv /\ [Next]_vars => IInv'
<1> SUFFICES ASSUME IInv, [Next]_vars PROVE IInv'
  OBVIOUS
<1>1. ASSUME NEW p \in Producers, Producer(p) PROVE IInv'
  BY <1>1, AddWriteIndexStep, LoadWriteIndexStep, CompareExchangeWriteIndexStep,
     StoreWriteIndexStep, WaitForSpaceStep, WriteBodyStep, PublishStep,
     RingDoorbellStep DEF Producer
<1>2. ASSUME Processor PROVE IInv'
  BY <1>2, CheckDoorBellStep, LoadIndicesStep, EndScanStep, SkipInvalidStep,
     FetchBarrierStep, FetchKernelStep, FetchUnsupportedStep, LoadDepStep,
     PassBarrierStep, StopAtBarrierStep, RunKernelStep, RetireStep,
     AdvanceReadIndexStep, CompleteStep DEF Processor
<1>3. ASSUME UNCHANGED vars PROVE IInv'
  <2> USE <1>3 DEF IInv, vars, ringVars, procVars, prodVars, book, cursor, taken
  <2>1. TypeOK'
    BY DEF TypeOK
  <2>2. CursorInv' /\ ClaimInv'
    BY DEF CursorInv, ClaimInv, Claiming
  <2>3. RingInv'
    BY DEF RingInv, Occupied, InWindow, Published, Pending, ThisSlot
  <2> QED
    BY <2>1, <2>2, <2>3
<1> QED
  BY <1>1, <1>2, <1>3, HostStoreStep DEF Next, Stopped

\* The invariant holds in every state of the queue.
THEOREM Invariance == Spec => []IInv
BY InitIInv, NextIInv, PTL DEF Spec

\* The variables of CPUKernelAgent::Execute, of the ring and of the producers
\* keep to their types; above all the indices the processor computes stay
\* below the write index.
THEOREM TypeCorrect == Spec => []TypeOK
<1>1. IInv => TypeOK
  BY DEF IInv
<1> QED
  BY <1>1, Invariance, PTL

\* A producer that waited for id - read_index < size has its slot for itself:
\* the order in which Execute retires the packet and advances the read index
\* never lets a producer meet the processor or another producer in a slot.
THEOREM SlotsExclusive == Spec => []SlotExclusive
<1>1. IInv => SlotExclusive
  <2> SUFFICES ASSUME IInv, NEW p \in Producers, ppc[p] \in {"write", "publish"}
               PROVE  /\ header[Slot(next[p])] = "INVALID"
                      /\ ~ (Busy /\ ThisSlot = Slot(next[p]))
                      /\ \A q \in Producers \ {p} :
                           ppc[q] \in {"write", "publish"} => Slot(next[q]) # Slot(next[p])
    BY DEF SlotExclusive
  <2>1. header[Slot(next[p])] = "INVALID"
    BY OwnSlotFree DEF IInv, RingInv
  <2>2. ~ (Busy /\ ThisSlot = Slot(next[p]))
    BY <2>1 DEF Busy, IInv, RingInv
  <2> QED
    BY <2>1, <2>2, OwnSlotsDiffer
<1> QED
  BY <1>1, Invariance, PTL
============================================================================
