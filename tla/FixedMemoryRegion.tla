------------------------- MODULE FixedMemoryRegion -------------------------
(***************************************************************************)
(* The allocator of FixedMemoryRegion.cc: chunks of a fixed address range, *)
(* kept in a map ordered by address.  allocate and free hold RegionLock    *)
(* from beginning to end, so each is one step.  The callers never ask for  *)
(* zero bytes (hsa_memory_allocate refuses it, a kernel without group      *)
(* memory does not allocate), nor for more than getMaxAllocSize.           *)
(***************************************************************************)
EXTENDS Integers

CONSTANTS
  StartAddress,   \* first address of the region; 0 would stand for failure
  RegionSize,
  Sizes,          \* sizes that are asked for
  Aligns          \* alignments that are asked for

ASSUME RegionAssumption ==
  /\ StartAddress \in Nat \ {0}
  /\ RegionSize \in Nat \ {0}
  /\ Sizes \subseteq 1 .. RegionSize
  /\ Aligns \subseteq Nat \ {0}

RegionEnd == StartAddress + RegionSize - 1

VARIABLES
  Allocations,      \* std::map: address of each chunk to its size
  FreeSpaceStart,
  request,          \* history: what the last call of allocate asked for
  aborted           \* allocate found no room and called abort()

vars == <<Allocations, FreeSpaceStart, request, aborted>>

Chunks == DOMAIN Allocations
ChunkEnd(a) == a + Allocations[a]

NoRequest == [size |-> 0, align |-> 1]

Init ==
  /\ Allocations = [a \in {} |-> 0]
  /\ FreeSpaceStart = StartAddress
  /\ request = NoRequest
  /\ aborted = FALSE

\* Faulty variant: the alignment is forgotten.
AlignAddNothing(addr, align) == 0

\* What must be added to an address to align it.
AlignAdd(addr, align) == IF addr % align > 0 THEN align - (addr % align) ELSE 0

\* The end of the highest chunk, or the old mark if there is no chunk.
TailStart(f) ==
  IF Chunks = {} THEN f = FreeSpaceStart
  ELSE \E a \in Chunks : (\A b \in Chunks : b <= a) /\ f = ChunkEnd(a)

\* Faulty variant: the alignment is not counted.
TailFitsUnaligned(f, size, align) == f + size <= RegionEnd

TailFits(f, size, align) == f + size + AlignAdd(f, align) <= RegionEnd

\* Faulty variants: the alignment is not counted; a gap that fits exactly is
\* passed over.
GapFitsUnaligned(i, n, size, align) ==
  /\ i \in Chunks /\ n \in Chunks /\ i < n
  /\ \A b \in Chunks : b <= i \/ n <= b
  /\ ChunkEnd(i) + size <= n
GapFitsLoosely(i, n, size, align) ==
  /\ i \in Chunks /\ n \in Chunks /\ i < n
  /\ \A b \in Chunks : b <= i \/ n <= b
  /\ ChunkEnd(i) + size + AlignAdd(ChunkEnd(i), align) < n

\* Chunk i is followed by chunk n, with room for the request between them.
GapFits(i, n, size, align) ==
  /\ i \in Chunks /\ n \in Chunks /\ i < n
  /\ \A b \in Chunks : b <= i \/ n <= b
  /\ ChunkEnd(i) + size + AlignAdd(ChunkEnd(i), align) <= n

\* Allocations[addr] = size
Insert(addr, size) ==
  Allocations' = [a \in Chunks \cup {addr} |-> IF a = addr THEN size ELSE Allocations[a]]

AllocateTail(f, size, align) ==
  /\ TailFits(f, size, align)
  /\ Insert(f + AlignAdd(f, align), size)
  /\ FreeSpaceStart' = f + AlignAdd(f, align) + size
  /\ UNCHANGED aborted

\* The first gap, from the lowest chunk on.
AllocateGap(f, size, align) ==
  /\ ~ TailFits(f, size, align)
  /\ \E i, n \in Chunks :
       /\ GapFits(i, n, size, align)
       /\ \A j, m \in Chunks : GapFits(j, m, size, align) => i <= j
       /\ Insert(ChunkEnd(i) + AlignAdd(ChunkEnd(i), align), size)
  /\ FreeSpaceStart' = f
  /\ UNCHANGED aborted

AllocateFails(f, size, align) ==
  /\ ~ TailFits(f, size, align)
  /\ ~ \E i, n \in Chunks : GapFits(i, n, size, align)
  /\ aborted' = TRUE
  /\ FreeSpaceStart' = f
  /\ UNCHANGED Allocations

allocate(size, align) ==
  /\ ~ aborted
  /\ request' = [size |-> size, align |-> align]
  /\ \E f \in StartAddress .. RegionEnd :
       /\ TailStart(f)
       /\ \/ AllocateTail(f, size, align)
          \/ AllocateGap(f, size, align)
          \/ AllocateFails(f, size, align)

\* Allocations.erase: FreeSpaceStart stays.
free(ptr) ==
  /\ ~ aborted
  /\ ptr \in Chunks
  /\ Allocations' = [a \in Chunks \ {ptr} |-> Allocations[a]]
  /\ request' = NoRequest
  /\ UNCHANGED <<FreeSpaceStart, aborted>>

Next ==
  \/ \E size \in Sizes, align \in Aligns : allocate(size, align)
  \/ \E ptr \in Chunks : free(ptr)
  \/ aborted /\ UNCHANGED vars

Spec == Init /\ [][Next]_vars

----------------------------------------------------------------------------
(* Properties                                                              *)

TypeOK ==
  /\ Chunks \subseteq StartAddress .. RegionEnd
  /\ Allocations \in [Chunks -> Nat \ {0}]
  /\ FreeSpaceStart \in StartAddress .. RegionEnd
  /\ request \in [size : Nat, align : Nat \ {0}]
  /\ aborted \in BOOLEAN

\* "keeps book of memory allocation of a specific region": no byte belongs to
\* two chunks, and none lies behind the region, whatever was freed between.
NoOverlap ==
  /\ \A a \in Chunks : ChunkEnd(a) <= RegionEnd
  /\ \A a, b \in Chunks : a < b => ChunkEnd(a) <= b

ChunkKept(a) == a \in Chunks /\ Allocations'[a] = Allocations[a]
ChunkAdded(a) ==
  a \notin Chunks /\ Allocations'[a] = request'.size /\ a % request'.align = 0

\* A chunk that allocate adds is aligned as it was asked ("assert(Addr %
\* Align == 0)"), and no chunk that others hold is moved or resized.
AllocateKeeps == [][\A a \in Chunks' : ChunkKept(a) \/ ChunkAdded(a)]_vars

\* The request has room at addr: the bytes it takes are in the region, whose
\* last byte is RegionEnd, and in no chunk.
Fits(addr, size, align) ==
  /\ addr % align = 0
  /\ addr >= StartAddress /\ addr + size - 1 <= RegionEnd
  /\ \A a \in Chunks : addr + size <= a \/ ChunkEnd(a) <= addr

\* The places that allocate does not consider: those that take the last byte,
\* and those below the lowest chunk or, in a region without chunks, below the
\* mark that is left of the chunks there were.
NotConsidered(addr, size) ==
  \/ addr + size - 1 = RegionEnd
  \/ addr < FreeSpaceStart /\ \A a \in Chunks : addr < a

\* "find (via linear search starting from the lowest chunk address) the first
\* fragment that fits the size [...], fail otherwise": when allocate gives up,
\* every place that has room is one that it does not consider; no gap between
\* chunks is passed over, nor the space behind them but for the last byte.
NoOtherPlaceMissed ==
  aborted =>
    \A addr \in StartAddress .. RegionEnd :
      Fits(addr, request.size, request.align) => NotConsidered(addr, request.size)

============================================================================
