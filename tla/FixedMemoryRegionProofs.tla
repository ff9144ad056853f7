---------------------- MODULE FixedMemoryRegionProofs ----------------------
(***************************************************************************)
(* Proofs about FixedMemoryRegion, for every region, every size and every  *)
(* alignment.                                                              *)
(***************************************************************************)
EXTENDS FixedMemoryRegion, WellFoundedInduction, TLAPS

\* The addresses of the chunks are in the region and the chunks are disjoint.
IInv == TypeOK /\ NoOverlap

----------------------------------------------------------------------------
(* Alignment.                                                              *)

\* A multiple of n leaves no remainder.
LEMMA MultipleMod ==
  ASSUME NEW n \in Nat \ {0}, NEW k \in Nat
  PROVE  (n * k) % n = 0
OBVIOUS

\* AlignAdd leads to an aligned address, upwards.
LEMMA Aligned ==
  ASSUME NEW addr \in Nat, NEW align \in Nat \ {0}
  PROVE  AlignAdd(addr, align) \in Nat /\ (addr + AlignAdd(addr, align)) % align = 0
<1> DEFINE q == addr \div align
           r == addr % align
<1>1. q \in Nat /\ r \in 0 .. align - 1 /\ addr = align * q + r
  OBVIOUS
<1>2. CASE r > 0
  <2>1. AlignAdd(addr, align) = align - r
    BY <1>2 DEF AlignAdd
  <2>2. addr + (align - r) = align * (q + 1)
    <3> HIDE DEF q, r
    <3> QED
      BY <1>1
  <2>3. (align * (q + 1)) % align = 0
    <3> HIDE DEF q, r
    <3>1. q + 1 \in Nat
      BY <1>1
    <3> QED
      BY <3>1, MultipleMod
  <2> QED
    BY <1>1, <2>1, <2>2, <2>3
<1>3. CASE ~ (r > 0)
  BY <1>1, <1>3 DEF AlignAdd
<1> QED
  BY <1>2, <1>3

----------------------------------------------------------------------------
(* A chunk is added where nothing is.                                      *)

\* The address a request gets is free: all chunks end before it or start
\* behind the request.
Free(addr, size) ==
  /\ addr \in StartAddress .. RegionEnd /\ addr + size <= RegionEnd
  /\ \A a \in Chunks : (a < addr /\ ChunkEnd(a) <= addr) \/ addr + size <= a

\* Insert at a free address keeps the chunks disjoint.
LEMMA InsertStep ==
  ASSUME IInv, NEW size \in Sizes, NEW addr \in StartAddress .. RegionEnd,
         Free(addr, size), Insert(addr, size)
  PROVE  /\ Chunks' = Chunks \cup {addr} /\ addr \notin Chunks
         /\ Allocations' \in [Chunks' -> Nat \ {0}]
         /\ Allocations'[addr] = size
         /\ \A a \in Chunks : Allocations'[a] = Allocations[a]
         /\ NoOverlap'
<1> USE RegionAssumption DEF IInv, TypeOK
<1>1. Chunks' = Chunks \cup {addr} /\ size \in Nat \ {0}
  BY DEF Insert, Chunks
<1>2. addr \notin Chunks
  BY <1>1 DEF Free, RegionEnd
<1>3. Allocations'[addr] = size /\ \A a \in Chunks : Allocations'[a] = Allocations[a]
  BY <1>1, <1>2 DEF Insert
<1>4. Allocations' \in [Chunks' -> Nat \ {0}]
  BY <1>1, <1>2, <1>3 DEF Insert
<1>5. /\ ChunkEnd(addr)' = addr + size
      /\ \A a \in Chunks : ChunkEnd(a)' = ChunkEnd(a)
  BY <1>3 DEF ChunkEnd
<1>6. NoOverlap'
  <2>1. \A a \in Chunks' : ChunkEnd(a)' <= RegionEnd
    BY <1>1, <1>5 DEF NoOverlap, Free
  <2>2. ASSUME NEW a \in Chunks', NEW b \in Chunks', a < b
        PROVE  ChunkEnd(a)' <= b
    <3>1. CASE a \in Chunks /\ b \in Chunks
      BY <1>5, <2>2, <3>1 DEF NoOverlap
    <3>2. CASE a = addr /\ b \in Chunks
      BY <1>1, <1>5, <2>2, <3>2 DEF Free, RegionEnd
    <3>3. CASE a \in Chunks /\ b = addr
      BY <1>1, <1>5, <2>2, <3>3 DEF Free, RegionEnd
    <3> QED
      BY <1>1, <2>2, <3>1, <3>2, <3>3
  <2> QED
    BY <2>1, <2>2 DEF NoOverlap, RegionEnd
<1> QED
  BY <1>1, <1>2, <1>3, <1>4, <1>6

\* The place behind the highest chunk is free if the request fits there.
LEMMA TailIsFree ==
  ASSUME IInv, NEW size \in Sizes, NEW align \in Aligns,
         NEW f \in StartAddress .. RegionEnd, TailStart(f), TailFits(f, size, align)
  PROVE  Free(f + AlignAdd(f, align), size)
<1> USE RegionAssumption DEF IInv, TypeOK
<1>1. AlignAdd(f, align) \in Nat /\ size \in Nat \ {0} /\ f \in Nat /\ RegionEnd \in Nat
  BY Aligned DEF RegionEnd
<1>2. \A a \in Chunks : a < f /\ ChunkEnd(a) <= f
  <2>1. CASE Chunks = {}
    BY <2>1
  <2>2. CASE Chunks # {}
    <3>1. PICK h \in Chunks : (\A b \in Chunks : b <= h) /\ f = ChunkEnd(h)
      BY <2>2 DEF TailStart
    <3>2. \A a \in Chunks : a \in Nat /\ ChunkEnd(a) \in Nat /\ a < ChunkEnd(a)
      BY DEF ChunkEnd
    <3> QED
      BY <3>1, <3>2 DEF NoOverlap
  <2> QED
    BY <2>1, <2>2
<1>3. \A a \in Chunks : a \in Nat /\ ChunkEnd(a) \in Nat
  BY DEF ChunkEnd
<1> QED
  BY <1>1, <1>2, <1>3 DEF Free, TailFits

\* The gap behind chunk i is free if the request fits there.
LEMMA GapIsFree ==
  ASSUME IInv, NEW size \in Sizes, NEW align \in Aligns,
         NEW i \in Chunks, NEW n \in Chunks, GapFits(i, n, size, align)
  PROVE  Free(ChunkEnd(i) + AlignAdd(ChunkEnd(i), align), size)
<1> USE RegionAssumption DEF IInv, TypeOK
<1>1. \A a \in Chunks : a \in Nat /\ a >= StartAddress /\ a <= RegionEnd
                        /\ ChunkEnd(a) \in Nat /\ a < ChunkEnd(a)
  BY DEF ChunkEnd
<1>2. AlignAdd(ChunkEnd(i), align) \in Nat /\ size \in Nat \ {0} /\ RegionEnd \in Nat
  BY <1>1, Aligned DEF RegionEnd
<1>3. ASSUME NEW a \in Chunks
      PROVE  (a < ChunkEnd(i) /\ ChunkEnd(a) <= ChunkEnd(i)) \/ n <= a
  BY <1>1 DEF GapFits, NoOverlap
<1> QED
  BY <1>1, <1>2, <1>3 DEF Free, GapFits

----------------------------------------------------------------------------
(* The steps.                                                              *)

Kept == \A a \in Chunks' : ChunkKept(a) \/ ChunkAdded(a)

\* A call of allocate adds a chunk that is free and aligned, or none.
LEMMA AllocateStep ==
  ASSUME IInv, NEW size \in Sizes, NEW align \in Aligns, allocate(size, align)
  PROVE  IInv' /\ Kept
<1> USE RegionAssumption DEF IInv
<1>1. PICK f \in StartAddress .. RegionEnd :
        /\ TailStart(f)
        /\ \/ AllocateTail(f, size, align)
           \/ AllocateGap(f, size, align)
           \/ AllocateFails(f, size, align)
  BY DEF allocate
<1>2. /\ ~ aborted /\ request' = [size |-> size, align |-> align]
      /\ size \in Nat \ {0} /\ align \in Nat \ {0}
      /\ StartAddress \in Nat /\ RegionEnd \in Nat
  BY DEF allocate, RegionEnd
<1>3. ASSUME NEW base \in Nat, base + AlignAdd(base, align) \in StartAddress .. RegionEnd,
             Free(base + AlignAdd(base, align), size),
             Insert(base + AlignAdd(base, align), size),
             FreeSpaceStart' \in StartAddress .. RegionEnd, aborted' = aborted
      PROVE  IInv' /\ Kept
  <2>0. PICK addr \in StartAddress .. RegionEnd : addr = base + AlignAdd(base, align)
    BY <1>3
  <2>1. /\ Chunks' = Chunks \cup {addr} /\ addr \notin Chunks
        /\ Allocations' \in [Chunks' -> Nat \ {0}]
        /\ Allocations'[addr] = size
        /\ \A a \in Chunks : Allocations'[a] = Allocations[a]
        /\ NoOverlap'
    BY <1>3, <2>0, InsertStep
  <2>2. addr % align = 0
    BY <1>2, <2>0, Aligned
  <2>3. TypeOK'
    BY <1>2, <1>3, <2>1 DEF TypeOK
  <2>4. Kept
    BY <1>2, <2>1, <2>2 DEF Kept, ChunkKept, ChunkAdded
  <2> QED
    BY <2>1, <2>3, <2>4
<1>4. CASE AllocateTail(f, size, align)
  <2>1. Free(f + AlignAdd(f, align), size) /\ AlignAdd(f, align) \in Nat
    BY <1>1, <1>2, <1>4, TailIsFree, Aligned DEF AllocateTail
  <2> QED
    BY <1>2, <1>3, <1>4, <2>1 DEF AllocateTail, Free
<1>5. CASE AllocateGap(f, size, align)
  <2>1. PICK i \in Chunks, n \in Chunks :
          /\ GapFits(i, n, size, align)
          /\ Insert(ChunkEnd(i) + AlignAdd(ChunkEnd(i), align), size)
    BY <1>5 DEF AllocateGap
  <2>2. Free(ChunkEnd(i) + AlignAdd(ChunkEnd(i), align), size) /\ ChunkEnd(i) \in Nat
    BY <1>2, <2>1, GapIsFree DEF ChunkEnd, TypeOK
  <2> QED
    BY <1>3, <1>5, <2>1, <2>2 DEF AllocateGap, Free
<1>6. CASE AllocateFails(f, size, align)
  <2>1. Chunks' = Chunks /\ NoOverlap'
    BY <1>6 DEF AllocateFails, NoOverlap, Chunks, ChunkEnd
  <2>2. TypeOK'
    BY <1>2, <1>6, <2>1 DEF AllocateFails, TypeOK
  <2>3. Kept
    BY <1>6, <2>1 DEF AllocateFails, Kept, ChunkKept
  <2> QED
    BY <2>1, <2>2, <2>3
<1> QED
  BY <1>1, <1>4, <1>5, <1>6

\* A call of free removes a chunk and leaves the others alone.
LEMMA FreeStep ==
  ASSUME IInv, NEW ptr \in Chunks, free(ptr)
  PROVE  IInv' /\ Kept
<1> USE RegionAssumption DEF IInv
<1>1. /\ Chunks' = Chunks \ {ptr}
      /\ \A a \in Chunks' : Allocations'[a] = Allocations[a]
  BY DEF free, Chunks
<1>2. TypeOK'
  BY <1>1 DEF free, TypeOK, NoRequest
<1>3. NoOverlap'
  BY <1>1 DEF NoOverlap, ChunkEnd
<1>4. Kept
  BY <1>1 DEF Kept, ChunkKept
<1> QED
  BY <1>2, <1>3, <1>4

\* Every step keeps the invariant, and the chunks that stay.
LEMMA NextStep == IInv /\ [Next]_vars => IInv' /\ [Kept]_vars
<1> SUFFICES ASSUME IInv, [Next]_vars PROVE IInv' /\ [Kept]_vars
  OBVIOUS
<1>1. CASE UNCHANGED vars
  BY <1>1 DEF IInv, vars, TypeOK, NoOverlap, Chunks, ChunkEnd
<1> QED
  BY <1>1, AllocateStep, FreeStep DEF Next

\* A region without chunks satisfies the invariant.
LEMMA InitIInv == Init => IInv
<1> SUFFICES ASSUME Init PROVE IInv
  OBVIOUS
<1>1. Chunks = {} /\ Allocations \in [{} -> Nat \ {0}]
  BY DEF Init, Chunks
<1>2. StartAddress \in StartAddress .. RegionEnd
  BY RegionAssumption DEF RegionEnd
<1>3. FreeSpaceStart = StartAddress /\ aborted = FALSE /\ request = NoRequest
  BY Zenon DEF Init
<1>4. NoRequest \in [size : Nat, align : Nat \ {0}]
  BY DEF NoRequest
<1>5. TypeOK
  BY <1>1, <1>2, <1>3, <1>4, Zenon DEF TypeOK
<1>6. NoOverlap
  BY <1>1 DEF NoOverlap
<1> QED
  BY <1>5, <1>6 DEF IInv

----------------------------------------------------------------------------
(* The search misses no place.                                             *)

\* A set of natural numbers that is not empty has a least element.
LEMMA Least ==
  ASSUME NEW T, T \subseteq Nat, T # {}
  PROVE  \E m \in T : \A k \in T : m <= k
<1> DEFINE R == OpToRel(<, Nat)
<1>1. IsWellFoundedOn(R, Nat)
  BY NatLessThanWellFounded
<1>2. PICK m \in T : \A k \in T : ~ (<<k, m>> \in R)
  <2> HIDE DEF R
  <2> QED
    BY <1>1, WFMin
<1>3. \A k \in T : ~ (k < m)
  BY <1>2 DEF OpToRel
<1> QED
  BY <1>3

\* One that is bounded has a greatest element, too.
LEMMA Greatest ==
  ASSUME NEW T, NEW n \in Nat, T \subseteq 0 .. n, T # {}
  PROVE  \E m \in T : \A k \in T : k <= m
<1> DEFINE U == {n - k : k \in T}
<1>1. U \subseteq Nat /\ U # {}
  <2>1. \A k \in T : k \in Nat /\ n - k \in Nat
    OBVIOUS
  <2> QED
    BY <2>1, Zenon
<1>2. PICK u \in U : \A k \in U : u <= k
  BY <1>1, Least
<1>3. PICK m \in T : u = n - m
  BY <1>2
<1>4. \A k \in T : n - m <= n - k
  BY <1>2, <1>3
<1> QED
  BY <1>4

\* AlignAdd leads to the first aligned address: no aligned address lies
\* between addr and the one it computes.
LEMMA FirstAligned ==
  ASSUME NEW addr \in Nat, NEW align \in Nat \ {0}, NEW x \in Nat,
         addr <= x, x % align = 0
  PROVE  addr + AlignAdd(addr, align) <= x
<1> DEFINE q == addr \div align
           r == addr % align
           k == x \div align
<1>1. q \in Nat /\ r \in 0 .. align - 1 /\ addr = align * q + r
  OBVIOUS
<1>2. k \in Nat /\ x = align * k
  OBVIOUS
<1>3. CASE r > 0
  <2>1. AlignAdd(addr, align) = align - r
    BY <1>3 DEF AlignAdd
  <2> HIDE DEF q, r, k
  <2>2. k > q
    <3>1. ASSUME k <= q PROVE FALSE
      <4>1. align * k <= align * q
        BY <1>1, <1>2, <3>1
      <4> QED
        BY <1>1, <1>2, <1>3, <4>1
    <3> QED
      BY <1>1, <1>2, <3>1
  <2>3. align * k >= align * (q + 1)
    BY <1>1, <1>2, <2>2
  <2>4. align * (q + 1) = align * q + align
    BY <1>1
  <2> QED
    BY <1>1, <1>2, <2>1, <2>3, <2>4
<1>4. CASE ~ (r > 0)
  BY <1>1, <1>4 DEF AlignAdd
<1> QED
  BY <1>3, <1>4

\* If allocate finds neither the end nor a gap, no address above a chunk has
\* room but one at which the request takes the last byte.
LEMMA SearchIsComplete ==
  ASSUME IInv, NEW size \in Sizes, NEW align \in Aligns,
         NEW f \in StartAddress .. RegionEnd, TailStart(f),
         ~ TailFits(f, size, align),
         ~ \E i, n \in Chunks : GapFits(i, n, size, align),
         NEW addr \in StartAddress .. RegionEnd,
         \E a \in Chunks : a < addr,
         Fits(addr, size, align), addr + size - 1 # RegionEnd
  PROVE  FALSE
<1> USE RegionAssumption DEF IInv, TypeOK
<1>1. /\ size \in Nat \ {0} /\ align \in Nat \ {0}
      /\ addr \in Nat /\ StartAddress \in Nat /\ RegionEnd \in Nat
  BY DEF RegionEnd
<1>2. \A a \in Chunks : a \in 0 .. RegionEnd /\ ChunkEnd(a) \in Nat /\ a < ChunkEnd(a)
  <2> SUFFICES ASSUME NEW a \in Chunks
               PROVE  a \in 0 .. RegionEnd /\ ChunkEnd(a) \in Nat /\ a < ChunkEnd(a)
    OBVIOUS
  <2>1. a \in StartAddress .. RegionEnd /\ Allocations[a] \in Nat \ {0}
    OBVIOUS
  <2> QED
    BY <1>1, <2>1 DEF ChunkEnd
\* i is the chunk before addr.
<1>3. PICK i \in Chunks : i < addr /\ \A b \in Chunks : b < addr => b <= i
  <2> DEFINE Below == {a \in Chunks : a < addr}
  <2>1. Below \subseteq 0 .. RegionEnd /\ Below # {}
    BY <1>2
  <2>2. PICK i \in Below : \A b \in Below : b <= i
    BY <1>1, <2>1, Greatest
  <2> QED
    BY <2>2
<1>4. ChunkEnd(i) <= addr
  BY <1>1, <1>2, <1>3 DEF Fits
<1>5. ChunkEnd(i) + AlignAdd(ChunkEnd(i), align) <= addr /\ AlignAdd(ChunkEnd(i), align) \in Nat
  BY <1>1, <1>2, <1>4, FirstAligned, Aligned DEF Fits
<1>6. \A b \in Chunks : b <= i \/ addr + size <= b
  BY <1>1, <1>2, <1>3 DEF Fits
<1>7. addr + size <= RegionEnd
  BY <1>1 DEF Fits
<1>8. CASE \E b \in Chunks : addr < b
  <2> DEFINE Above == {b \in Chunks : addr < b}
  <2>1. Above \subseteq Nat /\ Above # {}
    <3>1. \A b \in Chunks : b \in Nat
      BY <1>1, <1>2
    <3> QED
      BY <1>8, <3>1, Zenon
  <2>2. PICK n \in Above : \A b \in Above : n <= b
    BY <2>1, Least
  <2>3. n \in Chunks /\ addr + size <= n /\ \A b \in Chunks : b <= i \/ n <= b
    BY <1>1, <1>2, <1>3, <1>6, <2>2
  <2>4. GapFits(i, n, size, align)
    BY <1>1, <1>2, <1>3, <1>5, <2>3 DEF GapFits
  <2> QED
    BY <2>3, <2>4
<1>9. CASE \A b \in Chunks : ~ (addr < b)
  <2>1. \A b \in Chunks : b <= i
    BY <1>1, <1>2, <1>6, <1>9
  <2>2. f = ChunkEnd(i)
    BY <1>2, <2>1 DEF TailStart
  <2> QED
    BY <1>1, <1>2, <1>5, <1>7, <2>2 DEF TailFits
<1> QED
  BY <1>8, <1>9

\* In a region without chunks, no address from the mark on has.
LEMMA EmptySearchIsComplete ==
  ASSUME IInv, NEW size \in Sizes, NEW align \in Aligns,
         NEW f \in StartAddress .. RegionEnd, TailStart(f), Chunks = {},
         ~ TailFits(f, size, align),
         NEW addr \in StartAddress .. RegionEnd, f <= addr,
         Fits(addr, size, align), addr + size - 1 # RegionEnd
  PROVE  FALSE
<1>1. /\ size \in Nat \ {0} /\ align \in Nat \ {0} /\ f \in Nat
      /\ addr \in Nat /\ RegionEnd \in Nat
  BY RegionAssumption DEF RegionEnd
<1>2. addr + size <= RegionEnd /\ addr % align = 0
  BY <1>1 DEF Fits
<1>3. f + AlignAdd(f, align) <= addr /\ AlignAdd(f, align) \in Nat
  BY <1>1, <1>2, FirstAligned, Aligned
<1> QED
  BY <1>1, <1>2, <1>3 DEF TailFits

\* The calls of allocate and free keep what the search is to mean.
LEMMA NextSearch == IInv /\ NoOtherPlaceMissed /\ [Next]_vars => NoOtherPlaceMissed'
<1> SUFFICES ASSUME IInv, NoOtherPlaceMissed, [Next]_vars PROVE NoOtherPlaceMissed'
  OBVIOUS
<1>1. CASE UNCHANGED vars
  BY <1>1 DEF vars, NoOtherPlaceMissed, Fits, NotConsidered, Chunks, ChunkEnd
<1>2. ASSUME NEW ptr \in Chunks, free(ptr) PROVE NoOtherPlaceMissed'
  BY <1>2 DEF free, NoOtherPlaceMissed
<1>3. ASSUME NEW size \in Sizes, NEW align \in Aligns, allocate(size, align)
      PROVE  NoOtherPlaceMissed'
  <2>1. PICK f \in StartAddress .. RegionEnd :
          /\ TailStart(f)
          /\ \/ AllocateTail(f, size, align)
             \/ AllocateGap(f, size, align)
             \/ AllocateFails(f, size, align)
    BY <1>3 DEF allocate
  <2>2. ~ aborted /\ request'.size = size /\ request'.align = align
    BY <1>3 DEF allocate
  <2>3. CASE AllocateTail(f, size, align) \/ AllocateGap(f, size, align)
    BY <2>2, <2>3 DEF AllocateTail, AllocateGap, NoOtherPlaceMissed
  <2>4. CASE AllocateFails(f, size, align)
    <3>1. Allocations' = Allocations /\ Chunks' = Chunks /\ FreeSpaceStart' = f
      BY <2>4 DEF AllocateFails, Chunks
    <3> SUFFICES ASSUME NEW addr \in StartAddress .. RegionEnd, Fits(addr, size, align),
                        addr + size - 1 # RegionEnd
                 PROVE  addr < f /\ \A a \in Chunks : addr < a
      BY <2>2, <3>1 DEF NoOtherPlaceMissed, NotConsidered, Fits, ChunkEnd
    <3>2. ~ \E a \in Chunks : a < addr
      BY <2>1, <2>4, SearchIsComplete DEF AllocateFails
    <3>3. /\ f \in Nat /\ addr \in Nat /\ size \in Nat \ {0}
          /\ \A a \in Chunks : a \in Nat /\ ChunkEnd(a) \in Nat /\ a < ChunkEnd(a)
      BY RegionAssumption DEF IInv, TypeOK, ChunkEnd, RegionEnd
    <3>4. \A a \in Chunks : addr < a
      BY <3>2, <3>3 DEF Fits
    <3>5. CASE Chunks = {}
      <4>1. ~ (f <= addr)
        BY <2>1, <2>4, <3>5, EmptySearchIsComplete DEF AllocateFails
      <4> QED
        BY <3>3, <3>4, <4>1
    <3>6. CASE Chunks # {}
      <4>1. PICK a \in Chunks : f = ChunkEnd(a)
        BY <2>1, <3>6 DEF TailStart
      <4> QED
        BY <3>3, <3>4, <4>1
    <3> QED
      BY <3>5, <3>6
  <2> QED
    BY <2>1, <2>3, <2>4
<1> QED
  BY <1>1, <1>2, <1>3 DEF Next

----------------------------------------------------------------------------
(* The theorems.                                                           *)

\* FreeSpaceStart and every chunk FixedMemoryRegion hands out stay inside the
\* region, and no chunk is empty.
THEOREM RegionTypeCorrect == Spec => []TypeOK
<1>1. IInv => TypeOK
  BY DEF IInv
<1>2. IInv /\ [Next]_vars => IInv'
  BY NextStep
<1> QED
  BY <1>1, <1>2, InitIInv, PTL DEF Spec

\* No two chunks that FixedMemoryRegion::allocate has handed out and that are
\* not freed share a byte, and none reaches past the end of the region.
THEOREM ChunksDisjoint == Spec => []NoOverlap
<1>1. IInv => NoOverlap
  BY DEF IInv
<1>2. IInv /\ [Next]_vars => IInv'
  BY NextStep
<1> QED
  BY <1>1, <1>2, InitIInv, PTL DEF Spec

\* The assertion at the end of FixedMemoryRegion::allocate holds: what it adds
\* is aligned; and neither allocate nor free touches a chunk somebody holds.
THEOREM ChunksKept == Spec => AllocateKeeps
<1>1. IInv /\ [Next]_vars => IInv'
  BY NextStep
<1>2. IInv /\ [Next]_vars => [\A a \in Chunks' : ChunkKept(a) \/ ChunkAdded(a)]_vars
  BY NextStep DEF Kept
<1> QED
  BY <1>1, <1>2, InitIInv, PTL DEF Spec, AllocateKeeps

\* When FixedMemoryRegion::allocate aborts, the request, with its alignment,
\* has room nowhere but at the last byte of the region or below what allocate
\* starts from: no gap between chunks is passed over, for any sequence of
\* calls, nor is any place behind them that leaves the last byte.
THEOREM SearchMissesNothingElse == Spec => []NoOtherPlaceMissed
<1>1. Init => NoOtherPlaceMissed
  BY DEF Init, NoOtherPlaceMissed
<1>2. IInv /\ [Next]_vars => IInv'
  BY NextStep
<1> QED
  BY <1>1, <1>2, InitIInv, NextSearch, PTL DEF Spec
============================================================================
