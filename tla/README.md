# phsa-runtime in TLA+

TLA+ models of phsa-runtime, the HSA runtime of General Processor Tech for
platforms with CPU agents, with TLC configurations that check them on small
instances and proofs that TLAPS checks for every instance. `PROJECT.json` lists
the components, runs, mutants, theorems, findings and hazards, and maps every
definition to the source lines it models.

## The system

| component | state | operations | met by |
|---|---|---|---|
| user mode queue (`UserModeQueue.cc/.hh`, `Queue.hh`, `hsa_queue.cc`) | ring of packet slots, read and write index, doorbell signal, last handled doorbell, one "processed" mark per slot, flags Destroyed and Inactivated | load, store, add, compare-and-swap of the write index, load of the read index, create, destroy, inactivate | producers (client threads) and the packet processor share the ring without a lock |
| packet processor (`CPUKernelAgent::Execute`, the loop body) | local copies of the indices, position of the scan | notice the doorbell, scan, evaluate barriers, launch kernels, retire, complete | reads what producers publish, frees slots they reuse, sets signals clients wait for |
| kernel agent worker (`CPUKernelAgent.cc`, `Agent.hh`, `Queue.cc`) | list of queues under QueueLock, RunningQueue, InterruptingTheQueue, ShutDown | serve all queues in turn, land after an interruption, exit | `hsa_queue_inactivate` interrupts it with SIGUSR1 and `siglongjmp`; `hsa_queue_create` adds queues; `shutDown` joins it |
| runtime lifecycle (`Runtime.cc`, `CPURuntime.cc`, `hsa_runtime.cc`) | reference counter under a mutex, the instance pointer | `hsa_init`, `hsa_shut_down`, test and use in every API call | deletes the agent, the queues and the regions others may be using |
| fixed memory region (`FixedMemoryRegion.cc`) | map of chunks, free space mark | allocate, free | under one lock |
| heap memory region (`CPUMemoryRegion.cc`, `hsa_memory.cc`, `Runtime::freePointer`) | set of allocations per region under a lock | allocate, free, free in whichever region it is | packet processor, signals, queues, clients |
| signals (`GCCBuiltinSignal.cc`, `hsa_signal.cc`, `Atomic.hh`) | one value each, in memory of a region | create, destroy, load, store, read-modify-write, wait with timeout | everybody |
| object handles (`HSAObjectMapping.hh`) | registry per object type under a lock | register, look up, delete, collect | everybody |
| finalizer (`HSAILProgram.cc`, `GCCFinalizer.cc`, `FinalizedProgram.cc`, `DLFinalizedProgram.cc`, `hsa_finalize.cc`, `hsa_code.cc`) | programs with their BRIG modules, temporary directories and files, code objects with an image in memory and one on disk | create, add a module, finalize, serialize, deserialize, destroy, collect | threads that finalize at the same time share the file system |
| executables and symbols (`ELFExecutable.cc`, `Executable.hh`, `hsa_executable.cc`) | symbols, definitions of the host | load, freeze, define, look up, destroy | opens the image of a code object late |
| AMD extension (`hsa_ext_amd.cc`) | none of its own | memory pools (the regions), asynchronous copy, queries | signals, regions |
| queries, logging | none that others depend on | copy attributes out | |

What is hard about it: the lock-free ring between several producers and one
processor, with out-of-order publication and the reuse of slots; barriers that
wait for signals nobody rings for; a thread that is interrupted by a signal at
any instruction and jumps away; the deletion of the runtime under running calls;
handles that are addresses, which malloc gives to somebody else while a destructor
is still running; files that one object writes, another removes and a third opens
much later.

## Modules

### UserModeQueue

One queue: producers, ring, packet processor. Every access to memory that two
threads share is one action, in the order of the code. `MCUserModeQueue` has the
packet contents of the runs.

* Ring: `header` and `body` per slot stand for the packet buffer. A packet is
  named by its index; `content[i]` (type, fault, barrier bit, dependencies, has a
  completion signal) never changes, `body[s] = i` says that its bytes are in
  slot s. The processor reads packets through `body`, so that a slot overwritten
  too early shows up as the wrong packet.
* Producers follow the protocol of hsa.h: claim an index (`AddWriteIndex`,
  `LoadWriteIndex` + `CompareExchangeWriteIndex` or `StoreWriteIndex`), wait
  until `index - read_index < size`, write the body, write the header, ring the
  doorbell with the last index. Claim and rings may be batched.
  What the client does between the calls is external to this code.
* Processor: `CheckDoorBell` and `LoadIndices` are lines 202-230 of
  CPUKernelAgent.cc, `SkipInvalid` 248-261, `FetchBarrier`, `LoadDep`,
  `PassBarrier`, `StopAtBarrier` 263-306 (one load of a dependency per step),
  `FetchKernel` and `RunKernel` 308-375, `FetchUnsupported` 376-379, `Retire` 381,
  `AdvanceReadIndex` 382-391, `Complete` 393-395.
* Abstractions: what the kernel computes, its arguments and the arithmetic of
  its dimensions are reduced to the outcome of the packet (`Faults`). The
  INVALID_PACKET_FORMAT callback is unreachable in the code (the branch is only
  taken for kernel dispatch packets) and so it is here. `abort()` on a failing
  `posix_memalign` is left out. A signal is 1 until it is set to 0, which is all
  the processor does to signals. Indices do not wrap (64 bits).
* Memory is sequentially consistent. The code stores the header, the read index
  and the signals with plain or relaxed stores; on x86 these are not reordered
  with each other. Weaker machines are not modelled.

### PacketQueue, UserModeQueueRefinement

PacketQueue says what a queue promises, without ring, doorbell or scan: a packet goes
from unclaimed over claimed, published and launched to retired, once and in
this order; it is published only while there is a place, launched only when its
barrier allows it, its place is given back in index order, and its signal is set after it
was retired. UserModeQueueRefinement maps the ring to it (`StageOf`: the stage is
read off the write index, the history of launches and whether the slot still has
the packet's header) and states `ImplementsPacketQueue`.

### CPUKernelAgent

The worker over all queues of the agent and the calls that meet it. The work on
one queue is one stretch from `TestDoorBell` to `FinishWork`, since
UserModeQueue has its details. `terminateQueue` is five actions (`Announce`,
`Compare`, `Kill`, `Wait`, `Clear`), and `Interrupt` delivers a pending SIGUSR1
at any point of the worker, after which it resumes at `Land`. `getQueues` is two
actions, because the jump may leave between them with the lock held.
`hsa_queue_create` is two actions, `CheckLimit` (the unlocked comparison of the number
of queues with the maximum) and `RegisterQueue` (the insertion under the exclusive
lock). `hsa_queue_destroy` only sets a flag, and the queue stays in the list. The last `hsa_shut_down` is assumed to come after the other calls have returned.
The worker is started in the initializer list, before the members declared after it are
initialized; Execute stores RunningQueue and InterruptingTheQueue itself, and reads the
others only for a queue, which nobody can have created yet, so that the model starts
at the landing spot.

### Runtime

`initialize` and `release` step by step under ReferenceCounterMutex, API calls
that test the counter without it, and the worker from its start to its join.
`holders` are the threads with a reference of their own; `Guests` call the API
without one. A thread that has no reference calls `hsa_shut_down` only when there is no
runtime (it gets NOT_INITIALIZED): giving back the reference of somebody else is an
error of the client that the counter cannot notice.

### FixedMemoryRegion

The allocator: `allocate` is `AllocateTail`, `AllocateGap` or `AllocateFails`,
in this order of preference; `free` erases a chunk. The map's order is expressed
by quantifiers over the addresses, so that no recursion is needed. Requests have
at least one byte (the callers guarantee it) and at most RegionSize, so that no
sum exceeds 64 bits. CPUOnly, the platform in the repository, does not use this
class; it is its example for platforms with memories of their own.

### Signal

The value of a signal under all operations of hsa_signal.cc, as two's complement
numbers of `Width` bits (`Wrap`; a bitwise operation is the intersection, union or symmetric
difference of the positions of the `Bits`), the polling
`wait` with the conversion of its timeout hint (`ToStdPeriod`), and
`hsa_amd_memory_async_copy`, which waits for its dependencies in the calling thread.
The clients are external and chosen so that the answers of the operations matter:
lockers take a lock with `cas` or `exchange` (either, at each attempt), count
under it with plain loads and stores, set a bit with `or`, and join with
`subtract`, `add`, `xor` or `and`; a copier waits for them and stores 0 to its completion
signal, which starts at `DoneInit`; a waiter chooses among
waits with every condition and kind of hint. Memory order arguments have no effect, memory
being sequentially consistent here.

### Objects

Who owns which address. The two heap regions, malloc as a choice of any free address,
the registry from handles to signal objects, and the
constructors and destructors of signals and queues step by step: the value is allocated
before the signal is registered, and freed before it is taken out of the registry, so
that a new signal may be registered under the address in between (`Erase` removes the
entry only if it still leads to the object that dies). `hsa_memory_free` asks one region after the
other (`FreeInGlobal`, `FreeInGroup`). `ShutDown`, `CollectQueue` and `DeleteRegions` are
the order of ~Runtime. A failing allocation of a value or of a ring ends in
"crashed" (`SignalOutOfMemory`, `RingOutOfMemory`: the code goes on with the null pointer).

### Programs

From BRIG modules to callable kernels. A finalization is two steps, between which
other threads run: `StartFinalize` makes the directory and writes the BRIGs,
`FailFinalize`, `FinishFinalize` or `MismatchFinalize` is the compiler and what follows it.
Files are records of a directory, the code object they are for and their part;
`RemoveAll` removes a directory with all that is in it, as the destructor of a code
object does. A load opens the image when it needs an address (`dlhandle`), and
writes the host's definitions into it. PHSA_COMPILER_TEMP_DIR (all
finalizations share a directory) and the debug mode (nothing is removed) are chosen initially. A
kernel has the name of its module; mangling, symbol attributes, the parsing of BRIG and ELF and
the comparison of the control directives are reduced to their outcome.

### The modules of proofs

UserModeQueueProofs, UserModeQueueHistoryProofs (history of the packets and the refinement),
CPUKernelAgentProofs, RuntimeProofs, FixedMemoryRegionProofs, SignalProofs, ObjectsProofs and
ProgramsProofs hold the theorems. Each extends the module it is about, its inductive invariants
come first, then one lemma per action, at the end the theorems.

## Runs

Passing runs:

| run | question | size |
|---|---|---|
| umq_multi | two producers on a multi producer queue: is a packet ever lost, launched twice, overwritten, freed or completed too early, or a barrier passed without its condition? Is every claimed packet eventually done, although they publish and ring out of order, and is a barrier on a host signal looked at again at the next ring? Does the queue implement PacketQueue? | 206 k states |
| umq_single | does a single producer queue run its packets in order, each under its own index, and all of them? | 1.7 k |
| agent_inactivate | does `hsa_queue_inactivate` leave the queue at rest when it returns, and does it return, endless kernels included, if one client calls it? | 147 k |
| agent_service | without inactivation: is every queue served, does a creator that passed the check get the lock while the worker runs, does shutDown end? | 78 k |
| runtime | do counter, instance and worker agree between the calls, are threads that hold a reference safe, and the worker, and do init and shut-down return? A fourth thread calls the API without a reference. | 1.8 k |
| region | are chunks disjoint, aligned, inside, and when allocate gives up, is no place overlooked but those it does not consider (the last byte, what is below the lowest chunk or the stale mark)? | 35 k |
| signals | do locks and joins built on the answers of the read-modify-writes work, does the asynchronous copy wait for all its dependencies, does every wait answer truly and return? | 170 k |
| objects | is the registry exact and every address owned once while handles are used again, is everything freed where it came from, and what does the last shut-down leave? | 86 k |
| programs | do symbols stay callable, does a finalization keep its inputs, do definitions reach the image, is no file left, whatever fails or is destroyed between? | 733 k |

Runs that show where code and its own words disagree (TLC finds a violation):

| run | what happens |
|---|---|
| umq_host_barrier | a barrier found unsatisfied is not looked at again when its signals become 0, unless somebody rings; it does more than "delay" (hsa.h) |
| agent_hang | the worker enters `while (true) {}` because a client announced the interruption of a queue that does not run; no signal comes |
| agent_limit | two creators pass the unlocked comparison and exceed HSA_AGENT_INFO_QUEUES_MAX, the maximum of queues that are created and not destroyed |

agent_hang needs no start-up race: it is also found when the worker
starts behind its first landing.

Bounds. A ring of two slots and four packets are two laps, which is what slot
reuse, marks of an earlier lap and the scan of size + 1 indices need; the single
producer run has three laps. Two producers, who claim one packet or two at a time, give a claim behind and a
claim ahead of the packet in question; the theorems say the same of any number of producers for
every safety property of this run. Two dependencies (five in
the code) give a first and a last one. Two queues, two inactivating clients and
one ring per queue give every position of the worker relative to the clients (agent_inactivate); three queues, two of
them created late at a limit of two, and two rings each let a queue be rung again while another
is served, and both creators pass the check before either has registered (agent_service, agent_limit). A counter limit of two lets three threads overflow it. Ten
bytes from address 3, with sizes up to 3 and alignments up to 4, produce gaps of all
relations to size and alignment. Three bits make every value near an end of the range, and
give one hint for each case: a duration, a number too large for one, and UINT64_MAX. Four addresses for
up to three signals, two rings and any blocks force both reuse and exhaustion; two threads are one
destructor and one constructor at the same address, and addresses, objects, queues and
threads are symmetric. Two programs with two code objects are two finalizations at a time, of one program's modules or of
two, and a third module is of the wrong profile; one executable loads
both code objects in any order, with two values for a definition.

Deadlock. agent_service, runtime, region, signals, objects and programs check for
deadlock (a behaviour that has come to its proper end stutters). The other runs do not: a queue that
nobody rings any more, a worker in its endless loop and a client that was refused do stop.

Fairness. The processor and worker are one thread that never blocks (weak
fairness of its steps); a client that began an operation continues (weak fairness);
a pending signal is delivered; a host thread sets the signals it is waited for. Two assumptions are strong: a client in
`while (Q == RunningQueue) {}` reads the variable often enough not to miss
every change, and a thread that waits for the exclusive `boost::shared_mutex`
keeps later readers out, as that class does. In Signal every thread runs and time
passes (weak fairness); a spinning locker needs no more, since the holder unlocks
and does not come back. Nobody has to begin claiming a packet, ring for a queue of
CPUKernelAgent, inactivate, destroy or shut down, and nothing is assumed about who gets a `std::mutex` first.

Each property of a passing run has a mutant, a faulty variant of one modelled
definition that breaks it ("Faulty variant" in the modules). They are not part
of the specifications.

## Theorems

Every theorem holds for all values of the constants that the named assumption allows; the
assumptions stand in the component's module, and TLC evaluates them in its runs. The
inductive invariants are conjunctions of named parts, and no
property below but the allocator's two first is inductive without further parts.

**The queue, its ring** (UserModeQueueProofs), from `QueueAssumption`: any ring size,
any set of producers, any number and content of packets, batches up to the ring
size, and `store` used only by the one producer of a SINGLE queue.

* `TypeCorrect`: Spec => []TypeOK
* `SlotsExclusive`: Spec => []SlotExclusive, the exclusion of processor and
  producers from each other's slot.

`IInv` adds
`CursorInv` (the processor's indices lie between the shared ones),
`ClaimInv` (claims of different producers are disjoint intervals above the
read index and below the write index, and a producer past its wait is less than a ring
ahead of the read index) and `RingInv` (a slot whose header is set, whose mark is
set, or which was just retired is `Occupied`: it holds the body of a published
packet of the window of `Size` indices from the read index on). The key argument is
`OwnSlotFree`: a producer's packet is in the window and unpublished, an occupied
slot holds a published packet of the window, and two packets of one
window in the same slot are the same packet (`SameSlot`, arithmetic of `%`). Hence
the write hits no occupied slot.

**The queue, its packets** (UserModeQueueHistoryProofs), from `QueueAssumption`, on top of
`IInv`. The section "What the steps do to the packets" says once, for each action, which
packets become published, leave the ring or are launched; all that follows cites it.

* `LaunchesOnce`, `FreesDone`: Spec => []LaunchedOnce, Spec => []FreedAreDone. `HistInv` relates
  the history to the ring: a published packet is in the ring or launched, and both only while the
  processor is about to retire it; what lies below the read index or is marked as processed
  was launched.
* `BarriersRespected`: Spec => []BarrierRespected. The processor reads the dependencies one by
  one; `BarrierInv` says that those it has passed are 0 and remembers that signals only
  fall (`SignalsFall`).
* `PacketIdsNear`: Spec => []PacketIdNear. `NearInv` follows the index from the producer's ring
  through the doorbell to the end of the scan: it is never more than a ring past the read
  index, which only grows.
* `SingleProducerInOrder`: Type = "SINGLE" => (Spec => []InOrder). `OrderInv`: below the doorbell
  everything is published, so that the scan never skips, never marks and always stands
  at the read index. With several producers the claim is false, and that is why
  the type is a hypothesis.
* `Refines`: Spec => ImplementsPacketQueue (PacketQueue states no fairness). `RInv` adds
  `CompletionInv` (the completion signal in hand is that of the packet in the current slot). One
  lemma for each abstract step: `ClaimRefines`, `PublishRefines`,
  `LaunchRefines`, `RetireRefines`, `FreeRefines`, `CompleteRefines`; all other steps leave
  the stages and the signals (`Stutter`). The abstract guard of a launch comes from
  BarrierInv, the one of a retirement from HistInv.

**The kernel agent** (CPUKernelAgentProofs), from `AgentAssumption`: any finite
number of queues, creators and clients, any maximum.

* `AgentTypes`: Spec => []TypeOK. That the number of readers stays natural needs `HoldInv`: the
  worker gives QueueLock back only while it holds it, wherever the interruption jumps.
* `InactivatedIsQuiet`: Spec => []NoWorkAfterInactivate, an argument in the style of Dekker's algorithm:
  the client sets the flag and then reads RunningQueue, the worker sets RunningQueue and then
  reads the flag. `FlagInv` keeps the flag, `RunInv` the name of the queue, and `QuietInv`
  says that from the client's look at RunningQueue on the worker is either not at its
  queue or has yet to read the flag.

**The runtime** (RuntimeProofs), from `RuntimeAssumption`: any finite set of threads, any limit of
the counter.

* `InstanceFollowsCount`, `CounterCounts`, `HoldersAreSafe`, `WorkerIsSafe`: InstanceMatchesCount,
  CountIsHolders, OwnersAreSafe, WorkerFindsInstance.

`MutexInv`: the steps of init and shut-down are taken by the holder of ReferenceCounterMutex.
`CountInv`: the counter is the number of holders (cardinality lemmas of
FiniteSetTheorems), and what the thread inside the mutex has learned of it is still so.
`LifeInv`: what there is of the runtime and its worker at each step inside the mutex; outside, both
exist exactly if there are holders. `UserInv`: who uses the runtime holds a reference or is a
guest. A holder finds the instance because the last shut-down has only
one holder, himself inside the mutex (`HolderFindsInstance`).

**The allocator** (FixedMemoryRegionProofs), from `RegionAssumption`:

* `RegionTypeCorrect`, `ChunksDisjoint`: Spec => []TypeOK, Spec => []NoOverlap; the
  two together are inductive. `TailIsFree` and `GapIsFree` show that the place
  allocate picks is free, `InsertStep` that a chunk put into a free place keeps the
  chunks disjoint.
* `ChunksKept`: Spec => AllocateKeeps, with `Aligned` for the alignment arithmetic.
* `SearchMissesNothingElse`: Spec => []NoOtherPlaceMissed. The property knows the whole region (`Fits`:
  every byte of the request lies in it, the last one included) and names what allocate does not
  consider (`NotConsidered`). Any other free and aligned place lies behind the chunk with the greatest
  end below it and before the next one (`Greatest`, `Least`: a set of bounded numbers has
  extreme members); the first aligned address of that gap is no later (`FirstAligned`), so that the
  search tries it (`SearchIsComplete`). Without chunks it lies behind the mark, where
  the first attempt looks (`EmptySearchIsComplete`).

**Signals** (SignalProofs), from `SignalAssumption`: any width from two bits on, any
finite set of lockers with a bit each, any number of copiers and waiters, any dependencies, any waits.

* `LockCounts`: Spec => []LockedCount. `LockInv`: the lock is free only if nobody holds it, at most one
  holds it, and what the holder has loaded is still the count when he stores. That the count stays the
  wrapped number of those who counted rests on `WrapPlus`: wrapping after each
  addition is the same as wrapping once.
* `SignalTypes`: Spec => []TypeOK. `PlaceInv` adds which thread is at which place and in which
  wait. That a bitwise operation has a result of the width at all is `OfBitsIs`.
* `CopiesAfterDeps`: AwaitsJoin => (Spec => []CopyAfterDeps). The hypothesis: the signal that is joined
  on is among `dep_signals`, without which the copy waits for nobody. `JoinInv` says what the
  signal holds while `Left`, a set of lockers, has yet to announce itself: the wrapped number of them (add,
  subtract) or exactly their bits (xor, and). It is 0 only when `Left` is empty
  (`JoinZero`): bits are different, so that there are no more lockers than positions
  and their number does not wrap to 0 (`LockersFit`). `CopyInv` carries that from the
  load to the copy, because `Left` only shrinks; a wait with UINT64_MAX does not end otherwise (`DepWaitEnds`).
* `WaitsAnswer`: LastingWaits => (Spec => []WaitAnswers). The hypothesis: the waits are for what stays true
  (a copy is made, some bit or all bits of the mask are set), and nobody's bit is the sign bit. Both are needed: a wait
  can return on a value that is gone by then, and a mask with the sign bit is a negative
  number, for which `GTE` says nothing of the other bits. `MaskInv`: the mask is the bits of those who
  set theirs; `DoneInv`: the completion signal falls only after a copy; `MetInv`: what a wait has seen is
  still so; `TimeInv`: a wait was given up after its time only. `MaskFull`: a mask not less than
  all bits has all of them, by the order of numbers and their bits (`BitsOrder`).

The instance of the signals run satisfies both hypotheses. The facts on powers of two and bits that
this takes are proved for every width and not assumed: `Power` is a recursive function in place
of `^`, of which the provers know nothing, and induction is by the least
counterexample (`Least`, from WFMin of WellFoundedInduction, which is about sets and takes no
operator; `Induction`). `PowerIs` gives the recursion, `NumberOf` a number for every set of
positions, `FewerBits` and `WrapBits` that it is the only one.

**Object handles and memory** (ObjectsProofs), from `ObjectsAssumption`: any number of threads,
addresses, signals and queues.

* `RegistryIsExact`, `AddressesAreApart`, `FreesWhereAllocated`, `ShutDownLeavesClients`:
  RegistryExact, OneOwner, FreedWhereAllocated, ShutDownLeaves.

One invariant gives all four. `CallInv`, `ApartInv`: what a call has in hand at each of
its steps, and no two calls the same. `PhaseInv`: at shut-down the calls
of clients are over, and the regions outlive the collection of queues. `QueueInv`: a queue
under construction is in the hand of one call. `RegionInv`: every address is in
the region its owner will give it back to. `SignalInv`: every signal object has exactly one who deletes it: the
call that has it in hand, the client with the handle, or the queue whose doorbell it is.
`RegistryInv`: the registry and the objects are inverse to each other, but for objects
between two steps of their constructor or destructor. Each action adds, removes or replaces one owner
(`OwnerAdded`, `OwnerRemoved`, `OwnerReplaced`) or none (`OwnersStay`).

**Programs, code objects, executables** (ProgramsProofs), from `ProgramsAssumption`: any number of each.

* `SymbolsStayCallable`, `InputsStay`, `NothingLeft`, `DefinitionsAreSeen`:
  SymbolsCallable, InputsKept, NoFileLeft, DefinitionsSeen.

`MakingInv`: a finalization under way holds on to its program. `TempInv`: the temporary files of
a program were written for its own finalizations, so that destroying another
program takes none away. `DirInv`: without PHSA_COMPILER_TEMP_DIR every code object has its own
directory, with the binary of a live one in it. `LeftInv`: out of debug mode every file and every directory has an
owner, and after shut-down there are no owners of files. `ImageInv`: an image that is not
mapped holds no definitions, a mapped one has users, and who loaded a code object has symbols.

**Only model-checked.** The liveness properties (EveryPacketDone, NextRingRechecks, InactivateReturns,
RungIsServed, CreateReturns, ShutDownReturns, MutexReleased, WaitsReturn): liveness under fairness is out of the
prover's reach. Every invariant and action property of the passing runs, and the refinement, is a
theorem. The three refuted claims of the violation runs have nothing to prove.

## Not modelled

Not modelled: `hsa_queue_store_read_index`, with which a client that serves a soft queue
of its own frees its slots (the runtime does not look at such a queue); the null entries
that `fromHandle` leaves in the registry of symbols when a packet names an unknown kernel (nothing
iterates over that registry); a packet that is cut off in the middle by an interruption.

Left out for good: attribute queries and iterations, logging, image and AMD stubs (no state that
anything depends on), StdAtomicSignal (no platform uses it); the compiler and linker the finalizer runs; kernels; memory
models weaker than x86. About three quarters of the repository's lines are the two copies of
the public headers and `Brig.h`, declarations and their documentation; the rest, some 6200
lines of `.cc` and `.hh`, is what the map covers about a third of, and most of what
it leaves there is class declarations, attribute queries, stubs and licence headers.

## Met while modelling

Beside what the three violation runs show. Not stated as runs of their own: nothing in the repository says
otherwise in so many words, one line of the code shows it by itself, or it lies outside the models.

The queue and its agent:

* The barrier bit of a packet header is never read (hsa.h:1805-1807): a packet with the bit is launched
  while an earlier one is still being written.
* The interruption can hit the work of another queue than the one to inactivate, against
  the comment at CPUKernelAgent.cc:132-136: the worker may move on between the comparison and the
  delivery, find the announcement cleared already, and lose the packet it is at.
* Two clients that inactivate different queues at the same time can wait for each
  other forever (`Landed` erases the announcement of the other one); hence
  InactivateReturns is about a client that is alone in the call.
* A signal that hits the worker in `getQueues` leaves QueueLock locked (`Interrupt`
  between `LockQueues` and `CopyQueues`), and later creators wait forever; hence
  CreateReturns is checked without inactivation.
* The number of queues that is compared with the maximum counts destroyed ones, so that a creator
  can also be refused below it.
* `hsa_queue_destroy` only marks the queue: ring, doorbell and the place in the list of queues stay
  until the runtime is deleted, although hsa.h:1554-1556 says that they are released. In
  Objects the rings of destroyed queues are therefore owned until shut-down, and OneOwner and
  ShutDownLeaves count them so.
* The size test `size & (size - 1) != 0` (hsa_queue.cc:44) parses as
  `size & ((size - 1) != 0)` and lets even sizes pass that are no power of two; the
  processor uses `%`, and the theorems hold for every size.

Signals, memory and the runtime:

* A call by a thread without a reference of its own can reach
  `assert(Instance != nullptr)` after the last shut-down reset it; hence
  OwnersAreSafe is about the threads that hold one.
* A wait can miss a value that the signal has only for a moment, as hsa.h:1246-1250 allows.
* A timeout hint from 2^63 on becomes a negative duration, and the wait returns after one look;
  only UINT64_MAX is treated apart. WaitAnswers allows for it.
* StdAtomicSignal's compare-and-swap returns whether it succeeded, not the value it found.
* When memory is exhausted, the constructors of signals and rings write through the null
  pointer they got.
* Signals are not collected at shut-down, nor are executables.
* `hsa_amd_memory_async_copy` stores 0 to its completion signal, which hsa_ext_amd.h:786-788 says is
  decremented; copies that share a signal are all announced by the first. The run has one copy and a signal
  that starts at 2.
* A fixed region never hands out its last byte behind the chunks (the end of the request is compared with
  the address of the last byte, FixedMemoryRegion.cc:52-54), and after all its chunks are freed the
  space below the old mark is lost (line 45): requests that fit abort, against the comment at
  lines 32-34. NoOtherPlaceMissed names these two and the space below the lowest chunk, which
  that comment leaves out too, and says that nothing else is missed.

Programs:

* With PHSA_COMPILER_TEMP_DIR set, destroying one code object removes the files of all, and
  later loads succeed with symbols at address 0; SymbolsCallable and InputsKept are about the default.
* A failed finalization leaves its directory behind, without files; NoFileLeft allows for it.
  `mkdtemp` is called inside an `assert`, hence only in builds with assertions.
* Definitions made after a load never reach the image, and two executables that load
  one code object share it; DefinitionsSeen is about one executable that defines first.
  A definition after freeze is accepted (hsa.h:3180-3182).
* A second definition of a name is accepted as well and replaces the first (Executable.hh:122-125);
  VARIABLE_ALREADY_DEFINED (hsa.h:3272-3273) is never returned. DefinitionsSeen is about the definition in force
  at the load.
* The control directives are loaded into a copy and lost (FinalizedProgram.cc:83,
  FinalizedProgram.hh:74-76).
* `hsa_code_object_serialize` never stores the size it promises (hsa.h:2678-2681).
