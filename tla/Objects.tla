------------------------------ MODULE Objects ------------------------------
(***************************************************************************)
(* Who owns memory and handles: the heap regions of CPUMemoryRegion.cc,    *)
(* the registry of signals of HSAObjectMapping.hh, the constructors and    *)
(* destructors of signals and queues, the client calls that create and     *)
(* destroy them, and what ~Runtime collects at the last hsa_shut_down.     *)
(*                                                                         *)
(* The handle of a signal is the address of its value, memory of a region, *)
(* not of the object; malloc may hand out an address again as soon as it   *)
(* is freed.  A critical section (of AllocationsLock, of a RegistryLock)   *)
(* is one step.  Clients keep the rules of hsa.h: a thing is destroyed     *)
(* once, by one thread, and the last hsa_shut_down comes after every other *)
(* call has returned.  Calls that their argument checks refuse change      *)
(* nothing and are left out.                                               *)
(***************************************************************************)
EXTENDS FiniteSets

CONSTANTS
  Threads,      \* client threads
  Addrs,        \* addresses that malloc can hand out
  Objs,         \* GCCBuiltinSignal objects that can exist at a time
  Qs,           \* queues that are created in a behaviour
  RT,           \* the thread that runs ~Runtime
  NULL

ASSUME ObjectsAssumption ==
  /\ RT \notin Threads
  /\ NULL \notin Addrs \cup Objs \cup Qs
  \* Addresses, objects, queues and threads are different things.
  /\ Addrs \cap (Objs \cup Qs \cup Threads) = {}
  /\ Objs \cap (Qs \cup Threads) = {} /\ Qs \cap Threads = {}

Regions == {"global", "group"}

VARIABLES
  regions,      \* the memory regions that exist
  Allocations,  \* per region: the addresses it has handed out
  taken,        \* addresses that malloc has handed out
  Registry,     \* Signal's registry, from handles to objects
  alive,        \* signal objects whose memory is not deleted
  CurrentValue, \* per object: the address of its value
  queue,        \* per queue: where it is in its life, its region, ring, doorbell
  handles,      \* signals the clients have and have not begun to destroy
  blocks,       \* memory the clients have and have not begun to free
  call,         \* per thread: the step its call does next, and on what
  phase         \* of the runtime: "up", "collect", "off", or "crashed"

memVars == <<regions, Allocations, taken>>
sigVars == <<Registry, alive, CurrentValue>>
vars == <<memVars, sigVars, queue, handles, blocks, call, phase>>

Idle == [step |-> "idle", obj |-> NULL, ptr |-> NULL, q |-> NULL]
NoQueue == [state |-> "none", region |-> "global", ring |-> NULL,
            doorbell |-> NULL, owned |-> FALSE, destroyed |-> FALSE]

\* CPURuntime::CPURuntime has set up the two regions.
Init ==
  /\ regions = Regions
  /\ Allocations = [r \in Regions |-> {}]
  /\ taken = {}
  /\ Registry = [h \in Addrs |-> NULL]
  /\ alive = {}
  /\ CurrentValue = [o \in Objs |-> NULL]
  /\ queue = [q \in Qs |-> NoQueue]
  /\ handles = {} /\ blocks = {}
  /\ call = [t \in Threads \cup {RT} |-> Idle]
  /\ phase = "up"

Step(t, step, c) == call' = [call EXCEPT ![t] = [c EXCEPT !.step = step]]
Return(t) == call' = [call EXCEPT ![t] = Idle]

----------------------------------------------------------------------------
(* CPUMemoryRegion and Runtime::freePointer.                               *)

Full == taken = Addrs   \* posix_memalign fails

allocate(r, a) ==
  /\ a \notin taken
  /\ taken' = taken \cup {a}
  /\ Allocations' = [Allocations EXCEPT ![r] = @ \cup {a}]
  /\ UNCHANGED regions

\* A pointer that the region did not hand out is left alone.
Owns(r, a) == r \in regions /\ a \in Allocations[r]
free(r, a) ==
  /\ IF Owns(r, a)
     THEN /\ taken' = taken \ {a}
          /\ Allocations' = [Allocations EXCEPT ![r] = @ \ {a}]
     ELSE UNCHANGED <<taken, Allocations>>
  /\ UNCHANGED regions

\* hsa_memory_allocate, hsa_amd_memory_pool_allocate: HSA_STATUS_SUCCESS, or
\* HSA_STATUS_ERROR_OUT_OF_RESOURCES, which changes nothing.
MemoryAllocate(t) ==
  /\ call[t] = Idle
  /\ \E r \in Regions, a \in Addrs : allocate(r, a) /\ blocks' = blocks \cup {a}
  /\ UNCHANGED <<sigVars, queue, handles, call, phase>>

\* hsa_memory_free, hsa_amd_memory_pool_free: Runtime::freePointer asks one
\* region after the other.
MemoryFree(t) ==
  /\ call[t] = Idle
  /\ \E a \in blocks :
       /\ blocks' = blocks \ {a}
       /\ Step(t, "free_global", [Idle EXCEPT !.ptr = a])
  /\ UNCHANGED <<memVars, sigVars, queue, handles, phase>>

\* Faulty variant: only the first region is asked.
FreeInFirstRegion(t) ==
  /\ call[t].step = "free_global"
  /\ free("global", call[t].ptr)
  /\ Return(t)
  /\ UNCHANGED <<sigVars, queue, handles, blocks, phase>>

FreeInGlobal(t) ==
  /\ call[t].step = "free_global"
  /\ free("global", call[t].ptr)
  /\ IF Owns("global", call[t].ptr) THEN Return(t) ELSE Step(t, "free_group", call[t])
  /\ UNCHANGED <<sigVars, queue, handles, blocks, phase>>

FreeInGroup(t) ==
  /\ call[t].step = "free_group"
  /\ free("group", call[t].ptr)
  /\ Return(t)
  /\ UNCHANGED <<sigVars, queue, handles, blocks, phase>>

----------------------------------------------------------------------------
(* Signals.                                                                *)

\* GCCBuiltinSignal's constructor: the address, and the value written there;
\* it is not known to the registry before it is complete.
ConstructSignal(t, c) ==
  \E o \in Objs \ alive, a \in Addrs :
    /\ allocate("global", a)
    /\ alive' = alive \cup {o}
    /\ CurrentValue' = [CurrentValue EXCEPT ![o] = a]
    /\ Step(t, "register", [c EXCEPT !.obj = o])
    /\ UNCHANGED Registry

\* hsa_signal_create
SignalCreate(t) ==
  /\ call[t] = Idle
  /\ ConstructSignal(t, Idle)
  /\ UNCHANGED <<queue, handles, blocks, phase>>

\* registerObject, the last statement of the constructor; then the call
\* returns the handle, or the queue's constructor goes on to its end.
RegisterSignal(t) ==
  LET o == call[t].obj
      q == call[t].q
  IN  /\ call[t].step = "register"
      /\ Registry' = [Registry EXCEPT ![CurrentValue[o]] = o]
      /\ IF q = NULL
         THEN handles' = handles \cup {CurrentValue[o]} /\ UNCHANGED queue
         ELSE /\ queue' = [queue EXCEPT ![q].state = "up", ![q].owned = TRUE,
                                        ![q].doorbell = CurrentValue[o]]
              /\ UNCHANGED handles
      /\ Return(t)
      /\ UNCHANGED <<memVars, alive, CurrentValue, blocks, phase>>

\* The value is written through the null pointer that allocate returned.
SignalOutOfMemory(t) ==
  /\ call[t] = Idle \/ call[t].step = "doorbell"
  /\ Full /\ Objs # alive
  /\ phase' = "crashed"
  /\ UNCHANGED <<memVars, sigVars, queue, handles, blocks, call>>

\* hsa_signal_destroy: fromHSAObject, and the signal is deleted if it is
\* found; a handle that is not in the registry is HSA_STATUS_ERROR_INVALID_SIGNAL.
SignalDestroy(t) ==
  /\ call[t] = Idle
  /\ \E h \in handles :
       /\ handles' = handles \ {h}
       /\ IF Registry[h] = NULL THEN UNCHANGED call
          ELSE Step(t, "free_value", [Idle EXCEPT !.obj = Registry[h]])
  /\ UNCHANGED <<memVars, sigVars, queue, blocks, phase>>

\* ~GCCBuiltinSignal gives the address back,
FreeValue(t) ==
  /\ call[t].step = "free_value"
  /\ free("global", CurrentValue[call[t].obj])
  /\ Step(t, "erase", call[t])
  /\ UNCHANGED <<sigVars, queue, handles, blocks, phase>>

\* Faulty variant: the entry is looked up by the handle.
EraseByHandle(t) ==
  LET o == call[t].obj
  IN  /\ call[t].step = "erase"
      /\ Registry' = [Registry EXCEPT ![CurrentValue[o]] = NULL]
      /\ alive' = alive \ {o}
      /\ CurrentValue' = [CurrentValue EXCEPT ![o] = NULL]
      /\ Return(t)
      /\ UNCHANGED <<memVars, queue, handles, blocks, phase>>

\* and ~HSAObjectMapping looks for the entry of this object: the address may
\* belong to another signal by now.  Then the object is gone.
Erase(t) ==
  LET o == call[t].obj
  IN  /\ call[t].step = "erase"
      /\ Registry' = [h \in Addrs |-> IF Registry[h] = o THEN NULL ELSE Registry[h]]
      /\ alive' = alive \ {o}
      /\ CurrentValue' = [CurrentValue EXCEPT ![o] = NULL]
      /\ Return(t)
      /\ UNCHANGED <<memVars, queue, handles, blocks, phase>>

----------------------------------------------------------------------------
(* Queues.                                                                 *)

\* hsa_queue_create, hsa_soft_queue_create: the base class enters the queue
\* into Queue::Registry before anything else; d is the client's doorbell.
QueueCreate(t, r, d) ==
  /\ call[t] = Idle
  /\ d # NULL => Registry[d] # NULL
  /\ \E q \in Qs :
       /\ queue[q].state = "none"
       /\ queue' = [queue EXCEPT ![q].state = "base", ![q].region = r, ![q].doorbell = d]
       /\ Step(t, "ring", [Idle EXCEPT !.q = q])
  /\ UNCHANGED <<memVars, sigVars, handles, blocks, phase>>

\* The ring, and the doorbell unless the client has given one.
AllocateRing(t) ==
  LET q == call[t].q
  IN  /\ call[t].step = "ring"
      /\ \E a \in Addrs :
           /\ allocate(queue[q].region, a)
           /\ IF queue[q].doorbell = NULL
              THEN /\ queue' = [queue EXCEPT ![q].ring = a]
                   /\ Step(t, "doorbell", call[t])
              ELSE /\ queue' = [queue EXCEPT ![q].ring = a, ![q].state = "up"]
                   /\ Return(t)
      /\ UNCHANGED <<sigVars, handles, blocks, phase>>

\* The packets are initialized through a null pointer.
RingOutOfMemory(t) ==
  /\ call[t].step = "ring" /\ Full
  /\ phase' = "crashed"
  /\ UNCHANGED <<memVars, sigVars, queue, handles, blocks, call>>

MakeDoorbell(t) ==
  /\ call[t].step = "doorbell"
  /\ ConstructSignal(t, call[t])
  /\ UNCHANGED <<queue, handles, blocks, phase>>

\* hsa_queue_destroy: a mark; the queue is collected at shut down.
QueueDestroy(t) ==
  /\ call[t] = Idle
  /\ \E q \in Qs : /\ queue[q].state = "up" /\ ~ queue[q].destroyed
                   /\ queue' = [queue EXCEPT ![q].destroyed = TRUE]
  /\ UNCHANGED <<memVars, sigVars, handles, blocks, call, phase>>

----------------------------------------------------------------------------
(* ~Runtime: the agents first, then Queue::garbageCollect, then the        *)
(* regions.  Signals and the clients' memory are left.                     *)

ShutDown ==
  /\ phase = "up"
  /\ \A t \in Threads : call[t] = Idle
  /\ phase' = "collect"
  /\ UNCHANGED <<memVars, sigVars, queue, handles, blocks, call>>

\* Faulty variant: the doorbell is deleted whoever made it.
CollectQueueAndDoorbell ==
  /\ phase = "collect" /\ call[RT] = Idle
  /\ \E q \in Qs :
       /\ queue[q].state = "up"
       /\ free(queue[q].region, queue[q].ring)
       /\ queue' = [queue EXCEPT ![q].state = "deleted"]
       /\ IF Registry[queue[q].doorbell] # NULL
          THEN Step(RT, "free_value", [Idle EXCEPT !.obj = Registry[queue[q].doorbell]])
          ELSE UNCHANGED call
  /\ UNCHANGED <<sigVars, handles, blocks, phase>>

\* ~UserModeQueue
CollectQueue ==
  /\ phase = "collect" /\ call[RT] = Idle
  /\ \E q \in Qs :
       /\ queue[q].state = "up"
       /\ free(queue[q].region, queue[q].ring)
       /\ queue' = [queue EXCEPT ![q].state = "deleted"]
       /\ IF queue[q].owned
          THEN Step(RT, "free_value", [Idle EXCEPT !.obj = Registry[queue[q].doorbell]])
          ELSE UNCHANGED call
  /\ UNCHANGED <<sigVars, handles, blocks, phase>>

\* Faulty variant: the regions are deleted while queues are left.
DeleteRegionsFirst ==
  /\ phase = "collect" /\ call[RT] = Idle
  /\ regions' = {}
  /\ phase' = IF \A q \in Qs : queue[q].state # "up" THEN "off" ELSE "collect"
  /\ UNCHANGED <<Allocations, taken, sigVars, queue, handles, blocks, call>>

DeleteRegions ==
  /\ phase = "collect" /\ call[RT] = Idle
  /\ \A q \in Qs : queue[q].state # "up"
  /\ regions' = {}
  /\ phase' = "off"
  /\ UNCHANGED <<Allocations, taken, sigVars, queue, handles, blocks, call>>

----------------------------------------------------------------------------
Client(t) ==
  \/ MemoryAllocate(t) \/ MemoryFree(t) \/ FreeInGlobal(t) \/ FreeInGroup(t)
  \/ SignalCreate(t) \/ RegisterSignal(t) \/ SignalDestroy(t)
  \/ QueueCreate(t, "global", NULL)
  \/ \E r \in Regions, h \in handles : QueueCreate(t, r, h)
  \/ AllocateRing(t) \/ MakeDoorbell(t) \/ QueueDestroy(t)
  \/ SignalOutOfMemory(t) \/ RingOutOfMemory(t)

Next ==
  \/ \E t \in Threads : phase = "up" /\ Client(t)
  \/ \E t \in Threads \cup {RT} : phase \in {"up", "collect"} /\ (FreeValue(t) \/ Erase(t))
  \/ ShutDown \/ CollectQueue \/ DeleteRegions
  \/ phase \in {"off", "crashed"} /\ UNCHANGED vars

Spec == Init /\ [][Next]_vars

----------------------------------------------------------------------------
(* Properties                                                              *)

\* Where the destruction of a signal has come to.
At(o, step) == \E t \in Threads \cup {RT} : call[t].step = step /\ call[t].obj = o
Registered(o) == o \in alive /\ ~ At(o, "register") /\ ~ At(o, "erase")

\* A complete signal is found under its handle until its destructor runs, also
\* when its address belonged to a signal whose destructor has not ended yet
\* and still has to take itself out of the registry; and no handle leads to a
\* deleted object.
RegistryExact ==
  /\ \A o \in Objs : Registered(o) => Registry[CurrentValue[o]] = o
  /\ \A h \in Addrs : Registry[h] # NULL => Registry[h] \in alive /\ CurrentValue[Registry[h]] = h
  /\ \A h \in handles : Registry[h] # NULL

\* What has an address from malloc: values of signals, rings, the clients'
\* memory and what a call is about to free.
Owners ==
  {o \in alive : ~ At(o, "erase")} \cup {q \in Qs : queue[q].ring # NULL /\ queue[q].state # "deleted"}
    \cup blocks \cup {t \in Threads : call[t].ptr # NULL}
AddressOf(x) ==
  CASE x \in Objs -> CurrentValue[x]
    [] x \in Qs -> queue[x].ring
    [] x \in Addrs -> x
    [] x \in Threads -> call[x].ptr

\* No two of them share an address, and none has an address that was freed,
\* however creations and destructions interleave.
OneOwner ==
  /\ \A x, y \in Owners : AddressOf(x) = AddressOf(y) => x = y
  /\ taken = {AddressOf(x) : x \in Owners}

\* Whatever is freed while the runtime exists is freed into the region it
\* came from, which is still there: free does not return false unnoticed.
FreedWhereAllocated ==
  \A t \in Threads \cup {RT} :
    /\ call[t].step = "free_value" => Owns("global", CurrentValue[call[t].obj])
    /\ call[t].step = "free_group" => Owns("group", call[t].ptr)

\* After the last hsa_shut_down nothing is left of the queues, their rings and
\* their own doorbells, and everything the clients have is left: the doorbell
\* of a soft queue too ("We must not destroy doorbell signal in case of soft
\* queue"), which may have been destroyed before the queue.
ShutDownLeaves ==
  phase = "off" =>
    /\ taken = handles \cup blocks
    /\ alive = {Registry[h] : h \in handles}
============================================================================
