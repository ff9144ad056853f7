------------------------------ MODULE Runtime ------------------------------
(***************************************************************************)
(* The life of the runtime: hsa_init and hsa_shut_down count references    *)
(* under ReferenceCounterMutex, create the one CPURuntime with its agent   *)
(* and delete it again, while other threads make API calls.  Such a call   *)
(* tests Runtime::isInitialized without a lock and then uses what          *)
(* Runtime::get returns.  The agent's worker thread (CPUKernelAgent) is    *)
(* here only its start, its polling of a queue, which calls Runtime::get   *)
(* too, and its end.                                                       *)
(*                                                                         *)
(* InstanceMutex is only ever taken by the holder of ReferenceCounterMutex *)
(* and left out.                                                           *)
(***************************************************************************)
EXTENDS Integers, FiniteSets

CONSTANTS
  Threads,    \* client threads
  Guests,     \* those that call the API without a reference of their own
  MaxCount,   \* numeric_limits<int32_t>::max()
  NULL        \* nullptr

ASSUME RuntimeAssumption ==
  /\ IsFiniteSet(Threads)
  /\ Guests \subseteq Threads
  /\ MaxCount \in Nat \ {0}
  /\ NULL \notin Threads \cup {"live", "deleted"}

VARIABLES
  ReferenceCounter,
  mutex,        \* the thread that holds ReferenceCounterMutex
  Instance,     \* NULL, or a runtime that is "live" or "deleted"
  ShutDown,     \* the flag of CPUKernelAgent.cc
  worker,       \* the agent's thread
  queue,        \* the agent has a queue
  pc,           \* where each thread is in its call
  holders       \* threads whose hsa_init returned success

vars == <<ReferenceCounter, mutex, Instance, ShutDown, worker, queue, pc, holders>>
agentVars == <<ShutDown, worker, queue>>

Init ==
  /\ ReferenceCounter = 0
  /\ mutex = NULL
  /\ Instance = NULL
  /\ ShutDown = FALSE /\ worker = "none" /\ queue = FALSE
  /\ pc = [t \in Threads |-> "idle"]
  /\ holders = {}

Goto(t, label) == pc' = [pc EXCEPT ![t] = label]
Return(t) == Goto(t, "idle") /\ mutex' = NULL
----------------------------------------------------------------------------
(* hsa_init                                                                *)

\* A thread takes one reference at most; the runtime cannot tell threads apart.
CallInit(t) ==
  /\ pc[t] = "idle" /\ t \notin holders \cup Guests
  /\ mutex = NULL
  /\ mutex' = t
  /\ Goto(t, "init")
  /\ UNCHANGED <<ReferenceCounter, Instance, agentVars, holders>>

\* Faulty variant: success is returned for a reference that is not counted.
InitOverflowSucceeds(t) ==
  /\ pc[t] = "init" /\ ReferenceCounter = MaxCount
  /\ Return(t)
  /\ holders' = holders \cup {t}
  /\ UNCHANGED <<ReferenceCounter, Instance, agentVars>>

\* HSA_STATUS_ERROR_REFCOUNT_OVERFLOW
InitOverflow(t) ==
  /\ pc[t] = "init" /\ ReferenceCounter = MaxCount
  /\ Return(t)
  /\ UNCHANGED <<ReferenceCounter, Instance, agentVars, holders>>

\* new CPURuntime: the agent's worker runs before Instance is assigned.
Construct(t) ==
  /\ pc[t] = "init" /\ ReferenceCounter = 0
  /\ worker' = "loop" /\ queue' = FALSE
  /\ Goto(t, "assign")
  /\ UNCHANGED <<ReferenceCounter, mutex, Instance, ShutDown, holders>>

AssignInstance(t) ==
  /\ pc[t] = "assign"
  /\ Instance' = "live"
  /\ Goto(t, "increment")
  /\ UNCHANGED <<ReferenceCounter, mutex, agentVars, holders>>

InitAgain(t) ==
  /\ pc[t] = "init" /\ ReferenceCounter \in 1 .. MaxCount - 1
  /\ Goto(t, "increment")
  /\ UNCHANGED <<ReferenceCounter, mutex, Instance, agentVars, holders>>

Increment(t) ==
  /\ pc[t] = "increment"
  /\ ReferenceCounter' = ReferenceCounter + 1
  /\ holders' = holders \cup {t}
  /\ Return(t)
  /\ UNCHANGED <<Instance, agentVars>>

----------------------------------------------------------------------------
(* hsa_shut_down                                                           *)

\* A thread that has no reference to give back calls it at most by mistake,
\* when there is no runtime.
CallShutDown(t) ==
  /\ pc[t] = "idle" /\ (t \in holders \/ ReferenceCounter = 0)
  /\ mutex = NULL
  /\ mutex' = t
  /\ Goto(t, "release")
  /\ UNCHANGED <<ReferenceCounter, Instance, agentVars, holders>>

\* HSA_STATUS_ERROR_NOT_INITIALIZED
ReleaseNone(t) ==
  /\ pc[t] = "release" /\ ReferenceCounter = 0
  /\ Return(t)
  /\ UNCHANGED <<ReferenceCounter, Instance, agentVars, holders>>

ReleaseShared(t) ==
  /\ pc[t] = "release" /\ ReferenceCounter > 1
  /\ Goto(t, "decrement")
  /\ UNCHANGED <<ReferenceCounter, mutex, Instance, agentVars, holders>>

\* Faulty variants: the instance goes with any reference; it is reset before
\* it is deleted.
ReleaseAny(t) ==
  /\ pc[t] = "release" /\ ReferenceCounter > 0
  /\ ShutDown' = TRUE
  /\ Goto(t, "join")
  /\ UNCHANGED <<ReferenceCounter, mutex, Instance, worker, queue, holders>>
ReleaseResetsFirst(t) ==
  /\ pc[t] = "release" /\ ReferenceCounter = 1
  /\ ShutDown' = TRUE
  /\ Instance' = NULL
  /\ Goto(t, "join")
  /\ UNCHANGED <<ReferenceCounter, mutex, worker, queue, holders>>

\* delete Instance: ~Runtime first shuts down the agent.
ReleaseLast(t) ==
  /\ pc[t] = "release" /\ ReferenceCounter = 1
  /\ ShutDown' = TRUE
  /\ Goto(t, "join")
  /\ UNCHANGED <<ReferenceCounter, mutex, Instance, worker, queue, holders>>

JoinWorker(t) ==
  /\ pc[t] = "join" /\ worker = "exited"
  /\ worker' = "none"
  /\ Goto(t, "collect")
  /\ UNCHANGED <<ReferenceCounter, mutex, Instance, ShutDown, queue, holders>>

\* The queues, the programs and the memory regions go, then the object.
Collect(t) ==
  /\ pc[t] = "collect"
  /\ queue' = FALSE
  /\ Instance' = "deleted"
  /\ Goto(t, "reset")
  /\ UNCHANGED <<ReferenceCounter, mutex, ShutDown, worker, holders>>

\* Faulty variant: the pointer is left dangling.
ResetNothing(t) ==
  /\ pc[t] = "reset"
  /\ Goto(t, "decrement")
  /\ UNCHANGED <<ReferenceCounter, mutex, Instance, agentVars, holders>>

ResetInstance(t) ==
  /\ pc[t] = "reset"
  /\ Instance' = NULL
  /\ Goto(t, "decrement")
  /\ UNCHANGED <<ReferenceCounter, mutex, agentVars, holders>>

Decrement(t) ==
  /\ pc[t] = "decrement"
  /\ ReferenceCounter' = ReferenceCounter - 1
  /\ holders' = holders \ {t}
  /\ Return(t)
  /\ UNCHANGED <<Instance, agentVars>>

----------------------------------------------------------------------------
(* Any other API call, hsa_signal_create or hsa_memory_free for example.   *)

isInitialized == ReferenceCounter > 0

CallApi(t) ==
  /\ pc[t] = "idle" /\ t \in holders \cup Guests
  /\ isInitialized
  /\ Goto(t, "get")
  /\ UNCHANGED <<ReferenceCounter, mutex, Instance, agentVars, holders>>

\* assert(Instance != nullptr); a deleted instance is no better.
Get(t) ==
  /\ pc[t] = "get"
  /\ Goto(t, IF Instance = "live" THEN "using" ELSE "crashed")
  /\ UNCHANGED <<ReferenceCounter, mutex, Instance, agentVars, holders>>

\* The call may have been hsa_queue_create; the instance may have gone under it.
EndApi(t) ==
  /\ pc[t] = "using"
  /\ IF Instance = "live"
     THEN queue' \in {queue, TRUE} /\ Goto(t, "idle")
     ELSE UNCHANGED queue /\ Goto(t, "crashed")
  /\ UNCHANGED <<ReferenceCounter, mutex, Instance, ShutDown, worker, holders>>

----------------------------------------------------------------------------
(* The worker: CPUKernelAgent::Execute.                                    *)

\* Faulty variant: ShutDown is not tested while there are queues.
StartPollRegardless ==
  /\ worker = "loop" /\ queue
  /\ worker' = "poll"
  /\ UNCHANGED <<ReferenceCounter, mutex, Instance, ShutDown, queue, pc, holders>>

\* GCCBuiltinSignal::loadAcquire on the doorbell calls Runtime::get.
StartPoll ==
  /\ worker = "loop" /\ ~ ShutDown /\ queue
  /\ worker' = "poll"
  /\ UNCHANGED <<ReferenceCounter, mutex, Instance, ShutDown, queue, pc, holders>>

EndPoll ==
  /\ worker = "poll"
  /\ worker' = "loop"
  /\ UNCHANGED <<ReferenceCounter, mutex, Instance, ShutDown, queue, pc, holders>>

Exit ==
  /\ worker = "loop" /\ ShutDown
  /\ ShutDown' = FALSE
  /\ worker' = "exited"
  /\ UNCHANGED <<ReferenceCounter, mutex, Instance, queue, pc, holders>>

----------------------------------------------------------------------------
InCall(t) ==
  \/ InitOverflow(t) \/ Construct(t) \/ AssignInstance(t) \/ InitAgain(t)
  \/ Increment(t)
  \/ ReleaseNone(t) \/ ReleaseShared(t) \/ ReleaseLast(t) \/ JoinWorker(t)
  \/ Collect(t) \/ ResetInstance(t) \/ Decrement(t)
  \/ Get(t) \/ EndApi(t)
Worker == StartPoll \/ EndPoll \/ Exit

Next ==
  \/ \E t \in Threads : CallInit(t) \/ CallShutDown(t) \/ CallApi(t) \/ InCall(t)
  \/ Worker

\* A thread goes on with the call it has begun, and so does the worker.
Fairness == (\A t \in Threads : WF_vars(InCall(t))) /\ WF_vars(Worker)

Spec == Init /\ [][Next]_vars
LiveSpec == Spec /\ Fairness

----------------------------------------------------------------------------
(* Properties                                                              *)

\* Between the calls the runtime exists, with its worker, exactly if the
\* counter is positive, however the calls followed each other.
InstanceMatchesCount ==
  mutex = NULL =>
    /\ Instance = IF ReferenceCounter > 0 THEN "live" ELSE NULL
    /\ worker # "none" <=> ReferenceCounter > 0

\* If every thread gives back only its own reference, the counter counts the
\* references, also when hsa_init fails at the limit of the counter.
CountIsHolders == mutex = NULL => ReferenceCounter = Cardinality(holders)

\* A thread that holds a reference of its own never meets a runtime that is
\* missing or being deleted in Runtime::get or in what it does with it.
OwnersAreSafe ==
  \A t \in holders : pc[t] # "crashed" /\ (pc[t] \in {"get", "using"} => Instance = "live")

\* Nor does the worker, which outlives neither the agent nor the instance.
WorkerFindsInstance == worker = "poll" => Instance = "live"

\* hsa_init and hsa_shut_down give the mutex back: the join in ~Runtime ends.
MutexReleased == mutex # NULL ~> mutex = NULL
============================================================================
