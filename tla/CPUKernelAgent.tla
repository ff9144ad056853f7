--------------------------- MODULE CPUKernelAgent --------------------------
(***************************************************************************)
(* The CPU kernel agent: its worker thread, which serves the agent's       *)
(* queues in turn (CPUKernelAgent::Execute), and the client calls that     *)
(* meet it: hsa_queue_create, hsa_queue_destroy, hsa_queue_inactivate with *)
(* CPUKernelAgent::terminateQueue, and CPUKernelAgent::shutDown.           *)
(*                                                                         *)
(* What the worker does with the packets of one queue is UserModeQueue;    *)
(* here it is one stretch of work, from noticing the doorbell to having    *)
(* launched what was rung for.  RunningQueue, InterruptingTheQueue,        *)
(* ShutDown and the flags of a queue are loaded and stored one at a time.  *)
(* A SIGUSR1 sent with pthread_kill is delivered some time later, wherever *)
(* the worker then is, and siglongjmp leaves that place for the landing    *)
(* spot without running any destructor.                                    *)
(***************************************************************************)
EXTENDS Integers, Sequences, FiniteSets

CONSTANTS
  Queues,       \* queues that exist in a behaviour
  Created,      \* those a client creates while the worker already runs
  Clients,      \* client threads that inactivate a queue
  Target,       \* the queue each of them inactivates
  Destroyers,   \* queues a client may destroy
  QueuesMax,    \* CPUKernelAgent::getQueuesMax
  Endless,      \* queues whose kernels never return by themselves
  MaxRings,     \* bound: how often the doorbell of a queue is rung
  NULL          \* nullptr

ASSUME AgentAssumption ==
  /\ Created \subseteq Queues
  /\ Destroyers \subseteq Queues
  /\ Endless \subseteq Queues
  /\ Target \in [Clients -> Queues]
  /\ MaxRings \in Nat
  /\ NULL \notin Queues
  /\ IsFiniteSet(Queues)
  /\ QueuesMax \in Nat
  /\ Cardinality(Queues \ Created) <= QueuesMax

VARIABLES
  registered,            \* Agent::Queues, in creation order
  readers,               \* shared holds on QueueLock
  Inactivated, Destroyed,
  rung, handled, done,   \* per queue: doorbells rung, noticed, worked off
  wpc, todo,             \* the worker: where it is, the rest of its copy
  RunningQueue, InterruptingTheQueue, ShutDown,
  sigusr1,               \* a SIGUSR1 is pending for the worker
  cpc,                   \* where each inactivating client is
  creating,              \* where each call of hsa_queue_create is
  joined                 \* where the call of shutDown is

workerVars == <<wpc, todo, RunningQueue>>
flagVars == <<InterruptingTheQueue, ShutDown, sigusr1>>
queueVars == <<registered, readers, Inactivated, Destroyed>>
workVars == <<rung, handled, done>>
vars == <<workerVars, flagVars, queueVars, workVars, cpc, creating, joined>>

\* The queues the clients created before, in any order.
Orders(S) ==
  {f \in [1 .. Cardinality(S) -> S] : \A i, j \in DOMAIN f : f[i] = f[j] => i = j}

\* The worker starts at its landing spot.
Init ==
  /\ registered \in Orders(Queues \ Created)
  /\ readers = 0
  /\ Inactivated = {} /\ Destroyed = {}
  /\ rung = [q \in Queues |-> 0]
  /\ handled = [q \in Queues |-> 0]
  /\ done = [q \in Queues |-> 0]
  /\ wpc = "land" /\ todo = <<>>
  /\ RunningQueue = NULL
  /\ InterruptingTheQueue = FALSE /\ ShutDown = FALSE /\ sigusr1 = FALSE
  /\ cpc = [c \in Clients |-> "start"]
  /\ joined = "running"
  /\ creating = [q \in Created |-> "start"]

----------------------------------------------------------------------------
(* The worker thread: Execute.                                             *)

Land ==
  /\ wpc = "land"
  /\ RunningQueue' = NULL
  /\ wpc' = "landed"
  /\ UNCHANGED <<todo, flagVars, queueVars, workVars, cpc, joined, creating>>

\* The landing also takes back the announcement of the interruption.
Landed ==
  /\ wpc = "landed"
  /\ InterruptingTheQueue' = FALSE
  /\ wpc' = "loop"
  /\ UNCHANGED <<todo, RunningQueue, ShutDown, sigusr1, queueVars, workVars,
                 cpc, joined, creating>>

Loop ==
  /\ wpc = "loop"
  /\ wpc' = IF ShutDown THEN "exit" ELSE "lock"
  /\ UNCHANGED <<todo, RunningQueue, flagVars, queueVars, workVars, cpc,
                 joined, creating>>

\* Agent::getQueues: a shared lock, the copy, the unlock.
LockQueues ==
  /\ wpc = "lock"
  /\ readers' = readers + 1
  /\ wpc' = "copy"
  /\ UNCHANGED <<todo, RunningQueue, flagVars, registered, Inactivated,
                 Destroyed, workVars, cpc, joined, creating>>

\* Faulty variants: one hold is never released, or a hold is released twice.
CopyQueuesLocked ==
  /\ wpc = "copy"
  /\ todo' = registered
  /\ readers' = 1
  /\ wpc' = "copied"
  /\ UNCHANGED <<RunningQueue, flagVars, registered, Inactivated, Destroyed,
                 workVars, cpc, joined, creating>>
CopyQueuesUnlockTwice ==
  /\ wpc = "copy"
  /\ todo' = registered
  /\ readers' = readers - 2
  /\ wpc' = "copied"
  /\ UNCHANGED <<RunningQueue, flagVars, registered, Inactivated, Destroyed,
                 workVars, cpc, joined, creating>>

CopyQueues ==
  /\ wpc = "copy"
  /\ todo' = registered
  /\ readers' = readers - 1
  /\ wpc' = "copied"
  /\ UNCHANGED <<RunningQueue, flagVars, registered, Inactivated, Destroyed,
                 workVars, cpc, joined, creating>>

StartRound ==
  /\ wpc = "copied"
  /\ RunningQueue' = NULL
  /\ wpc' = "next"
  /\ UNCHANGED <<todo, flagVars, queueVars, workVars, cpc, joined, creating>>

\* Faulty variant: the worker starts over without testing ShutDown.
EndRoundForever ==
  /\ wpc = "next" /\ todo = <<>>
  /\ wpc' = "lock"
  /\ UNCHANGED <<todo, RunningQueue, flagVars, queueVars, workVars, cpc,
                 joined, creating>>

EndRound ==
  /\ wpc = "next" /\ todo = <<>>
  /\ wpc' = "loop"
  /\ UNCHANGED <<todo, RunningQueue, flagVars, queueVars, workVars, cpc,
                 joined, creating>>

PickQueue ==
  /\ wpc = "next" /\ todo # <<>>
  /\ RunningQueue' = Head(todo)
  /\ todo' = Tail(todo)
  /\ wpc' = "test"
  /\ UNCHANGED <<flagVars, queueVars, workVars, cpc, joined, creating>>

\* if (InterruptingTheQueue) while (true) {}
TestInterrupting ==
  /\ wpc = "test"
  /\ wpc' = IF InterruptingTheQueue THEN "spin" ELSE "flags"
  /\ UNCHANGED <<todo, RunningQueue, flagVars, queueVars, workVars, cpc,
                 joined, creating>>

Skipped(q) == q \in Inactivated \/ q \in Destroyed

\* Faulty variant: a "break" where the code has a "continue".
TestFlagsBreak ==
  /\ wpc = "flags"
  /\ wpc' = IF Skipped(RunningQueue) THEN "loop" ELSE "doorbell"
  /\ UNCHANGED <<todo, RunningQueue, flagVars, queueVars, workVars, cpc,
                 joined, creating>>

TestFlags ==
  /\ wpc = "flags"
  /\ wpc' = IF Skipped(RunningQueue) THEN "next" ELSE "doorbell"
  /\ UNCHANGED <<todo, RunningQueue, flagVars, queueVars, workVars, cpc,
                 joined, creating>>

TestDoorBell ==
  /\ wpc = "doorbell"
  /\ IF rung[RunningQueue] = handled[RunningQueue]
     THEN wpc' = "next" /\ UNCHANGED handled
     ELSE /\ handled' = [handled EXCEPT ![RunningQueue] = rung[RunningQueue]]
          /\ wpc' = "work"
  /\ UNCHANGED <<todo, RunningQueue, flagVars, queueVars, rung, done, cpc,
                 joined, creating>>

FinishWork ==
  /\ wpc = "work"
  /\ RunningQueue \notin Endless
  /\ done' = [done EXCEPT ![RunningQueue] = handled[RunningQueue]]
  /\ wpc' = "next"
  /\ UNCHANGED <<todo, RunningQueue, flagVars, queueVars, rung, handled, cpc,
                 joined, creating>>

ResetShutDown ==
  /\ wpc = "exit"
  /\ ShutDown' = FALSE
  /\ wpc' = "leave"
  /\ UNCHANGED <<todo, RunningQueue, InterruptingTheQueue, sigusr1, queueVars,
                 workVars, cpc, joined, creating>>

Leave ==
  /\ wpc = "leave"
  /\ wpc' = "exited"
  /\ UNCHANGED <<todo, RunningQueue, flagVars, queueVars, workVars, cpc,
                 joined, creating>>

\* QueueInterruptionHandler: whatever the worker was doing is abandoned, the
\* locks it held are not released.
Interrupt ==
  /\ sigusr1 /\ wpc # "exited"
  /\ sigusr1' = FALSE
  /\ wpc' = "land"
  /\ UNCHANGED <<todo, RunningQueue, InterruptingTheQueue, ShutDown, queueVars,
                 workVars, cpc, joined, creating>>

----------------------------------------------------------------------------
(* The clients.                                                            *)

Registered(q) == \E i \in 1 .. Len(registered) : registered[i] = q

\* hsa_signal_store on the doorbell of a queue.
Ring(q) ==
  /\ Registered(q)
  /\ rung[q] < MaxRings
  /\ rung' = [rung EXCEPT ![q] = @ + 1]
  /\ UNCHANGED <<workerVars, flagVars, queueVars, handled, done, cpc,
                 joined, creating>>

\* getQueuesMax() <= getQueueCount(); a destroyed queue still counts.
AtLimit == QueuesMax <= Len(registered)

Checked == {q \in Created : creating[q] = "checked"}

\* hsa_queue_create compares with the limit, without the lock.
CheckLimit(q) ==
  /\ creating[q] = "start"
  /\ creating' = [creating EXCEPT ![q] = IF AtLimit THEN "refused" ELSE "checked"]
  /\ UNCHANGED <<workerVars, flagVars, queueVars, workVars, cpc, joined>>

\* Agent::registerQueue under the exclusive QueueLock.
RegisterQueue(q) ==
  /\ creating[q] = "checked"
  /\ readers = 0
  /\ registered' = Append(registered, q)
  /\ creating' = [creating EXCEPT ![q] = "registered"]
  /\ UNCHANGED <<workerVars, flagVars, readers, Inactivated, Destroyed,
                 workVars, cpc, joined>>

\* hsa_queue_destroy only marks the queue.
Destroy(q) ==
  /\ Registered(q)
  /\ q \notin Destroyed
  /\ Destroyed' = Destroyed \cup {q}
  /\ UNCHANGED <<workerVars, flagVars, registered, readers, Inactivated,
                 workVars, cpc, joined, creating>>

\* Queue::setInactivated sets the flag, then calls terminateQueue.
setInactivated(c) ==
  /\ Inactivated' = Inactivated \cup {Target[c]}
  /\ cpc' = [cpc EXCEPT ![c] = "announce"]

\* hsa_queue_inactivate
Inactivate(c) ==
  /\ cpc[c] = "start"
  /\ IF Target[c] \in Destroyed
     THEN /\ cpc' = [cpc EXCEPT ![c] = "refused"]
          /\ UNCHANGED Inactivated
     ELSE setInactivated(c)
  /\ UNCHANGED <<workerVars, flagVars, registered, readers, Destroyed,
                 workVars, joined, creating>>

\* terminateQueue
Announce(c) ==
  /\ cpc[c] = "announce"
  /\ InterruptingTheQueue' = TRUE
  /\ cpc' = [cpc EXCEPT ![c] = "compare"]
  /\ UNCHANGED <<workerVars, ShutDown, sigusr1, queueVars, workVars,
                 joined, creating>>

Compare(c) ==
  /\ cpc[c] = "compare"
  /\ cpc' = [cpc EXCEPT ![c] = IF RunningQueue = Target[c] THEN "kill" ELSE "clear"]
  /\ UNCHANGED <<workerVars, flagVars, queueVars, workVars, joined, creating>>

\* Faulty variant: the worker is not signalled.
KillNobody(c) ==
  /\ cpc[c] = "kill"
  /\ cpc' = [cpc EXCEPT ![c] = "wait"]
  /\ UNCHANGED <<workerVars, flagVars, queueVars, workVars, joined, creating>>

Kill(c) ==
  /\ cpc[c] = "kill"
  /\ sigusr1' = TRUE
  /\ cpc' = [cpc EXCEPT ![c] = "wait"]
  /\ UNCHANGED <<workerVars, InterruptingTheQueue, ShutDown, queueVars,
                 workVars, joined, creating>>

\* Faulty variant: the client does not wait for the worker to leave the queue.
WaitNot(c) ==
  /\ cpc[c] = "wait"
  /\ cpc' = [cpc EXCEPT ![c] = "clear"]
  /\ UNCHANGED <<workerVars, flagVars, queueVars, workVars, joined, creating>>

\* while (Q == RunningQueue) {}
Wait(c) ==
  /\ cpc[c] = "wait"
  /\ RunningQueue # Target[c]
  /\ cpc' = [cpc EXCEPT ![c] = "clear"]
  /\ UNCHANGED <<workerVars, flagVars, queueVars, workVars, joined, creating>>

Clear(c) ==
  /\ cpc[c] = "clear"
  /\ InterruptingTheQueue' = FALSE
  /\ cpc' = [cpc EXCEPT ![c] = "returned"]
  /\ UNCHANGED <<workerVars, ShutDown, sigusr1, queueVars, workVars,
                 joined, creating>>

Terminate(c) == Announce(c) \/ Compare(c) \/ Kill(c) \/ Wait(c) \/ Clear(c)

\* The last hsa_shut_down comes after every other call has returned.
Returned(c) == cpc[c] \in {"returned", "refused"}
CallShutDown ==
  /\ joined = "running"
  /\ \A c \in Clients : Returned(c) \/ cpc[c] = "start"
  /\ Checked = {}
  /\ ShutDown' = TRUE
  /\ joined' = "joining"
  /\ UNCHANGED <<workerVars, InterruptingTheQueue, sigusr1, queueVars,
                 workVars, cpc, creating>>

Join ==
  /\ joined = "joining" /\ wpc = "exited"
  /\ joined' = "joined"
  /\ UNCHANGED <<workerVars, flagVars, queueVars, workVars, cpc, creating>>

----------------------------------------------------------------------------
Worker ==
  \/ Land \/ Landed \/ Loop \/ LockQueues \/ CopyQueues \/ StartRound
  \/ EndRound \/ PickQueue \/ TestInterrupting \/ TestFlags \/ TestDoorBell
  \/ FinishWork \/ ResetShutDown \/ Leave \/ Interrupt

Next ==
  \/ Worker
  \/ \E q \in Queues : joined = "running" /\ Ring(q)
  \/ \E q \in Created : joined = "running" /\ CheckLimit(q)
  \/ \E q \in Created : RegisterQueue(q)
  \/ \E q \in Destroyers : joined = "running" /\ Destroy(q)
  \/ \E c \in Clients : joined = "running" /\ Inactivate(c)
  \/ \E c \in Clients : Terminate(c)
  \/ CallShutDown \/ Join
  \/ joined = "joined" /\ UNCHANGED vars

\* The worker and the clients are threads that keep running, a pending
\* signal is delivered, the kernels of the queues that are not Endless
\* return.  Nobody has to ring, to inactivate or to destroy a queue or to
\* shut down.  A client that waits in "while (Q == RunningQueue) {}" reads the
\* variable again and again and does not miss every moment at which it
\* differs; a creator that waits for the boost::shared_mutex keeps later
\* readers out.
Fairness ==
  /\ WF_vars(Worker)
  /\ WF_vars(Interrupt)
  /\ \A c \in Clients : WF_vars(Terminate(c)) /\ SF_vars(Wait(c))
  /\ \A q \in Created : SF_vars(RegisterQueue(q))
  /\ WF_vars(Join)

Spec == Init /\ [][Next]_vars
LiveSpec == Spec /\ Fairness

----------------------------------------------------------------------------
(* Properties                                                              *)

TypeOK ==
  /\ registered \in Seq(Queues) /\ todo \in Seq(Queues)
  /\ readers \in Nat
  /\ Inactivated \subseteq Queues /\ Destroyed \subseteq Queues
  /\ rung \in [Queues -> 0 .. MaxRings]
  /\ handled \in [Queues -> 0 .. MaxRings]
  /\ done \in [Queues -> 0 .. MaxRings]
  /\ wpc \in {"land", "landed", "loop", "lock", "copy", "copied", "next",
              "test", "spin", "flags", "doorbell", "work", "exit", "leave",
              "exited"}
  /\ RunningQueue \in Queues \cup {NULL}
  /\ InterruptingTheQueue \in BOOLEAN /\ ShutDown \in BOOLEAN
  /\ sigusr1 \in BOOLEAN
  /\ cpc \in [Clients -> {"start", "announce", "compare", "kill", "wait",
                          "clear", "returned", "refused"}]
  /\ joined \in {"running", "joining", "joined"}
  /\ creating \in [Created -> {"start", "checked", "registered", "refused"}]

\* Once hsa_queue_inactivate has returned, the worker is not at work on the
\* queue and does not start to be: "Inactivating the queue aborts any pending
\* executions and prevent any new packets from being processed" (hsa.h).
NoWorkAfterInactivate ==
  \A c \in Clients :
    cpc[c] = "returned" => ~ (wpc \in {"doorbell", "work"} /\ RunningQueue = Target[c])

\* hsa_queue_inactivate returns once called, also when the queue runs an
\* endless kernel, if no other thread inactivates a queue.
Alone(c) == \A d \in Clients \ {c} : cpc[d] = "start"
InactivateReturns ==
  \A c \in Clients : []Alone(c) => (cpc[c] = "announce" ~> Returned(c))

\* What is rung for is worked off, unless the queue is destroyed or
\* inactivated or the runtime shuts down: the worker starves no queue, and it
\* returns from an interruption "to safely proceed executing possible other
\* queues" (CPUKernelAgent.cc, at QueueInterruptionHandler).
RungIsServed ==
  \A q \in Queues : \A n \in 1 .. MaxRings :
    rung[q] = n ~> (done[q] >= n \/ Skipped(q) \/ joined # "running")

\* hsa_queue_create gets the QueueLock, although the worker takes it shared
\* again and again.
CreateReturns ==
  \A q \in Created : creating[q] = "checked" ~> creating[q] = "registered"

\* shutDown joins the worker: it sees the flag and leaves.
ShutDownReturns == joined = "joining" ~> joined = "joined"

\* HSA_AGENT_INFO_QUEUES_MAX is the "maximum number of queues that can be
\* active (created but not destroyed) at one time in the agent" (hsa.h).
Active == {q \in Queues : Registered(q)} \ Destroyed
QueuesWithinLimit == Cardinality(Active) <= QueuesMax

============================================================================
