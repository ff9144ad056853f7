------------------------ MODULE CPUKernelAgentProofs -----------------------
(***************************************************************************)
(* For any number of queues, creators and clients: what                    *)
(* hsa_queue_inactivate promises when it returns (AgentInv).               *)
(***************************************************************************)
EXTENDS CPUKernelAgent, FiniteSetTheorems, SequenceTheorems, TLAPS

\* The worker gives a hold on QueueLock back only while it has one.
HoldInv == wpc = "copy" => readers > 0

\* From picking a queue to leaving it, RunningQueue names it.
RunInv == wpc \in {"test", "spin", "flags", "doorbell", "work"} => RunningQueue \in Queues

\* terminateQueue runs with the flag of the queue set, for good.
FlagInv ==
  \A c \in Clients :
    cpc[c] \in {"announce", "compare", "kill", "wait", "clear", "returned"} =>
      Target[c] \in Inactivated

\* A client that has seen RunningQueue differ from its queue needs no more:
\* the worker has left the queue or has yet to read the flag.
QuietInv ==
  \A c \in Clients :
    cpc[c] \in {"clear", "returned"} =>
      ~ (wpc \in {"doorbell", "work"} /\ RunningQueue = Target[c])

AgentInv == TypeOK /\ HoldInv /\ RunInv /\ FlagInv /\ QuietInv

\* At first the list has the queues that nobody creates.
LEMMA InitRegistered == Init => registered \in Seq(Queues)
<1> SUFFICES ASSUME Init PROVE registered \in Seq(Queues)
  OBVIOUS
<1>1. IsFiniteSet(Queues \ Created)
  BY AgentAssumption, FS_Subset
<1>2. PICK n \in Nat : n = Cardinality(Queues \ Created)
  BY <1>1, FS_CardinalityType
<1>3. registered \in [1 .. n -> Queues]
  BY <1>2 DEF Init, Orders
<1> QED
  BY <1>3, SeqDef

\* The invariant holds when the worker starts.
LEMMA InitAgent == Init => AgentInv
<1> SUFFICES ASSUME Init PROVE AgentInv
  OBVIOUS
<1>1. registered \in Seq(Queues)
  BY InitRegistered
<1>2. TypeOK
  <2>1. /\ rung \in [Queues -> 0 .. MaxRings]
        /\ handled \in [Queues -> 0 .. MaxRings]
        /\ done \in [Queues -> 0 .. MaxRings]
    BY AgentAssumption DEF Init
  <2>2. InterruptingTheQueue \in BOOLEAN /\ ShutDown \in BOOLEAN /\ sigusr1 \in BOOLEAN
    BY Zenon DEF Init
  <2> QED
    BY <1>1, <2>1, <2>2 DEF Init, TypeOK
<1>3. HoldInv /\ RunInv /\ FlagInv /\ QuietInv
  BY DEF Init, HoldInv, RunInv, FlagInv, QuietInv
<1> QED
  BY <1>2, <1>3 DEF AgentInv

\* The worker on its way to the next queue, which touches no queue's state.
LEMMA RoundStep ==
  ASSUME AgentInv,
         \/ Land \/ Landed \/ Loop \/ LockQueues \/ CopyQueues \/ StartRound
         \/ EndRound \/ ResetShutDown \/ Leave \/ Interrupt
  PROVE  AgentInv'
<1> USE DEF Land, Landed, Loop, LockQueues, CopyQueues, StartRound, EndRound,
            ResetShutDown, Leave, Interrupt, flagVars, queueVars, workVars
<1>1. UNCHANGED <<registered, Inactivated, Destroyed, workVars, cpc, joined, creating>>
  OBVIOUS
<1>2. wpc' \in {"land", "landed", "loop", "exit", "lock", "copy", "copied", "next",
                "leave", "exited"}
  OBVIOUS
<1>3. readers' \in Nat /\ HoldInv'
  BY DEF AgentInv, TypeOK, HoldInv
<1>4. todo' \in Seq(Queues) /\ RunningQueue' \in Queues \cup {NULL}
  BY DEF AgentInv, TypeOK
<1>5. InterruptingTheQueue' \in BOOLEAN /\ ShutDown' \in BOOLEAN /\ sigusr1' \in BOOLEAN
  BY DEF AgentInv, TypeOK
<1> HIDE DEF Land, Landed, Loop, LockQueues, CopyQueues, StartRound, EndRound,
             ResetShutDown, Leave, Interrupt
<1>6. TypeOK'
  BY <1>1, <1>2, <1>3, <1>4, <1>5 DEF AgentInv, TypeOK
<1>7. RunInv' /\ FlagInv' /\ QuietInv'
  BY <1>1, <1>2 DEF AgentInv, RunInv, FlagInv, QuietInv
<1> QED
  BY <1>3, <1>6, <1>7 DEF AgentInv

\* The worker turns to the next queue of its copy.
LEMMA PickQueueStep ==
  ASSUME AgentInv, PickQueue
  PROVE  AgentInv'
<1> USE DEF PickQueue, flagVars, queueVars, workVars
<1>1. RunningQueue' \in Queues /\ todo' \in Seq(Queues)
  BY DEF AgentInv, TypeOK
<1>2. TypeOK'
  BY <1>1 DEF AgentInv, TypeOK
<1>3. HoldInv' /\ RunInv' /\ FlagInv' /\ QuietInv'
  BY <1>1 DEF AgentInv, HoldInv, RunInv, FlagInv, QuietInv
<1> QED
  BY <1>2, <1>3 DEF AgentInv

\* The worker waits out an announced interruption.
LEMMA TestInterruptingStep ==
  ASSUME AgentInv, TestInterrupting
  PROVE  AgentInv'
BY DEF TestInterrupting, flagVars, queueVars, workVars,
       AgentInv, TypeOK, HoldInv, RunInv, FlagInv, QuietInv

\* The flag is read after RunningQueue was written: a queue whose client has
\* returned is skipped.
LEMMA TestFlagsStep ==
  ASSUME AgentInv, TestFlags
  PROVE  AgentInv'
<1> USE DEF TestFlags, flagVars, queueVars, workVars
<1>1. TypeOK'
  BY DEF AgentInv, TypeOK
<1>2. HoldInv' /\ RunInv' /\ FlagInv'
  BY DEF AgentInv, HoldInv, RunInv, FlagInv
<1>3. QuietInv'
  <2> SUFFICES ASSUME NEW c \in Clients, cpc[c] \in {"clear", "returned"},
                      RunningQueue = Target[c]
               PROVE  wpc' \notin {"doorbell", "work"}
    BY DEF QuietInv
  <2>1. Skipped(RunningQueue)
    BY DEF AgentInv, FlagInv, Skipped
  <2> QED
    BY <2>1
<1> QED
  BY <1>1, <1>2, <1>3 DEF AgentInv

\* Noticing the doorbell and working it off stay with the queue picked.
LEMMA WorkStep ==
  ASSUME AgentInv, TestDoorBell \/ FinishWork
  PROVE  AgentInv'
<1> USE DEF TestDoorBell, FinishWork, flagVars, queueVars, workVars
<1>1. UNCHANGED <<todo, RunningQueue, flagVars, queueVars, rung, cpc, joined, creating>>
  OBVIOUS
<1>2. wpc \in {"doorbell", "work"} /\ wpc' \in {"next", "work"}
  OBVIOUS
<1>3. RunningQueue \in Queues
  BY <1>2 DEF AgentInv, RunInv
<1>4. handled' \in [Queues -> 0 .. MaxRings] /\ done' \in [Queues -> 0 .. MaxRings]
  BY <1>3 DEF AgentInv, TypeOK
<1> HIDE DEF TestDoorBell, FinishWork
<1>5. TypeOK'
  BY <1>1, <1>2, <1>4 DEF AgentInv, TypeOK
<1>6. HoldInv' /\ RunInv' /\ FlagInv' /\ QuietInv'
  BY <1>1, <1>2, <1>3 DEF AgentInv, HoldInv, RunInv, FlagInv, QuietInv
<1> QED
  BY <1>5, <1>6 DEF AgentInv

\* hsa_queue_inactivate sets the flag before it calls terminateQueue.
LEMMA InactivateStep ==
  ASSUME AgentInv, NEW c \in Clients, Inactivate(c)
  PROVE  AgentInv'
<1> USE DEF Inactivate, setInactivated, workerVars, flagVars, queueVars, workVars
<1>1. Target[c] \in Queues
  BY AgentAssumption
<1>2. TypeOK'
  BY <1>1 DEF AgentInv, TypeOK
<1>3. HoldInv' /\ RunInv'
  BY DEF AgentInv, HoldInv, RunInv
<1>4. FlagInv' /\ QuietInv'
  BY DEF AgentInv, TypeOK, FlagInv, QuietInv
<1> QED
  BY <1>2, <1>3, <1>4 DEF AgentInv

\* terminateQueue goes on to its end only after RunningQueue was another one.
LEMMA TerminateStep ==
  ASSUME AgentInv, NEW c \in Clients, Terminate(c)
  PROVE  AgentInv'
<1> USE DEF Terminate, Announce, Compare, Kill, Wait, Clear,
            workerVars, flagVars, queueVars, workVars
<1>1. UNCHANGED <<workerVars, ShutDown, queueVars, workVars, joined, creating>>
  OBVIOUS
<1>2. PICK l \in {"compare", "kill", "wait", "clear", "returned"} :
        cpc' = [cpc EXCEPT ![c] = l]
  OBVIOUS
<1>3. cpc[c] \in {"announce", "compare", "kill", "wait", "clear"}
  OBVIOUS
<1>4. l = "clear" => RunningQueue # Target[c]
  BY <1>2 DEF AgentInv, TypeOK
<1>5. l = "returned" => cpc[c] = "clear"
  BY <1>2 DEF AgentInv, TypeOK
<1>6. InterruptingTheQueue' \in BOOLEAN /\ sigusr1' \in BOOLEAN
  BY DEF AgentInv, TypeOK
<1> HIDE DEF Terminate, Announce, Compare, Kill, Wait, Clear
<1>7. TypeOK'
  BY <1>1, <1>2, <1>6 DEF AgentInv, TypeOK
<1>8. HoldInv' /\ RunInv'
  BY <1>1 DEF AgentInv, HoldInv, RunInv
<1>9. FlagInv'
  BY <1>1, <1>2, <1>3 DEF AgentInv, TypeOK, FlagInv
<1>10. QuietInv'
  BY <1>1, <1>2, <1>4, <1>5 DEF AgentInv, TypeOK, QuietInv
<1> QED
  BY <1>7, <1>8, <1>9, <1>10 DEF AgentInv

\* The other clients: they ring, create and destroy queues, and shut down.
LEMMA OtherClientStep ==
  ASSUME AgentInv,
         \/ \E q \in Queues : Ring(q)
         \/ \E q \in Created : CheckLimit(q) \/ RegisterQueue(q)
         \/ \E q \in Destroyers : Destroy(q)
         \/ CallShutDown \/ Join
  PROVE  AgentInv'
<1>1. UNCHANGED <<workerVars, InterruptingTheQueue, sigusr1, readers, Inactivated,
                  handled, done, cpc>>
  BY DEF Ring, CheckLimit, RegisterQueue, Destroy, CallShutDown, Join,
         workerVars, flagVars, queueVars, workVars
<1>2. HoldInv' /\ RunInv' /\ FlagInv' /\ QuietInv'
  BY <1>1 DEF AgentInv, HoldInv, RunInv, FlagInv, QuietInv, workerVars
<1>3. ASSUME NEW q \in Queues, Ring(q) PROVE TypeOK'
  <2>1. rung' \in [Queues -> 0 .. MaxRings]
    <3>1. MaxRings \in Nat
      BY AgentAssumption
    <3>2. rung \in [Queues -> 0 .. MaxRings]
      BY DEF AgentInv, TypeOK
    <3>3. rung[q] + 1 \in 0 .. MaxRings
      BY <1>3, <3>1, <3>2 DEF Ring
    <3> QED
      BY <1>3, <3>2, <3>3 DEF Ring
  <2> QED
    BY <1>1, <1>3, <2>1 DEF Ring, AgentInv, TypeOK, workerVars, flagVars, queueVars
<1>4. ASSUME NEW q \in Created, CheckLimit(q) PROVE TypeOK'
  <2>1. creating' \in [Created -> {"start", "checked", "registered", "refused"}]
    BY <1>4 DEF CheckLimit, AgentInv, TypeOK
  <2> QED
    BY <1>1, <1>4, <2>1
       DEF CheckLimit, AgentInv, TypeOK, workerVars, flagVars, queueVars, workVars
<1>5. ASSUME NEW q \in Created, RegisterQueue(q) PROVE TypeOK'
  <2>1. registered' \in Seq(Queues)
    BY <1>5, AgentAssumption DEF RegisterQueue, AgentInv, TypeOK
  <2>2. creating' \in [Created -> {"start", "checked", "registered", "refused"}]
    BY <1>5 DEF RegisterQueue, AgentInv, TypeOK
  <2> QED
    BY <1>1, <1>5, <2>1, <2>2
       DEF RegisterQueue, AgentInv, TypeOK, workerVars, flagVars, workVars
<1>6. ASSUME NEW q \in Destroyers, Destroy(q) PROVE TypeOK'
  BY <1>1, <1>6, AgentAssumption
     DEF Destroy, AgentInv, TypeOK, workerVars, flagVars, workVars
<1>7. CASE CallShutDown \/ Join
  <2>1. ShutDown' \in BOOLEAN
    BY <1>7 DEF CallShutDown, Join, flagVars, AgentInv, TypeOK
  <2>2. joined' \in {"running", "joining", "joined"}
    BY <1>7 DEF CallShutDown, Join
  <2>3. TypeOK'
    BY <1>1, <1>7, <2>1, <2>2 DEF CallShutDown, Join, AgentInv, TypeOK,
       workerVars, flagVars, queueVars, workVars
  <2> QED
    BY <1>2, <2>3 DEF AgentInv
<1> QED
  BY <1>2, <1>3, <1>4, <1>5, <1>6, <1>7 DEF AgentInv

\* The invariant is inductive.
LEMMA NextAgent == AgentInv /\ [Next]_vars => AgentInv'
<1> SUFFICES ASSUME AgentInv, [Next]_vars PROVE AgentInv'
  OBVIOUS
<1>1. CASE Worker
  BY <1>1, RoundStep, PickQueueStep, TestInterruptingStep, TestFlagsStep, WorkStep DEF Worker
<1>2. ASSUME NEW c \in Clients, Inactivate(c) \/ Terminate(c) PROVE AgentInv'
  BY <1>2, InactivateStep, TerminateStep
<1>3. CASE UNCHANGED vars
  BY <1>3 DEF vars, workerVars, flagVars, queueVars, workVars,
     AgentInv, TypeOK, HoldInv, RunInv, FlagInv, QuietInv
<1> QED
  BY <1>1, <1>2, <1>3, OtherClientStep DEF Next

\* The types; above all the worker never gives back a hold on QueueLock that
\* it does not have.
THEOREM AgentTypes == Spec => []TypeOK
<1>1. AgentInv => TypeOK
  BY DEF AgentInv
<1> QED
  BY <1>1, InitAgent, NextAgent, PTL DEF Spec

\* Once hsa_queue_inactivate has returned the worker is not at work on the
\* queue and does not turn to it, for any number of queues and of clients
\* that inactivate the same or different ones.
THEOREM InactivatedIsQuiet == Spec => []NoWorkAfterInactivate
<1>1. AgentInv => NoWorkAfterInactivate
  BY DEF AgentInv, QuietInv, NoWorkAfterInactivate
<1> QED
  BY <1>1, InitAgent, NextAgent, PTL DEF Spec
============================================================================
