--------------------------- MODULE RuntimeProofs ---------------------------
(***************************************************************************)
(* The life of the runtime for any number of threads and any limit of the  *)
(* counter.  The inductive invariant IInv says who is inside               *)
(* ReferenceCounterMutex (MutexInv), that the counter counts the           *)
(* references (CountInv), what is left of the runtime at each step of a    *)
(* call inside the mutex (LifeInv), and who uses the runtime without it    *)
(* (UserInv).                                                              *)
(***************************************************************************)
EXTENDS Runtime, FiniteSetTheorems, TLAPS

Inside == {"init", "assign", "increment", "release", "join", "collect", "reset",
           "decrement"}
Labels == Inside \cup {"idle", "get", "using", "crashed"}

TypeInv ==
  /\ ReferenceCounter \in 0 .. MaxCount
  /\ mutex \in Threads \cup {NULL}
  /\ ShutDown \in BOOLEAN /\ queue \in BOOLEAN
  /\ pc \in [Threads -> Labels]
  /\ holders \subseteq Threads \ Guests

MutexInv == \A t \in Threads : pc[t] \in Inside <=> mutex = t

\* What the thread inside the mutex knows of the references.
CountInv ==
  /\ ReferenceCounter = Cardinality(holders)
  /\ mutex # NULL =>
       /\ pc[mutex] \in {"init", "assign", "increment"} => mutex \notin holders \cup Guests
       /\ pc[mutex] = "assign" => holders = {}
       /\ pc[mutex] = "increment" => ReferenceCounter < MaxCount
       /\ pc[mutex] = "release" => mutex \in holders \/ holders = {}
       /\ pc[mutex] \in {"join", "collect", "reset"} => holders = {mutex}
       /\ pc[mutex] = "decrement" => mutex \in holders

Up == Instance = "live" /\ worker \in {"loop", "poll"} /\ ~ShutDown
Down == Instance = NULL /\ worker = "none" /\ ~ShutDown
Matching == (holders # {} /\ Up) \/ (holders = {} /\ Down)

\* What there is of the runtime, and of its worker, at each step.
LifeInv ==
  /\ mutex = NULL => Matching
  /\ mutex # NULL =>
       /\ pc[mutex] \in {"init", "release"} => Matching
       /\ pc[mutex] = "assign" =>
            Instance = NULL /\ worker = "loop" /\ ~ShutDown /\ queue = FALSE
       /\ pc[mutex] = "increment" => Up
       /\ pc[mutex] = "join" =>
            /\ Instance = "live"
            /\ (ShutDown /\ worker \in {"loop", "poll"}) \/ (~ShutDown /\ worker = "exited")
       /\ pc[mutex] = "collect" => Instance = "live" /\ worker = "none" /\ ~ShutDown
       /\ pc[mutex] = "reset" => Instance = "deleted" /\ worker = "none" /\ ~ShutDown
       /\ pc[mutex] = "decrement" =>
            (holders = {mutex} /\ Down) \/ (holders # {mutex} /\ Up)

\* A thread that uses the runtime holds a reference or is a guest; only
\* guests meet a runtime that is gone.
UserInv ==
  /\ \A t \in Threads : pc[t] \in {"get", "using"} => t \in holders \cup Guests
  /\ \A t \in Threads : pc[t] = "crashed" => t \in Guests

IInv == TypeInv /\ MutexInv /\ CountInv /\ LifeInv /\ UserInv

----------------------------------------------------------------------------
\* Counting the references.
LEMMA HoldersCounted ==
  ASSUME TypeInv, CountInv
  PROVE  /\ IsFiniteSet(holders)
         /\ ReferenceCounter = 0 <=> holders = {}
         /\ \A t \in holders : ReferenceCounter = 1 <=> holders = {t}
<1>1. IsFiniteSet(holders)
  BY RuntimeAssumption, FS_Subset DEF TypeInv
<1>2. Cardinality(holders) = 0 <=> holders = {}
  BY <1>1, FS_EmptySet
<1>3. ASSUME NEW t \in holders PROVE Cardinality(holders) = 1 <=> holders = {t}
  <2>1. Cardinality(holders) = 1 => holders = {t}
    <3>1. ASSUME Cardinality(holders) = 1 PROVE \E x : holders = {x}
      BY <3>1, <1>1, FS_Singleton
    <3> QED
      BY <3>1, <1>3
  <2>2. holders = {t} => Cardinality(holders) = 1
    BY FS_Singleton
  <2> QED
    BY <2>1, <2>2
<1> QED
  BY <1>1, <1>2, <1>3 DEF CountInv

\* A thread with a reference of its own that is not inside the mutex finds
\* the runtime whole, whatever the thread inside is doing.
LEMMA HolderFindsInstance ==
  ASSUME IInv, NEW t \in holders, pc[t] \in {"get", "using"}
  PROVE  Instance = "live"
<1>1. t \in Threads /\ mutex # t
  BY DEF IInv, TypeInv, MutexInv, Inside
<1>2. CASE mutex = NULL
  BY <1>2 DEF IInv, LifeInv, Matching, Up
<1>3. CASE mutex # NULL
  <2>1. mutex \in Threads /\ pc[mutex] \in Inside
    BY <1>3 DEF IInv, TypeInv, MutexInv
  <2>2. holders # {} /\ holders # {mutex}
    BY <1>1
  <2>3. pc[mutex] \notin {"assign", "join", "collect", "reset"}
    BY <1>3, <2>2 DEF IInv, CountInv
  <2> QED
    BY <1>3, <2>1, <2>2, <2>3 DEF IInv, LifeInv, Matching, Up, Inside
<1> QED
  BY <1>2, <1>3

----------------------------------------------------------------------------
\* The invariant holds before the first hsa_init.
LEMMA InitIInv == Init => IInv
<1> SUFFICES ASSUME Init PROVE IInv
  OBVIOUS
<1>1. Cardinality({}) = 0
  BY FS_EmptySet
<1>2. TypeInv
  <2>1. ReferenceCounter \in 0 .. MaxCount
    BY RuntimeAssumption DEF Init
  <2>2. pc \in [Threads -> Labels]
    BY DEF Init, Labels
  <2>3. ShutDown \in BOOLEAN /\ queue \in BOOLEAN
    BY Zenon DEF Init
  <2> QED
    BY <2>1, <2>2, <2>3 DEF Init, TypeInv
<1>3. MutexInv /\ UserInv
  BY RuntimeAssumption DEF Init, MutexInv, UserInv, Inside
<1>4. CountInv /\ LifeInv
  BY <1>1 DEF Init, CountInv, LifeInv, Matching, Down
<1> QED
  BY <1>2, <1>3, <1>4 DEF IInv

----------------------------------------------------------------------------
(* One lemma per action.                                                   *)

\* What every step starts from.
LEMMA Known ==
  ASSUME IInv
  PROVE  /\ TypeInv /\ MutexInv /\ CountInv /\ LifeInv /\ UserInv
         /\ NULL \notin Threads
         /\ ReferenceCounter = 0 <=> holders = {}
         /\ \A u \in holders : ReferenceCounter = 1 <=> holders = {u}
BY HoldersCounted, RuntimeAssumption DEF IInv

\* hsa_init takes the mutex.
LEMMA CallInitStep ==
  ASSUME IInv, NEW t \in Threads, CallInit(t)
  PROVE  IInv'
<1> USE Known DEF CallInit, Goto, Return, agentVars
<1>0. mutex = NULL /\ mutex' = t /\ pc'[t] = "init"
  BY DEF TypeInv, MutexInv, Inside
<1>1. TypeInv'
  BY DEF TypeInv, Labels, Inside
<1>2. MutexInv'
  BY DEF TypeInv, MutexInv, Inside
<1>3. CountInv'
  BY RuntimeAssumption DEF TypeInv, MutexInv, CountInv, Inside
<1>4. LifeInv'
  BY <1>0 DEF TypeInv, CountInv, LifeInv, Matching, Up, Down
<1>5. UserInv'
  BY DEF TypeInv, MutexInv, CountInv, UserInv, Inside
<1> QED
  BY <1>1, <1>2, <1>3, <1>4, <1>5 DEF IInv

\* At the limit hsa_init changes nothing.
LEMMA InitOverflowStep ==
  ASSUME IInv, NEW t \in Threads, InitOverflow(t)
  PROVE  IInv'
<1> USE Known DEF InitOverflow, Goto, Return, agentVars
<1>0. mutex = t /\ mutex' = NULL
  BY DEF TypeInv, MutexInv, Inside
<1>1. TypeInv'
  BY DEF TypeInv, Labels, Inside
<1>2. MutexInv'
  BY DEF TypeInv, MutexInv, Inside
<1>3. CountInv'
  BY RuntimeAssumption DEF TypeInv, MutexInv, CountInv, Inside
<1>4. LifeInv'
  BY <1>0 DEF TypeInv, CountInv, LifeInv, Matching, Up, Down
<1>5. UserInv'
  BY DEF TypeInv, MutexInv, CountInv, UserInv, Inside
<1> QED
  BY <1>1, <1>2, <1>3, <1>4, <1>5 DEF IInv

\* The first reference starts the agent's worker.
LEMMA ConstructStep ==
  ASSUME IInv, NEW t \in Threads, Construct(t)
  PROVE  IInv'
<1> USE Known DEF Construct, Goto, Return, agentVars
<1>0. mutex = t /\ mutex' = t /\ pc'[t] = "assign"
  BY DEF TypeInv, MutexInv, Inside
<1>1. TypeInv'
  BY DEF TypeInv, Labels, Inside
<1>2. MutexInv'
  BY DEF TypeInv, MutexInv, Inside
<1>3. CountInv'
  BY RuntimeAssumption DEF TypeInv, MutexInv, CountInv, Inside
<1>4. LifeInv'
  BY <1>0 DEF TypeInv, CountInv, LifeInv, Matching, Up, Down
<1>5. UserInv'
  BY DEF TypeInv, MutexInv, CountInv, UserInv, Inside
<1> QED
  BY <1>1, <1>2, <1>3, <1>4, <1>5 DEF IInv

\* The instance is published while no thread holds a reference.
LEMMA AssignInstanceStep ==
  ASSUME IInv, NEW t \in Threads, AssignInstance(t)
  PROVE  IInv'
<1> USE Known DEF AssignInstance, Goto, Return, agentVars
<1>0. mutex = t /\ mutex' = t /\ pc'[t] = "increment"
  BY DEF TypeInv, MutexInv, Inside
<1>1. TypeInv'
  BY DEF TypeInv, Labels, Inside
<1>2. MutexInv'
  BY DEF TypeInv, MutexInv, Inside
<1>3. CountInv'
  BY RuntimeAssumption DEF TypeInv, MutexInv, CountInv, Inside
<1>4. LifeInv'
  BY <1>0 DEF TypeInv, CountInv, LifeInv, Matching, Up, Down
<1>5. UserInv'
  BY DEF TypeInv, MutexInv, CountInv, UserInv, Inside
<1> QED
  BY <1>1, <1>2, <1>3, <1>4, <1>5 DEF IInv

\* A further reference finds the instance there.
LEMMA InitAgainStep ==
  ASSUME IInv, NEW t \in Threads, InitAgain(t)
  PROVE  IInv'
<1> USE Known DEF InitAgain, Goto, Return, agentVars
<1>0. mutex = t /\ mutex' = t /\ pc'[t] = "increment"
  BY DEF TypeInv, MutexInv, Inside
<1>1. TypeInv'
  BY DEF TypeInv, Labels, Inside
<1>2. MutexInv'
  BY DEF TypeInv, MutexInv, Inside
<1>3. CountInv'
  BY RuntimeAssumption DEF TypeInv, MutexInv, CountInv, Inside
<1>4. LifeInv'
  BY <1>0 DEF TypeInv, CountInv, LifeInv, Matching, Up, Down
<1>5. UserInv'
  BY DEF TypeInv, MutexInv, CountInv, UserInv, Inside
<1> QED
  BY <1>1, <1>2, <1>3, <1>4, <1>5 DEF IInv

\* hsa_shut_down takes the mutex, with a reference or without a runtime.
LEMMA CallShutDownStep ==
  ASSUME IInv, NEW t \in Threads, CallShutDown(t)
  PROVE  IInv'
<1> USE Known DEF CallShutDown, Goto, Return, agentVars
<1>0. mutex = NULL /\ mutex' = t /\ pc'[t] = "release"
  BY DEF TypeInv, MutexInv, Inside
<1>1. TypeInv'
  BY DEF TypeInv, Labels, Inside
<1>2. MutexInv'
  BY DEF TypeInv, MutexInv, Inside
<1>3. CountInv'
  BY RuntimeAssumption DEF TypeInv, MutexInv, CountInv, Inside
<1>4. LifeInv'
  BY <1>0 DEF TypeInv, CountInv, LifeInv, Matching, Up, Down
<1>5. UserInv'
  BY DEF TypeInv, MutexInv, CountInv, UserInv, Inside
<1> QED
  BY <1>1, <1>2, <1>3, <1>4, <1>5 DEF IInv

\* Without a runtime hsa_shut_down changes nothing.
LEMMA ReleaseNoneStep ==
  ASSUME IInv, NEW t \in Threads, ReleaseNone(t)
  PROVE  IInv'
<1> USE Known DEF ReleaseNone, Goto, Return, agentVars
<1>0. mutex = t /\ mutex' = NULL
  BY DEF TypeInv, MutexInv, Inside
<1>1. TypeInv'
  BY DEF TypeInv, Labels, Inside
<1>2. MutexInv'
  BY DEF TypeInv, MutexInv, Inside
<1>3. CountInv'
  BY RuntimeAssumption DEF TypeInv, MutexInv, CountInv, Inside
<1>4. LifeInv'
  BY <1>0 DEF TypeInv, CountInv, LifeInv, Matching, Up, Down
<1>5. UserInv'
  BY DEF TypeInv, MutexInv, CountInv, UserInv, Inside
<1> QED
  BY <1>1, <1>2, <1>3, <1>4, <1>5 DEF IInv

\* A reference that is not the last leaves the instance alone.
LEMMA ReleaseSharedStep ==
  ASSUME IInv, NEW t \in Threads, ReleaseShared(t)
  PROVE  IInv'
<1> USE Known DEF ReleaseShared, Goto, Return, agentVars
<1>0. mutex = t /\ mutex' = t /\ pc'[t] = "decrement"
  BY DEF TypeInv, MutexInv, Inside
<1>1. TypeInv'
  BY DEF TypeInv, Labels, Inside
<1>2. MutexInv'
  BY DEF TypeInv, MutexInv, Inside
<1>3. CountInv'
  BY RuntimeAssumption DEF TypeInv, MutexInv, CountInv, Inside
<1>4. LifeInv'
  BY <1>0 DEF TypeInv, CountInv, LifeInv, Matching, Up, Down
<1>5. UserInv'
  BY DEF TypeInv, MutexInv, CountInv, UserInv, Inside
<1> QED
  BY <1>1, <1>2, <1>3, <1>4, <1>5 DEF IInv

\* The last reference is the caller's own: nobody else holds one.
LEMMA ReleaseLastStep ==
  ASSUME IInv, NEW t \in Threads, ReleaseLast(t)
  PROVE  IInv'
<1> USE Known DEF ReleaseLast, Goto, Return, agentVars
<1>0. mutex = t /\ mutex' = t /\ pc'[t] = "join"
  BY DEF TypeInv, MutexInv, Inside
<1>1. TypeInv'
  BY DEF TypeInv, Labels, Inside
<1>2. MutexInv'
  BY DEF TypeInv, MutexInv, Inside
<1>3. CountInv'
  BY RuntimeAssumption DEF TypeInv, MutexInv, CountInv, Inside
<1>4. LifeInv'
  BY <1>0 DEF TypeInv, CountInv, LifeInv, Matching, Up, Down
<1>5. UserInv'
  BY DEF TypeInv, MutexInv, CountInv, UserInv, Inside
<1> QED
  BY <1>1, <1>2, <1>3, <1>4, <1>5 DEF IInv

\* The worker has left before anything of the runtime goes.
LEMMA JoinWorkerStep ==
  ASSUME IInv, NEW t \in Threads, JoinWorker(t)
  PROVE  IInv'
<1> USE Known DEF JoinWorker, Goto, Return, agentVars
<1>0. mutex = t /\ mutex' = t /\ pc'[t] = "collect"
  BY DEF TypeInv, MutexInv, Inside
<1>1. TypeInv'
  BY DEF TypeInv, Labels, Inside
<1>2. MutexInv'
  BY DEF TypeInv, MutexInv, Inside
<1>3. CountInv'
  BY RuntimeAssumption DEF TypeInv, MutexInv, CountInv, Inside
<1>4. LifeInv'
  BY <1>0 DEF TypeInv, CountInv, LifeInv, Matching, Up, Down
<1>5. UserInv'
  BY DEF TypeInv, MutexInv, CountInv, UserInv, Inside
<1> QED
  BY <1>1, <1>2, <1>3, <1>4, <1>5 DEF IInv

\* The runtime goes while its only user is the caller.
LEMMA CollectStep ==
  ASSUME IInv, NEW t \in Threads, Collect(t)
  PROVE  IInv'
<1> USE Known DEF Collect, Goto, Return, agentVars
<1>0. mutex = t /\ mutex' = t /\ pc'[t] = "reset"
  BY DEF TypeInv, MutexInv, Inside
<1>1. TypeInv'
  BY DEF TypeInv, Labels, Inside
<1>2. MutexInv'
  BY DEF TypeInv, MutexInv, Inside
<1>3. CountInv'
  BY RuntimeAssumption DEF TypeInv, MutexInv, CountInv, Inside
<1>4. LifeInv'
  BY <1>0 DEF TypeInv, CountInv, LifeInv, Matching, Up, Down
<1>5. UserInv'
  BY DEF TypeInv, MutexInv, CountInv, UserInv, Inside
<1> QED
  BY <1>1, <1>2, <1>3, <1>4, <1>5 DEF IInv

\* The pointer is reset before the counter says so.
LEMMA ResetInstanceStep ==
  ASSUME IInv, NEW t \in Threads, ResetInstance(t)
  PROVE  IInv'
<1> USE Known DEF ResetInstance, Goto, Return, agentVars
<1>0. mutex = t /\ mutex' = t /\ pc'[t] = "decrement"
  BY DEF TypeInv, MutexInv, Inside
<1>1. TypeInv'
  BY DEF TypeInv, Labels, Inside
<1>2. MutexInv'
  BY DEF TypeInv, MutexInv, Inside
<1>3. CountInv'
  BY RuntimeAssumption DEF TypeInv, MutexInv, CountInv, Inside
<1>4. LifeInv'
  BY <1>0 DEF TypeInv, CountInv, LifeInv, Matching, Up, Down
<1>5. UserInv'
  BY DEF TypeInv, MutexInv, CountInv, UserInv, Inside
<1> QED
  BY <1>1, <1>2, <1>3, <1>4, <1>5 DEF IInv

\* Another call sees a positive counter.
LEMMA CallApiStep ==
  ASSUME IInv, NEW t \in Threads, CallApi(t)
  PROVE  IInv'
<1> USE Known DEF CallApi, Goto, Return, agentVars
<1>0. pc[t] \notin Inside /\ mutex' = mutex /\ (mutex # NULL => pc'[mutex] = pc[mutex])
  BY DEF TypeInv, MutexInv, Inside
<1>1. TypeInv'
  BY DEF TypeInv, Labels, Inside
<1>2. MutexInv'
  BY DEF TypeInv, MutexInv, Inside
<1>3. CountInv'
  BY RuntimeAssumption DEF TypeInv, MutexInv, CountInv, Inside
<1>4. LifeInv'
  BY <1>0 DEF TypeInv, CountInv, LifeInv, Matching, Up, Down
<1>5. UserInv'
  BY DEF TypeInv, MutexInv, CountInv, UserInv, Inside, isInitialized
<1> QED
  BY <1>1, <1>2, <1>3, <1>4, <1>5 DEF IInv

\* Runtime::get: only a guest may find the instance gone.
LEMMA GetStep ==
  ASSUME IInv, NEW t \in Threads, Get(t)
  PROVE  IInv'
<1> USE Known DEF Get, Goto, Return, agentVars
<1>1. TypeInv'
  BY DEF TypeInv, Labels, Inside
<1>2. MutexInv'
  BY DEF TypeInv, MutexInv, Inside
<1>3. CountInv'
  BY RuntimeAssumption DEF TypeInv, MutexInv, CountInv, Inside
<1>4. LifeInv'
  BY DEF TypeInv, MutexInv, CountInv, LifeInv, Matching, Up, Down, Inside
<1>5. UserInv'
  <2>1. t \in holders \cup Guests
    BY DEF UserInv
  <2>2. t \in holders => Instance = "live"
    BY HolderFindsInstance
  <2>3. pc'[t] = "crashed" => t \in Guests
    BY <2>1, <2>2 DEF TypeInv
  <2> QED
    BY <2>1, <2>3 DEF TypeInv, UserInv
<1> QED
  BY <1>1, <1>2, <1>3, <1>4, <1>5 DEF IInv

\* The same for what the call does with the runtime.
LEMMA EndApiStep ==
  ASSUME IInv, NEW t \in Threads, EndApi(t)
  PROVE  IInv'
<1> USE Known DEF EndApi, Goto, Return, agentVars
<1>1. TypeInv'
  BY DEF TypeInv, Labels, Inside
<1>2. MutexInv'
  BY DEF TypeInv, MutexInv, Inside
<1>3. CountInv'
  BY RuntimeAssumption DEF TypeInv, MutexInv, CountInv, Inside
<1>4. LifeInv'
  <2>1. UNCHANGED <<mutex, Instance, ShutDown, worker, holders>>
    OBVIOUS
  <2>2. mutex # NULL => mutex # t
    BY DEF MutexInv, Inside
  <2>3. mutex # NULL => pc'[mutex] = pc[mutex]
    BY <2>2 DEF TypeInv
  <2>4. mutex # NULL /\ pc[mutex] = "assign" => queue' = queue
    <3>1. mutex # NULL /\ pc[mutex] = "assign" => Instance # "live"
      BY RuntimeAssumption DEF LifeInv
    <3> QED
      BY <3>1
  <2> HIDE DEF EndApi
  <2> QED
    BY <2>1, <2>3, <2>4 DEF TypeInv, LifeInv, Matching, Up, Down
<1>5. UserInv'
  <2>1. t \in holders \cup Guests
    BY DEF UserInv
  <2>2. t \in holders => Instance = "live"
    BY HolderFindsInstance
  <2>3. pc'[t] = "crashed" => t \in Guests
    BY <2>1, <2>2 DEF TypeInv
  <2> QED
    BY <2>1, <2>3 DEF TypeInv, UserInv
<1> QED
  BY <1>1, <1>2, <1>3, <1>4, <1>5 DEF IInv

\* A new reference is counted.
LEMMA IncrementStep ==
  ASSUME IInv, NEW t \in Threads, Increment(t)
  PROVE  IInv'
<1> USE Known DEF Increment, Goto, Return, agentVars
<1>1. t = mutex /\ t \notin holders \cup Guests /\ ReferenceCounter < MaxCount
  BY DEF MutexInv, CountInv, Inside
<1>2. TypeInv'
  BY <1>1, RuntimeAssumption DEF TypeInv, Labels
<1>3. MutexInv'
  BY DEF TypeInv, MutexInv, Inside
<1>4. CountInv'
  <2>1. Cardinality(holders') = Cardinality(holders) + 1
    BY <1>1, HoldersCounted, FS_AddElement
  <2> QED
    BY <2>1 DEF CountInv
<1>5. LifeInv'
  BY <1>1 DEF LifeInv, Matching, Up
<1>6. UserInv'
  BY DEF TypeInv, UserInv
<1> QED
  BY <1>2, <1>3, <1>4, <1>5, <1>6 DEF IInv

\* A reference given back is counted off.
LEMMA DecrementStep ==
  ASSUME IInv, NEW t \in Threads, Decrement(t)
  PROVE  IInv'
<1> USE Known DEF Decrement, Goto, Return, agentVars
<1>1. t = mutex /\ t \in holders
  BY DEF MutexInv, CountInv, Inside
<1>2. ReferenceCounter # 0
  BY <1>1
<1>3. TypeInv'
  BY <1>1, <1>2, RuntimeAssumption DEF TypeInv, Labels
<1>4. MutexInv'
  BY DEF TypeInv, MutexInv, Inside
<1>5. CountInv'
  <2>1. Cardinality(holders') = Cardinality(holders) - 1
    BY <1>1, HoldersCounted, FS_RemoveElement
  <2> QED
    BY <2>1 DEF CountInv
<1>6. LifeInv'
  <2>1. CASE holders = {t}
    BY <1>1, <2>1 DEF LifeInv, Matching, Down
  <2>2. CASE holders # {t}
    <3>1. holders' # {}
      BY <1>1, <2>2
    <3> QED
      BY <1>1, <2>2, <3>1 DEF LifeInv, Matching, Up
  <2> QED
    BY <2>1, <2>2
<1>7. UserInv'
  BY DEF TypeInv, UserInv
<1> QED
  BY <1>3, <1>4, <1>5, <1>6, <1>7 DEF IInv

\* The worker looks at ShutDown, which only the last reference sets.
LEMMA WorkerStep ==
  ASSUME IInv, Worker
  PROVE  IInv'
<1>1. UNCHANGED <<ReferenceCounter, mutex, Instance, queue, pc, holders>>
  BY DEF Worker, StartPoll, EndPoll, Exit
<1>2. ShutDown' \in BOOLEAN
  BY Known DEF Worker, StartPoll, EndPoll, Exit, TypeInv
<1>3. TypeInv' /\ MutexInv' /\ CountInv' /\ UserInv'
  BY <1>1, <1>2, Known DEF TypeInv, MutexInv, CountInv, UserInv
<1>4. ASSUME StartPoll \/ EndPoll PROVE LifeInv'
  <2>1. worker \in {"loop", "poll"} /\ worker' \in {"loop", "poll"} /\ ShutDown' = ShutDown
    BY <1>4 DEF StartPoll, EndPoll
  <2>2. ~(mutex # NULL /\ pc[mutex] = "assign")
    BY <1>4, Known DEF StartPoll, EndPoll, LifeInv
  <2> QED
    BY <1>1, <2>1, <2>2, Known DEF LifeInv, Matching, Up, Down
<1>5. ASSUME Exit PROVE LifeInv'
  <2>1. mutex # NULL /\ pc[mutex] = "join"
    <3>1. ShutDown
      BY <1>5 DEF Exit
    <3>2. mutex # NULL => pc[mutex] \in Inside
      BY Known DEF MutexInv, TypeInv
    <3> QED
      BY <3>1, <3>2, Known DEF LifeInv, Matching, Up, Down, Inside
  <2> QED
    BY <1>1, <1>5, <2>1, Known DEF Exit, LifeInv
<1> QED
  BY <1>3, <1>4, <1>5 DEF Worker, IInv

\* The invariant is inductive.
LEMMA NextIInv == IInv /\ [Next]_vars => IInv'
<1> SUFFICES ASSUME IInv, [Next]_vars PROVE IInv'
  OBVIOUS
<1>1. ASSUME NEW t \in Threads, CallInit(t) \/ CallShutDown(t) \/ CallApi(t) PROVE IInv'
  BY <1>1, CallInitStep, CallShutDownStep, CallApiStep
<1>2. ASSUME NEW t \in Threads, InCall(t) PROVE IInv'
  BY <1>2, InitOverflowStep, ConstructStep, AssignInstanceStep, InitAgainStep,
     IncrementStep, ReleaseNoneStep, ReleaseSharedStep, ReleaseLastStep,
     JoinWorkerStep, CollectStep, ResetInstanceStep, DecrementStep, GetStep, EndApiStep
     DEF InCall
<1>3. CASE Worker
  BY <1>3, WorkerStep
<1>4. CASE UNCHANGED vars
  BY <1>4 DEF vars, IInv, TypeInv, MutexInv, CountInv, LifeInv, UserInv, Matching, Up, Down
<1> QED
  BY <1>1, <1>2, <1>3, <1>4 DEF Next

----------------------------------------------------------------------------
\* The invariant holds in every state.
LEMMA Invariance == Spec => []IInv
BY InitIInv, NextIInv, PTL DEF Spec

\* Between the calls of hsa_init and hsa_shut_down the runtime and its worker
\* exist exactly if ReferenceCounter is positive.
THEOREM InstanceFollowsCount == Spec => []InstanceMatchesCount
<1>1. IInv => InstanceMatchesCount
  BY Known DEF LifeInv, Matching, Up, Down, InstanceMatchesCount, TypeInv
<1> QED
  BY <1>1, Invariance, PTL

\* The counter is the number of threads whose hsa_init succeeded and that
\* have not called hsa_shut_down, at the limit of the counter too.
THEOREM CounterCounts == Spec => []CountIsHolders
<1>1. IInv => CountIsHolders
  BY DEF IInv, CountInv, CountIsHolders
<1> QED
  BY <1>1, Invariance, PTL

\* Runtime::get gives a live runtime to every thread that holds a reference
\* of its own, although it takes no lock.
THEOREM HoldersAreSafe == Spec => []OwnersAreSafe
<1>1. IInv => OwnersAreSafe
  BY Known, HolderFindsInstance DEF TypeInv, UserInv, OwnersAreSafe
<1> QED
  BY <1>1, Invariance, PTL

\* The agent's worker is joined before the instance it polls through goes.
THEOREM WorkerIsSafe == Spec => []WorkerFindsInstance
<1>1. IInv => WorkerFindsInstance
  <2> SUFFICES ASSUME IInv, worker = "poll" PROVE Instance = "live"
    BY DEF WorkerFindsInstance
  <2>1. mutex # NULL => pc[mutex] \in Inside
    BY Known DEF TypeInv, MutexInv
  <2> QED
    BY <2>1, Known DEF LifeInv, Matching, Up, Down, Inside
<1> QED
  BY <1>1, Invariance, PTL
============================================================================
