--------------------------- MODULE ObjectsProofs ---------------------------
(***************************************************************************)
(* Objects, for any number of threads, addresses, signals and queues.  The *)
(* invariant says of every address who owns it and in which region it is,  *)
(* and of every signal object who will delete it: the call that has it in  *)
(* hand, the client that has its handle, or the queue whose doorbell it is.*)
(***************************************************************************)
EXTENDS Objects, TLAPS

----------------------------------------------------------------------------
(* The invariants.                                                         *)

AllThreads == Threads \cup {RT}
Steps == {"idle", "free_global", "free_group", "register", "free_value", "erase",
          "ring", "doorbell"}
CallSet == [step : Steps, obj : Objs \cup {NULL}, ptr : Addrs \cup {NULL},
            q : Qs \cup {NULL}]
QueueSet == [state : {"none", "base", "up", "deleted"}, region : Regions,
             ring : Addrs \cup {NULL}, doorbell : Addrs \cup {NULL},
             owned : BOOLEAN, destroyed : BOOLEAN]

TypeInv ==
  /\ regions \subseteq Regions
  /\ Allocations \in [Regions -> SUBSET Addrs]
  /\ taken \subseteq Addrs
  /\ Registry \in [Addrs -> Objs \cup {NULL}]
  /\ alive \subseteq Objs
  /\ CurrentValue \in [Objs -> Addrs \cup {NULL}]
  /\ queue \in [Qs -> QueueSet]
  /\ handles \subseteq Addrs /\ blocks \subseteq Addrs
  /\ call \in [AllThreads -> CallSet]
  /\ phase \in {"up", "collect", "off", "crashed"}

\* What a call has in hand, at each of its steps.
GoodCall(c) ==
  /\ c.step = "idle" => c = Idle
  /\ c.ptr # NULL <=> c.step \in {"free_global", "free_group"}
  /\ c.obj # NULL <=> c.step \in {"register", "free_value", "erase"}
  /\ c.q # NULL => c.step \in {"ring", "doorbell", "register"}
  /\ c.step \in {"ring", "doorbell"} => c.q # NULL
CallInv ==
  \A t \in AllThreads : GoodCall(call[t]) /\ (call[t].obj # NULL => call[t].obj \in alive)

\* No two calls have the same object or the same queue in hand.
ApartInv ==
  \A t, u \in AllThreads : t # u =>
    /\ call[t].obj # NULL => call[t].obj # call[u].obj
    /\ call[t].q # NULL => call[t].q # call[u].q

\* The objects that calls have in hand, those whose constructor has yet to
\* register them, those whose destructor has yet to erase them; the queues
\* that calls have in hand, and those that will delete their doorbell.
Held == {o \in Objs : \E t \in AllThreads : call[t].obj = o}
Incomplete == {o \in Objs : At(o, "register")}
Erased == {o \in Objs : At(o, "erase")}
Building == {q \in Qs : \E t \in AllThreads : call[t].q = q}
Belled == {q \in Qs : queue[q].state = "up" /\ queue[q].owned}

\* The clients' calls are over when ~Runtime runs, and the regions are there
\* until it has collected the queues.
PhaseInv ==
  /\ phase \in {"collect", "off"} => \A t \in Threads : call[t] = Idle
  /\ phase \in {"up", "off"} => call[RT] = Idle
  /\ call[RT].step \in {"idle", "free_value", "erase"}
  /\ phase # "off" => regions = Regions
  /\ phase = "off" => \A q \in Qs : queue[q].state # "up"

\* A queue under construction is in the hand of a call.
QueueInv ==
  /\ \A q \in Qs :
       /\ queue[q].state = "base" <=> q \in Building
       /\ queue[q].state = "none" => queue[q].ring = NULL
       /\ queue[q].state = "up" => queue[q].ring # NULL
       /\ queue[q].state \in {"none", "base"} => ~ queue[q].owned
  /\ \A t \in AllThreads : call[t].q # NULL =>
       (queue[call[t].q].ring = NULL <=> call[t].step = "ring")

\* The addresses are in the regions they came from.
RegionInv ==
  /\ taken = Allocations["global"] \cup Allocations["group"]
  /\ Allocations["global"] \cap Allocations["group"] = {}
  /\ \A o \in alive \ Erased : CurrentValue[o] \in Allocations["global"]
  /\ \A q \in Qs : queue[q].ring # NULL /\ queue[q].state # "deleted" =>
       queue[q].ring \in Allocations[queue[q].region]
  /\ \A t \in Threads : call[t].step = "free_group" => call[t].ptr \in Allocations["group"]

\* Every signal object is in the hand of a call, has its handle with the
\* clients, or is the doorbell of the queue that made it.
SignalInv ==
  /\ \A h \in handles : Registry[h] # NULL /\ Registry[h] \notin Held
  /\ \A q \in Belled :
       /\ queue[q].doorbell \in Addrs \ handles
       /\ Registry[queue[q].doorbell] # NULL /\ Registry[queue[q].doorbell] \notin Held
  /\ \A p, q \in Belled : queue[p].doorbell = queue[q].doorbell => p = q
  /\ \A o \in alive : \/ o \in Held \/ CurrentValue[o] \in handles
                      \/ \E q \in Belled : queue[q].doorbell = CurrentValue[o]

\* RegistryExact, over these sets.
RegistryInv ==
  /\ \A o \in alive : o \notin Incomplete /\ o \notin Erased => Registry[CurrentValue[o]] = o
  /\ \A h \in Addrs : Registry[h] # NULL => Registry[h] \in alive /\ CurrentValue[Registry[h]] = h

IInv == /\ TypeInv /\ CallInv /\ ApartInv /\ PhaseInv /\ QueueInv /\ RegionInv
        /\ SignalInv /\ RegistryInv /\ OneOwner

----------------------------------------------------------------------------
(* Owners and their addresses.                                             *)

\* Each kind of owner has its own condition and its own address.
OwnerKinds ==
  /\ \A o \in Objs : /\ o \in Owners <=> o \in alive /\ o \notin Erased
                     /\ AddressOf(o) = CurrentValue[o]
  /\ \A q \in Qs : /\ q \in Owners <=> queue[q].ring # NULL /\ queue[q].state # "deleted"
                   /\ AddressOf(q) = queue[q].ring
  /\ \A a \in Addrs : (a \in Owners <=> a \in blocks) /\ AddressOf(a) = a
  /\ \A t \in Threads : /\ t \in Owners <=> call[t].ptr # NULL
                        /\ AddressOf(t) = call[t].ptr
  /\ Owners \subseteq Objs \cup Qs \cup Addrs \cup Threads

\* The kinds are apart.
LEMMA KindsApart == TypeInv => OwnerKinds
<1> SUFFICES ASSUME TypeInv PROVE OwnerKinds
  OBVIOUS
<1> USE DEF Erased
<1>1. alive \subseteq Objs /\ blocks \subseteq Addrs
  BY DEF TypeInv
<1>2. ASSUME NEW o \in Objs PROVE o \in Owners <=> o \in alive /\ ~ At(o, "erase")
  BY <1>1, ObjectsAssumption DEF Owners
<1>3. ASSUME NEW q \in Qs
      PROVE  q \in Owners <=> queue[q].ring # NULL /\ queue[q].state # "deleted"
  BY <1>1, ObjectsAssumption DEF Owners
<1>4. ASSUME NEW a \in Addrs PROVE a \in Owners <=> a \in blocks
  BY <1>1, ObjectsAssumption DEF Owners
<1>5. ASSUME NEW t \in Threads PROVE t \in Owners <=> call[t].ptr # NULL
  BY <1>1, ObjectsAssumption DEF Owners
<1>6. Owners \subseteq Objs \cup Qs \cup Addrs \cup Threads
  BY <1>1 DEF Owners
<1>7. \A o \in Objs : AddressOf(o) = CurrentValue[o]
  BY ObjectsAssumption DEF AddressOf
<1>8. \A q \in Qs : AddressOf(q) = queue[q].ring
  BY ObjectsAssumption DEF AddressOf
<1>9. \A a \in Addrs : AddressOf(a) = a
  BY ObjectsAssumption DEF AddressOf
<1>10. \A t \in Threads : AddressOf(t) = call[t].ptr
  BY ObjectsAssumption DEF AddressOf
<1> QED
  BY <1>2, <1>3, <1>4, <1>5, <1>6, <1>7, <1>8, <1>9, <1>10 DEF OwnerKinds

\* So they are after a step.
LEMMA KindsApartNext == TypeInv' => OwnerKinds'
BY KindsApart, PTL

\* The owners stay and keep their addresses.
LEMMA OwnersStay ==
  ASSUME OneOwner, taken' = taken, Owners' = Owners,
         \A x \in Owners : AddressOf(x)' = AddressOf(x)
  PROVE  OneOwner'
BY DEF OneOwner

\* A new owner gets an address that malloc had not handed out.
LEMMA OwnerAdded ==
  ASSUME OneOwner, NEW x, NEW a, x \notin Owners, Owners' = Owners \cup {x},
         AddressOf(x)' = a, a \notin taken, taken' = taken \cup {a},
         \A y \in Owners : AddressOf(y)' = AddressOf(y)
  PROVE  OneOwner'
<1>1. \A y \in Owners : AddressOf(y) # a
  BY DEF OneOwner
<1>2. \A y, z \in Owners' : AddressOf(y)' = AddressOf(z)' => y = z
  BY <1>1 DEF OneOwner
<1>3. taken' = {AddressOf(y)' : y \in Owners'}
  BY DEF OneOwner
<1> QED
  BY <1>2, <1>3 DEF OneOwner

\* An owner goes, and its address is free again.
LEMMA OwnerRemoved ==
  ASSUME OneOwner, NEW x \in Owners, Owners' = Owners \ {x},
         taken' = taken \ {AddressOf(x)},
         \A y \in Owners \ {x} : AddressOf(y)' = AddressOf(y)
  PROVE  OneOwner'
<1>1. \A y, z \in Owners' : AddressOf(y)' = AddressOf(z)' => y = z
  BY DEF OneOwner
<1>2. taken' = {AddressOf(y)' : y \in Owners'}
  BY DEF OneOwner
<1> QED
  BY <1>1, <1>2 DEF OneOwner

\* An owner hands its address over to another.
LEMMA OwnerReplaced ==
  ASSUME OneOwner, NEW x \in Owners, NEW z, z \notin Owners,
         Owners' = (Owners \ {x}) \cup {z}, AddressOf(z)' = AddressOf(x), taken' = taken,
         \A y \in Owners \ {x} : AddressOf(y)' = AddressOf(y)
  PROVE  OneOwner'
<1>1. \A y, w \in Owners' : AddressOf(y)' = AddressOf(w)' => y = w
  BY DEF OneOwner
<1>2. taken' = {AddressOf(y)' : y \in Owners'}
  BY DEF OneOwner
<1> QED
  BY <1>1, <1>2 DEF OneOwner

----------------------------------------------------------------------------
(* The regions.                                                            *)

\* The regions share the addresses that malloc has handed out.
Partition ==
  /\ Allocations \in [Regions -> SUBSET Addrs] /\ taken \subseteq Addrs
  /\ taken = Allocations["global"] \cup Allocations["group"]
  /\ Allocations["global"] \cap Allocations["group"] = {}

\* An address that malloc had not handed out enters one region.
LEMMA AllocateEffect ==
  ASSUME Partition, NEW r \in Regions, NEW a \in Addrs, allocate(r, a)
  PROVE  /\ Partition' /\ a \notin taken /\ taken' = taken \cup {a} /\ regions' = regions
         /\ a \in Allocations'[r]
         /\ \A s \in Regions : Allocations[s] \subseteq Allocations'[s]
BY DEF Partition, allocate, Regions

\* An address leaves the one region it is in.
LEMMA FreeEffect ==
  ASSUME Partition, NEW r \in Regions, NEW a \in Addrs, free(r, a), Owns(r, a)
  PROVE  /\ Partition' /\ taken' = taken \ {a} /\ regions' = regions
         /\ \A s \in Regions : Allocations'[s] = Allocations[s] \ {a}
BY DEF Partition, free, Owns, Regions

\* What owns an address keeps it when another owner's is freed.
LEMMA OthersKeep ==
  ASSUME OneOwner, NEW x \in Owners, NEW y \in Owners, x # y
  PROVE  AddressOf(x) # AddressOf(y)
BY DEF OneOwner

----------------------------------------------------------------------------
(* The fields of the records, and the steps of one call.                   *)

\* The fields of a call.
LEMMA CallFields ==
  ASSUME TypeInv, NEW t \in AllThreads
  PROVE  /\ call[t].step \in Steps /\ call[t].obj \in Objs \cup {NULL}
         /\ call[t].ptr \in Addrs \cup {NULL} /\ call[t].q \in Qs \cup {NULL}
BY DEF TypeInv, CallSet

\* The fields of a queue.
LEMMA QueueFields ==
  ASSUME TypeInv, NEW q \in Qs
  PROVE  /\ queue[q].state \in {"none", "base", "up", "deleted"} /\ queue[q].region \in Regions
         /\ queue[q].ring \in Addrs \cup {NULL} /\ queue[q].doorbell \in Addrs \cup {NULL}
         /\ queue[q].owned \in BOOLEAN
BY DEF TypeInv, QueueSet

\* The fields of a thread that is in no call.
LEMMA IdleFields ==
  /\ Idle \in CallSet /\ Idle.step = "idle" /\ Idle.obj = NULL /\ Idle.ptr = NULL /\ Idle.q = NULL
BY DEF Idle, CallSet, Steps

\* What a call has in hand when it goes on to a step: what it had,
\* or an address, an object or a queue too.
LEMMA StepRecord ==
  ASSUME NEW t, NEW c \in CallSet, NEW s \in Steps, Step(t, s, c)
  PROVE  \E r \in CallSet : /\ call' = [call EXCEPT ![t] = r] /\ r.step = s
                            /\ r.obj = c.obj /\ r.ptr = c.ptr /\ r.q = c.q
<1> DEFINE n == [c EXCEPT !.step = s]
<1>1. n \in CallSet /\ n.step = s /\ n.obj = c.obj /\ n.ptr = c.ptr /\ n.q = c.q
  BY DEF CallSet
<1>2. call' = [call EXCEPT ![t] = n]
  BY DEF Step
<1> HIDE DEF n
<1> QED
  BY <1>1, <1>2

\* The same with an address,
LEMMA StepWithPtr ==
  ASSUME NEW t, NEW c \in CallSet, NEW a \in Addrs, NEW s \in Steps,
         Step(t, s, [c EXCEPT !.ptr = a])
  PROVE  \E r \in CallSet : /\ call' = [call EXCEPT ![t] = r] /\ r.step = s
                            /\ r.ptr = a /\ r.obj = c.obj /\ r.q = c.q
<1> DEFINE n == [c EXCEPT !.ptr = a]
<1>1. n \in CallSet /\ n.ptr = a /\ n.obj = c.obj /\ n.q = c.q
  BY DEF CallSet
<1>2. Step(t, s, n)
  OBVIOUS
<1> HIDE DEF n
<1> QED
  BY <1>1, <1>2, StepRecord

\* with an object,
LEMMA StepWithObj ==
  ASSUME NEW t, NEW c \in CallSet, NEW o \in Objs, NEW s \in Steps,
         Step(t, s, [c EXCEPT !.obj = o])
  PROVE  \E r \in CallSet : /\ call' = [call EXCEPT ![t] = r] /\ r.step = s
                            /\ r.obj = o /\ r.ptr = c.ptr /\ r.q = c.q
<1> DEFINE n == [c EXCEPT !.obj = o]
<1>1. n \in CallSet /\ n.obj = o /\ n.ptr = c.ptr /\ n.q = c.q
  BY DEF CallSet
<1>2. Step(t, s, n)
  OBVIOUS
<1> HIDE DEF n
<1> QED
  BY <1>1, <1>2, StepRecord

\* and with a queue.
LEMMA StepWithQueue ==
  ASSUME NEW t, NEW c \in CallSet, NEW k \in Qs, NEW s \in Steps,
         Step(t, s, [c EXCEPT !.q = k])
  PROVE  \E r \in CallSet : /\ call' = [call EXCEPT ![t] = r] /\ r.step = s
                            /\ r.q = k /\ r.obj = c.obj /\ r.ptr = c.ptr
<1> DEFINE n == [c EXCEPT !.q = k]
<1>1. n \in CallSet /\ n.q = k /\ n.obj = c.obj /\ n.ptr = c.ptr
  BY DEF CallSet
<1>2. Step(t, s, n)
  OBVIOUS
<1> HIDE DEF n
<1> QED
  BY <1>1, <1>2, StepRecord

\* A step of the call of t, which puts r in its hand.
LEMMA CallChange ==
  ASSUME TypeInv, CallInv, ApartInv, NEW t \in AllThreads, NEW r \in CallSet,
         call' = [call EXCEPT ![t] = r], GoodCall(r),
         r.obj # NULL => r.obj \in alive' /\ (r.obj \notin Held \/ r.obj = call[t].obj),
         r.q # NULL => r.q \notin Building \/ r.q = call[t].q,
         \A o \in Held : o \in alive' \/ o = call[t].obj
  PROVE  /\ call' \in [AllThreads -> CallSet] /\ call'[t] = r
         /\ \A u \in AllThreads \ {t} : call'[u] = call[u]
         /\ CallInv' /\ ApartInv'
<1>1. /\ call' \in [AllThreads -> CallSet] /\ call'[t] = r
      /\ \A u \in AllThreads \ {t} : call'[u] = call[u]
  BY DEF TypeInv
<1>2. /\ \A u \in AllThreads : call[u].obj # NULL => call[u].obj \in Held
      /\ \A u \in AllThreads : call[u].q # NULL => call[u].q \in Building
  BY CallFields DEF Held, Building
<1>3. \A u \in AllThreads : GoodCall(call'[u])
  BY <1>1 DEF CallInv
<1>4. ASSUME NEW u \in AllThreads, call'[u].obj # NULL PROVE call'[u].obj \in alive'
  <2>1. CASE u = t
    BY <1>1, <1>4, <2>1
  <2>2. CASE u # t
    BY <1>1, <1>2, <1>4, <2>2 DEF ApartInv
  <2> QED
    BY <2>1, <2>2
<1>5. CallInv'
  BY <1>3, <1>4 DEF CallInv, GoodCall
<1>6. ASSUME NEW u \in AllThreads, NEW w \in AllThreads, u # w
      PROVE  /\ call'[u].obj # NULL => call'[u].obj # call'[w].obj
             /\ call'[u].q # NULL => call'[u].q # call'[w].q
  BY <1>1, <1>2, <1>6 DEF ApartInv
<1> QED
  BY <1>1, <1>5, <1>6 DEF ApartInv

\* What is in hand after a step of the call of t.
LEMMA HandsChange ==
  ASSUME TypeInv, ApartInv, NEW t \in AllThreads,
         \A u \in AllThreads \ {t} : call'[u] = call[u]
  PROVE  /\ \A o \in Objs :
              /\ o \in Held' <=> (o \in Held /\ o # call[t].obj) \/ o = call'[t].obj
              /\ o \in Incomplete' <=> \/ o \in Incomplete /\ o # call[t].obj
                                       \/ o = call'[t].obj /\ call'[t].step = "register"
              /\ o \in Erased' <=> \/ o \in Erased /\ o # call[t].obj
                                   \/ o = call'[t].obj /\ call'[t].step = "erase"
         /\ \A q \in Qs : q \in Building' <=> (q \in Building /\ q # call[t].q) \/ q = call'[t].q
<1>1. ASSUME NEW o \in Objs
      PROVE  o \in Held' <=> (o \in Held /\ o # call[t].obj) \/ o = call'[t].obj
  BY ObjectsAssumption DEF Held, ApartInv
<1>2. ASSUME NEW o \in Objs
      PROVE  o \in Incomplete' <=> \/ o \in Incomplete /\ o # call[t].obj
                                   \/ o = call'[t].obj /\ call'[t].step = "register"
  BY ObjectsAssumption DEF Incomplete, ApartInv, At, AllThreads
<1>3. ASSUME NEW o \in Objs
      PROVE  o \in Erased' <=> \/ o \in Erased /\ o # call[t].obj
                               \/ o = call'[t].obj /\ call'[t].step = "erase"
  BY ObjectsAssumption DEF Erased, ApartInv, At, AllThreads
<1>4. ASSUME NEW q \in Qs
      PROVE  q \in Building' <=> (q \in Building /\ q # call[t].q) \/ q = call'[t].q
  BY ObjectsAssumption DEF Building, ApartInv
<1> QED
  BY <1>1, <1>2, <1>3, <1>4

\* What is in hand is what the calls have.
LEMMA Hands ==
  ASSUME TypeInv, CallInv, ApartInv, NEW t \in AllThreads
  PROVE  /\ call[t].obj # NULL => call[t].obj \in Held
         /\ call[t].q # NULL => call[t].q \in Building
         /\ call[t].obj # NULL => (call[t].obj \in Incomplete <=> call[t].step = "register")
         /\ call[t].obj # NULL => (call[t].obj \in Erased <=> call[t].step = "erase")
         /\ Held \subseteq alive /\ Incomplete \subseteq Held /\ Erased \subseteq Held
<1>1. call[t].obj \in Objs \cup {NULL} /\ call[t].q \in Qs \cup {NULL}
  BY CallFields
<1>2. Held \subseteq alive
  BY ObjectsAssumption DEF Held, CallInv
<1>3. Incomplete \subseteq Held /\ Erased \subseteq Held
  BY DEF Held, Incomplete, Erased, At, AllThreads
<1> QED
  BY <1>1, <1>2, <1>3, ObjectsAssumption DEF Held, Building, Incomplete, Erased, At, AllThreads, ApartInv

\* A step of no call leaves in hand what is in hand.
LEMMA SameHands ==
  ASSUME UNCHANGED call
  PROVE  Held' = Held /\ Incomplete' = Incomplete /\ Erased' = Erased /\ Building' = Building
BY DEF Held, Incomplete, Erased, Building, At

\* The queues that own their doorbells are read off the queues.
LEMMA SameBells ==
  ASSUME UNCHANGED queue
  PROVE  Belled' = Belled
BY DEF Belled

----------------------------------------------------------------------------
(* Memory.                                                                 *)

\* A call gets a block of memory.
LEMMA MemoryAllocateStep ==
  ASSUME IInv, NEW t \in Threads, MemoryAllocate(t)
  PROVE  IInv'
<1> USE DEF IInv
<1>0. PICK r \in Regions, a \in Addrs : allocate(r, a) /\ blocks' = blocks \cup {a}
  BY DEF MemoryAllocate
<1>1. UNCHANGED <<Registry, alive, CurrentValue, queue, handles, call, phase>>
  BY DEF MemoryAllocate, sigVars
<1>2. /\ Held' = Held /\ Incomplete' = Incomplete /\ Erased' = Erased /\ Building' = Building
      /\ Belled' = Belled
  BY <1>1, SameHands, SameBells
<1>3. /\ Partition' /\ a \notin taken /\ taken' = taken \cup {a} /\ regions' = regions
      /\ \A s \in Regions : Allocations[s] \subseteq Allocations'[s]
  BY <1>0, AllocateEffect DEF Partition, TypeInv, RegionInv
<1>4. TypeInv'
  BY <1>0, <1>1, <1>3 DEF TypeInv, Partition
<1>5. CallInv' /\ ApartInv' /\ PhaseInv' /\ QueueInv' /\ SignalInv' /\ RegistryInv'
  BY <1>1, <1>2, <1>3 DEF CallInv, GoodCall, ApartInv, PhaseInv, QueueInv, SignalInv, RegistryInv
<1>6. RegionInv'
  BY <1>1, <1>2, <1>3, QueueFields DEF RegionInv, Partition, Regions
<1>7. OneOwner'
  <2>1. OwnerKinds /\ OwnerKinds'
    BY <1>4, KindsApart, KindsApartNext
  <2>2. a \notin Owners
    BY <1>3, <2>1 DEF OneOwner, OwnerKinds
  <2>3. Owners' = Owners \cup {a} /\ \A x \in Owners : AddressOf(x)' = AddressOf(x)
    BY <1>0, <1>1, <1>2, <2>1 DEF OwnerKinds
  <2>4. AddressOf(a)' = a
    BY <2>1 DEF OwnerKinds
  <2> QED
    BY <1>3, <2>2, <2>3, <2>4, OwnerAdded
<1> QED
  BY <1>4, <1>5, <1>6, <1>7

\* The call that frees a block owns its address from now on.
LEMMA MemoryFreeStep ==
  ASSUME IInv, NEW t \in Threads, phase = "up", MemoryFree(t)
  PROVE  IInv'
<1> USE DEF IInv, AllThreads
<1>0. PICK a \in blocks : /\ blocks' = blocks \ {a}
                          /\ Step(t, "free_global", [Idle EXCEPT !.ptr = a])
  BY DEF MemoryFree
<1>1. /\ UNCHANGED <<regions, Allocations, taken, Registry, alive, CurrentValue, queue,
                     handles, phase>>
      /\ call[t] = Idle /\ a \in Addrs /\ Belled' = Belled
  BY SameBells DEF MemoryFree, TypeInv, sigVars, memVars
<1>2. PICK r \in CallSet : /\ call' = [call EXCEPT ![t] = r]
                           /\ r.step = "free_global" /\ r.ptr = a /\ r.obj = NULL /\ r.q = NULL
  BY <1>0, <1>1, StepWithPtr, IdleFields DEF Steps
<1>3. call[t].step = "idle" /\ call[t].ptr = NULL /\ call[t].obj = NULL /\ call[t].q = NULL
  BY <1>1, IdleFields
<1>4. /\ call' \in [AllThreads -> CallSet] /\ call'[t] = r
      /\ \A u \in AllThreads \ {t} : call'[u] = call[u]
      /\ CallInv' /\ ApartInv'
  <2>1. GoodCall(r) /\ Held \subseteq alive'
    BY <1>1, <1>2, Hands, ObjectsAssumption DEF GoodCall
  <2> QED
    BY <1>2, <2>1, CallChange
<1>5. TypeInv'
  BY <1>0, <1>1, <1>4 DEF TypeInv
<1>6. /\ \A o \in Objs : (o \in Held' <=> o \in Held) /\ (o \in Incomplete' <=> o \in Incomplete)
                         /\ (o \in Erased' <=> o \in Erased)
      /\ \A q \in Qs : q \in Building' <=> q \in Building
  BY <1>2, <1>3, <1>4, HandsChange, ObjectsAssumption
<1>7. PhaseInv'
  BY <1>1, <1>4, ObjectsAssumption DEF PhaseInv
<1>8. QueueInv'
  BY <1>1, <1>2, <1>3, <1>4, <1>6 DEF QueueInv
<1>9. SignalInv' /\ RegistryInv'
  BY <1>1, <1>6 DEF SignalInv, RegistryInv, TypeInv
<1>10. RegionInv'
  BY <1>1, <1>2, <1>4, <1>6 DEF RegionInv, TypeInv
<1>11. OneOwner'
  <2>1. OwnerKinds /\ OwnerKinds'
    BY <1>5, KindsApart, KindsApartNext
  <2>2. a \in Owners /\ t \notin Owners /\ AddressOf(a) = a /\ AddressOf(t)' = a
    BY <1>1, <1>2, <1>3, <1>4, <2>1 DEF OwnerKinds
  <2>3. Owners' = (Owners \ {a}) \cup {t}
    BY <1>0, <1>1, <1>2, <1>3, <1>4, <1>6, <2>1, ObjectsAssumption DEF OwnerKinds, TypeInv
  <2>4. \A x \in Owners \ {a} : AddressOf(x)' = AddressOf(x)
    BY <1>1, <1>4, <2>1, <2>2, ObjectsAssumption DEF OwnerKinds
  <2> QED
    BY <1>1, <2>2, <2>3, <2>4, OwnerReplaced
<1> QED
  BY <1>4, <1>5, <1>7, <1>8, <1>9, <1>10, <1>11

\* The first region does not have the block: the second is asked.
LEMMA AskSecondStep ==
  ASSUME IInv, NEW t \in Threads, phase = "up", FreeInGlobal(t), ~ Owns("global", call[t].ptr)
  PROVE  IInv'
<1> USE DEF IInv, AllThreads
<1>1. /\ UNCHANGED <<regions, Allocations, taken, Registry, alive, CurrentValue, queue,
                     handles, blocks, phase>>
      /\ call[t].step = "free_global" /\ Belled' = Belled
  BY SameBells DEF FreeInGlobal, free, sigVars
<1>2. call[t].ptr \in Addrs /\ call[t].obj = NULL /\ call[t].q = NULL /\ call[t] \in CallSet
  BY <1>1, CallFields DEF CallInv, GoodCall, TypeInv
<1>3. PICK r \in CallSet : /\ call' = [call EXCEPT ![t] = r] /\ r.step = "free_group"
                           /\ r.ptr = call[t].ptr /\ r.obj = NULL /\ r.q = NULL
  BY <1>2, StepRecord DEF FreeInGlobal, Steps
<1>4. /\ call' \in [AllThreads -> CallSet] /\ call'[t] = r
      /\ \A u \in AllThreads \ {t} : call'[u] = call[u]
      /\ CallInv' /\ ApartInv'
  <2>1. GoodCall(r) /\ Held \subseteq alive'
    BY <1>1, <1>2, <1>3, Hands, ObjectsAssumption DEF GoodCall
  <2> QED
    BY <1>3, <2>1, CallChange
<1>5. TypeInv'
  BY <1>1, <1>4 DEF TypeInv
<1>6. /\ \A o \in Objs : (o \in Held' <=> o \in Held) /\ (o \in Incomplete' <=> o \in Incomplete)
                         /\ (o \in Erased' <=> o \in Erased)
      /\ \A q \in Qs : q \in Building' <=> q \in Building
  BY <1>2, <1>3, <1>4, HandsChange, ObjectsAssumption
<1>7. PhaseInv'
  BY <1>1, <1>4, ObjectsAssumption DEF PhaseInv
<1>8. QueueInv'
  BY <1>1, <1>2, <1>3, <1>4, <1>6 DEF QueueInv
<1>9. SignalInv' /\ RegistryInv'
  BY <1>1, <1>6 DEF SignalInv, RegistryInv, TypeInv
<1>10. OwnerKinds /\ OwnerKinds' /\ t \in Owners /\ AddressOf(t) = call[t].ptr
  BY <1>2, <1>5, KindsApart, KindsApartNext, ObjectsAssumption DEF OwnerKinds
<1>11. call[t].ptr \in Allocations["group"]
  BY <1>10 DEF OneOwner, Owns, RegionInv, PhaseInv, Regions
<1>12. RegionInv'
  BY <1>1, <1>3, <1>4, <1>6, <1>11 DEF RegionInv, TypeInv
<1>13. OneOwner'
  <2>1. \A u \in Threads : u \in Owners' <=> u \in Owners
    BY <1>3, <1>4, <1>10 DEF OwnerKinds
  <2>2. \A x \in Objs \cup Qs \cup Addrs : x \in Owners' <=> x \in Owners
    BY <1>1, <1>6, <1>10 DEF OwnerKinds
  <2>3. Owners' = Owners
    BY <1>10, <2>1, <2>2 DEF OwnerKinds
  <2>4. \A x \in Owners : AddressOf(x)' = AddressOf(x)
    BY <1>1, <1>3, <1>4, <1>10, ObjectsAssumption DEF OwnerKinds
  <2> QED
    BY <1>1, <2>3, <2>4, OwnersStay
<1> QED
  BY <1>4, <1>5, <1>7, <1>8, <1>9, <1>12, <1>13

\* The region that has the block frees it.
LEMMA FreeBlockStep ==
  ASSUME IInv, NEW t \in Threads, phase = "up", NEW g \in Regions,
         call[t].step \in {"free_global", "free_group"}, free(g, call[t].ptr),
         Owns(g, call[t].ptr), Return(t),
         UNCHANGED <<Registry, alive, CurrentValue, queue, handles, blocks, phase>>
  PROVE  IInv'
<1> USE DEF IInv, AllThreads
<1>1. /\ call[t].ptr \in Addrs /\ call[t].ptr # NULL /\ call[t].obj = NULL /\ call[t].q = NULL
      /\ Belled' = Belled
  BY CallFields, SameBells, ObjectsAssumption DEF CallInv, GoodCall
<1>2. /\ Partition' /\ taken' = taken \ {call[t].ptr} /\ regions' = regions
      /\ \A s \in Regions : Allocations'[s] = Allocations[s] \ {call[t].ptr}
  BY <1>1, FreeEffect DEF Partition, TypeInv, RegionInv
<1>3. PICK r \in CallSet : call' = [call EXCEPT ![t] = r] /\ r = Idle
  BY IdleFields DEF Return
<1>4. /\ call' \in [AllThreads -> CallSet] /\ call'[t] = r
      /\ \A u \in AllThreads \ {t} : call'[u] = call[u]
      /\ CallInv' /\ ApartInv'
  <2>1. GoodCall(r) /\ r.obj = NULL /\ r.q = NULL /\ Held \subseteq alive'
    BY <1>3, Hands, IdleFields DEF GoodCall
  <2> QED
    BY <1>3, <2>1, CallChange
<1>5. TypeInv'
  BY <1>2, <1>4 DEF TypeInv, Partition
<1>6. /\ \A o \in Objs : (o \in Held' <=> o \in Held) /\ (o \in Incomplete' <=> o \in Incomplete)
                         /\ (o \in Erased' <=> o \in Erased)
      /\ \A q \in Qs : q \in Building' <=> q \in Building
  BY <1>1, <1>3, <1>4, IdleFields, HandsChange, ObjectsAssumption
<1>7. PhaseInv'
  BY <1>2, <1>4, ObjectsAssumption DEF PhaseInv
<1>8. QueueInv'
  BY <1>3, <1>4, <1>6, IdleFields DEF QueueInv
<1>9. SignalInv' /\ RegistryInv'
  BY <1>1, <1>6 DEF SignalInv, RegistryInv, TypeInv
<1>10. /\ OwnerKinds /\ OwnerKinds' /\ t \in Owners /\ AddressOf(t) = call[t].ptr
       /\ \A y \in Owners \ {t} : AddressOf(y) # call[t].ptr
  BY <1>1, <1>5, KindsApart, KindsApartNext, OthersKeep, ObjectsAssumption DEF OwnerKinds
<1>11. RegionInv'
  <2>1. \A o \in alive' \ Erased' : CurrentValue'[o] \in Allocations'["global"]
    BY <1>2, <1>6, <1>10, ObjectsAssumption DEF RegionInv, OwnerKinds, TypeInv, Regions
  <2>2. \A q \in Qs : queue'[q].ring # NULL /\ queue'[q].state # "deleted" =>
          queue'[q].ring \in Allocations'[queue'[q].region]
    BY <1>2, <1>10, QueueFields, ObjectsAssumption DEF RegionInv, OwnerKinds
  <2>3. \A u \in Threads : call'[u].step = "free_group" => call'[u].ptr \in Allocations'["group"]
    <3>1. ASSUME NEW u \in Threads, u # t, call[u].step = "free_group"
          PROVE  call[u].ptr # call[t].ptr
      BY <1>10, <3>1 DEF CallInv, GoodCall, OwnerKinds
    <3> QED
      BY <1>2, <1>3, <1>4, <3>1, IdleFields DEF RegionInv, Regions
  <2> QED
    BY <1>2, <2>1, <2>2, <2>3 DEF RegionInv, Partition
<1>12. OneOwner'
  <2>1. Owners' = Owners \ {t}
    BY <1>3, <1>4, <1>6, <1>10, IdleFields, ObjectsAssumption DEF OwnerKinds, TypeInv
  <2>2. \A x \in Owners \ {t} : AddressOf(x)' = AddressOf(x)
    BY <1>4, <1>10, ObjectsAssumption DEF OwnerKinds
  <2> QED
    BY <1>2, <1>10, <2>1, <2>2, OwnerRemoved
<1> QED
  BY <1>4, <1>5, <1>7, <1>8, <1>9, <1>11, <1>12

\* The call frees the block in the region that has it.
LEMMA FreeStep ==
  ASSUME IInv, NEW t \in Threads, phase = "up", FreeInGlobal(t) \/ FreeInGroup(t)
  PROVE  IInv'
<1>1. CASE FreeInGlobal(t) /\ ~ Owns("global", call[t].ptr)
  BY <1>1, AskSecondStep
<1>2. CASE FreeInGlobal(t) /\ Owns("global", call[t].ptr)
  BY <1>2, FreeBlockStep DEF FreeInGlobal, sigVars, Regions
<1>3. CASE FreeInGroup(t)
  <2>1. Owns("group", call[t].ptr)
    BY <1>3 DEF FreeInGroup, IInv, RegionInv, Owns, PhaseInv, Regions
  <2> QED
    BY <1>3, <2>1, FreeBlockStep DEF FreeInGroup, sigVars, Regions
<1> QED
  BY <1>1, <1>2, <1>3

----------------------------------------------------------------------------
(* Signals.                                                                *)

\* A new signal is in the hand of the call that makes it.
LEMMA ConstructStep ==
  ASSUME IInv, NEW t \in Threads, phase = "up", NEW c, c = call[t],
         c.step \in {"idle", "doorbell"}, ConstructSignal(t, c),
         UNCHANGED <<queue, handles, blocks, phase>>
  PROVE  IInv'
<1> USE DEF IInv, AllThreads
<1>0. PICK o \in Objs \ alive, a \in Addrs :
        /\ allocate("global", a)
        /\ alive' = alive \cup {o} /\ CurrentValue' = [CurrentValue EXCEPT ![o] = a]
        /\ Step(t, "register", [c EXCEPT !.obj = o])
        /\ UNCHANGED Registry
  BY DEF ConstructSignal
<1>1. /\ c \in CallSet /\ c.obj = NULL /\ c.ptr = NULL /\ Belled' = Belled
      /\ c.q \in Qs \cup {NULL} /\ (c.q # NULL => c.step = "doorbell")
      /\ Held \subseteq alive /\ Incomplete \subseteq Held /\ Erased \subseteq Held
      /\ call[t].q # NULL => call[t].q \in Building
  BY CallFields, Hands, SameBells DEF CallInv, GoodCall, TypeInv
<1>2. PICK r \in CallSet : /\ call' = [call EXCEPT ![t] = r]
                           /\ r.step = "register" /\ r.obj = o /\ r.ptr = NULL /\ r.q = c.q
  <2>1. c \in CallSet /\ o \in Objs /\ "register" \in Steps
    BY <1>1 DEF Steps
  <2>2. Step(t, "register", [c EXCEPT !.obj = o])
    BY <1>0
  <2>3. PICK r \in CallSet : /\ call' = [call EXCEPT ![t] = r]
                             /\ r.step = "register" /\ r.obj = o /\ r.ptr = c.ptr /\ r.q = c.q
    BY <2>1, <2>2, StepWithObj
  <2> QED
    BY <1>1, <2>3
<1>3. /\ call' \in [AllThreads -> CallSet] /\ call'[t] = r
      /\ \A u \in AllThreads \ {t} : call'[u] = call[u]
      /\ CallInv' /\ ApartInv'
  <2>1. GoodCall(r) /\ o \in alive' /\ o \notin Held /\ Held \subseteq alive'
    BY <1>0, <1>1, <1>2, ObjectsAssumption DEF GoodCall
  <2> QED
    BY <1>2, <2>1, CallChange
<1>4. /\ Partition' /\ a \notin taken /\ taken' = taken \cup {a} /\ regions' = regions
      /\ a \in Allocations'["global"]
      /\ \A s \in Regions : Allocations[s] \subseteq Allocations'[s]
  BY <1>0, AllocateEffect DEF Partition, TypeInv, RegionInv, Regions
<1>5. TypeInv'
  BY <1>0, <1>3, <1>4 DEF TypeInv, Partition
<1>6. /\ \A x \in Objs : /\ x \in Held' <=> x \in Held \/ x = o
                         /\ x \in Incomplete' <=> x \in Incomplete \/ x = o
                         /\ x \in Erased' <=> x \in Erased
      /\ \A q \in Qs : q \in Building' <=> q \in Building
  BY <1>1, <1>2, <1>3, HandsChange, ObjectsAssumption
<1>7. CurrentValue'[o] = a /\ \A x \in Objs \ {o} : CurrentValue'[x] = CurrentValue[x]
  BY <1>0 DEF TypeInv
<1>8. PhaseInv'
  BY <1>3, <1>4, ObjectsAssumption DEF PhaseInv
<1>9. QueueInv'
  BY <1>1, <1>2, <1>3, <1>6 DEF QueueInv
<1>10. SignalInv'
  <2>1. \A h \in Addrs : Registry[h] # NULL => Registry[h] # o /\ Registry[h] \in Objs
    BY <1>0 DEF RegistryInv, TypeInv
  <2>2. \A h \in handles : Registry[h] # NULL /\ Registry[h] \notin Held'
    BY <1>6, <2>1 DEF SignalInv, TypeInv
  <2>3. \A q \in Belled : /\ queue[q].doorbell \in Addrs \ handles
                          /\ Registry[queue[q].doorbell] # NULL
                          /\ Registry[queue[q].doorbell] \notin Held'
    BY <1>6, <2>1 DEF SignalInv
  <2>4. \A x \in alive' : \/ x \in Held' \/ CurrentValue'[x] \in handles
                          \/ \E q \in Belled : queue[q].doorbell = CurrentValue'[x]
    BY <1>0, <1>6, <1>7 DEF SignalInv, TypeInv
  <2> QED
    BY <1>0, <1>1, <2>2, <2>3, <2>4 DEF SignalInv
<1>11. RegistryInv'
  BY <1>0, <1>6, <1>7 DEF RegistryInv, TypeInv
<1>12. RegionInv'
  <2>1. \A x \in alive' \ Erased' : CurrentValue'[x] \in Allocations'["global"]
    BY <1>0, <1>4, <1>6, <1>7 DEF RegionInv, TypeInv, Regions
  <2>2. \A q \in Qs : queue'[q].ring # NULL /\ queue'[q].state # "deleted" =>
          queue'[q].ring \in Allocations'[queue'[q].region]
    BY <1>4, QueueFields DEF RegionInv
  <2>3. \A u \in Threads : call'[u].step = "free_group" => call'[u].ptr \in Allocations'["group"]
    BY <1>2, <1>3, <1>4 DEF RegionInv, Regions
  <2> QED
    BY <1>4, <2>1, <2>2, <2>3 DEF RegionInv, Partition
<1>13. OneOwner'
  <2>1. OwnerKinds /\ OwnerKinds' /\ o \notin Owners /\ AddressOf(o)' = a
    BY <1>0, <1>5, <1>7, KindsApart, KindsApartNext DEF OwnerKinds
  <2>2. \A x \in Objs \cup Qs \cup Addrs : x \in Owners' <=> x \in Owners \/ x = o
    BY <1>0, <1>1, <1>6, <2>1, ObjectsAssumption DEF OwnerKinds
  <2>3. \A u \in Threads : u \in Owners' <=> u \in Owners
    BY <1>1, <1>2, <1>3, <2>1 DEF OwnerKinds
  <2>4. Owners' = Owners \cup {o}
    BY <2>1, <2>2, <2>3, ObjectsAssumption DEF OwnerKinds
  <2>5. \A x \in Owners : AddressOf(x)' = AddressOf(x)
    BY <1>1, <1>2, <1>3, <1>7, <2>1, ObjectsAssumption DEF OwnerKinds
  <2> QED
    BY <1>4, <2>1, <2>4, <2>5, OwnerAdded
<1> QED
  BY <1>3, <1>5, <1>8, <1>9, <1>10, <1>11, <1>12, <1>13

\* The complete signal goes to the client, or to the queue whose doorbell it is.
LEMMA RegisterStep ==
  ASSUME IInv, NEW t \in Threads, phase = "up", RegisterSignal(t)
  PROVE  IInv'
<1> USE DEF IInv, AllThreads
<1>1. PICK o \in Objs, k \in Qs \cup {NULL}, a \in Addrs :
        o = call[t].obj /\ k = call[t].q /\ a = CurrentValue[o] /\ o \in alive /\ o \notin Erased
        /\ o \in Held /\ o \in Incomplete
  <2>1. /\ call[t].step = "register" /\ call[t].obj # NULL /\ call[t].ptr = NULL
        /\ call[t].obj \in Objs /\ call[t].q \in Qs \cup {NULL} /\ call[t].obj \in alive
    BY CallFields DEF RegisterSignal, CallInv, GoodCall
  <2>2. /\ call[t].obj \notin Erased /\ call[t].obj \in Held /\ call[t].obj \in Incomplete
    BY <2>1, Hands
  <2> QED
    BY <2>1, <2>2 DEF RegionInv, TypeInv, Regions
<1>2. /\ UNCHANGED <<regions, Allocations, taken, alive, CurrentValue, blocks, phase>>
      /\ call[t].step = "register" /\ call[t].ptr = NULL
      /\ Registry' = [Registry EXCEPT ![a] = o]
      /\ Held \subseteq alive /\ Incomplete \subseteq Held /\ Erased \subseteq Held
      /\ k # NULL => k \in Building
  BY <1>1, Hands DEF RegisterSignal, memVars, CallInv, GoodCall
<1>3. \/ k = NULL /\ handles' = handles \cup {a} /\ UNCHANGED queue
      \/ /\ k # NULL /\ UNCHANGED handles
         /\ queue' = [queue EXCEPT ![k].state = "up", ![k].owned = TRUE, ![k].doorbell = a]
  BY <1>1 DEF RegisterSignal
<1>4. PICK r \in CallSet : call' = [call EXCEPT ![t] = r] /\ r = Idle
  BY IdleFields DEF RegisterSignal, Return
<1>5. /\ call' \in [AllThreads -> CallSet] /\ call'[t] = r
      /\ \A u \in AllThreads \ {t} : call'[u] = call[u]
      /\ CallInv' /\ ApartInv'
  <2>1. GoodCall(r) /\ r.obj = NULL /\ r.q = NULL /\ Held \subseteq alive'
    BY <1>2, <1>4, IdleFields DEF GoodCall
  <2> QED
    BY <1>4, <2>1, CallChange
<1>6. /\ \A x \in Objs : /\ x \in Held' <=> x \in Held /\ x # o
                         /\ x \in Incomplete' <=> x \in Incomplete /\ x # o
                         /\ x \in Erased' <=> x \in Erased
      /\ \A q \in Qs : q \in Building' <=> q \in Building /\ q # k
  BY <1>1, <1>4, <1>5, IdleFields, HandsChange, ObjectsAssumption
<1>7. /\ Registry'[a] = o /\ \A h \in Addrs \ {a} : Registry'[h] = Registry[h]
      /\ Registry' \in [Addrs -> Objs \cup {NULL}]
  BY <1>2 DEF TypeInv
<1>8. /\ queue' \in [Qs -> QueueSet]
      /\ \A q \in Qs \ {k} : queue'[q] = queue[q]
      /\ \A q \in Qs : /\ queue'[q].ring = queue[q].ring /\ queue'[q].region = queue[q].region
                       /\ q = k => /\ queue'[q].state = "up" /\ queue'[q].owned
                                   /\ queue'[q].doorbell = a
  <2>1. CASE k = NULL
    BY <1>3, <2>1, ObjectsAssumption DEF TypeInv
  <2>2. CASE k # NULL
    BY <1>3, <2>2 DEF TypeInv, QueueSet
  <2> QED
    BY <2>1, <2>2
<1>9. \A q \in Qs : q \in Belled' <=> q \in Belled \/ q = k
  BY <1>8 DEF Belled
<1>10. TypeInv'
  BY <1>1, <1>2, <1>3, <1>5, <1>7, <1>8 DEF TypeInv
<1>11. PhaseInv'
  BY <1>2, <1>5, ObjectsAssumption DEF PhaseInv
<1>12. k \in Qs => queue[k].ring # NULL /\ queue[k].state = "base" /\ k \notin Belled
  BY <1>1, <1>2, ObjectsAssumption DEF QueueInv, Belled
<1>13. QueueInv'
  <2>1. \A q \in Qs :
          /\ queue'[q].state = "base" <=> q \in Building'
          /\ queue'[q].state = "none" => queue'[q].ring = NULL
          /\ queue'[q].state = "up" => queue'[q].ring # NULL
          /\ queue'[q].state \in {"none", "base"} => ~ queue'[q].owned
    BY <1>6, <1>8, <1>12 DEF QueueInv
  <2>2. \A u \in AllThreads : call'[u].q # NULL =>
          (queue'[call'[u].q].ring = NULL <=> call'[u].step = "ring")
    BY <1>4, <1>5, <1>8, IdleFields, CallFields DEF QueueInv
  <2> QED
    BY <2>1, <2>2 DEF QueueInv
<1>14. \A x \in alive \ Erased : CurrentValue[x] = a => x = o
  <2>1. OwnerKinds
    BY KindsApart
  <2> QED
    BY <1>1, <2>1 DEF OwnerKinds, OneOwner, TypeInv
<1>15. RegistryInv'
  <2>1. \A x \in alive : x \notin Incomplete' /\ x \notin Erased' => Registry'[CurrentValue[x]] = x
    BY <1>1, <1>6, <1>7, <1>14 DEF RegistryInv, TypeInv, RegionInv, Regions
  <2>2. \A h \in Addrs : Registry'[h] # NULL => Registry'[h] \in alive /\ CurrentValue[Registry'[h]] = h
    BY <1>1, <1>7 DEF RegistryInv
  <2> QED
    BY <1>2, <2>1, <2>2 DEF RegistryInv
<1>16. \A h \in Addrs : Registry[h] # NULL /\ Registry[h] \notin Held => h # a
  <2> SUFFICES ASSUME Registry[a] # NULL, Registry[a] \notin Held PROVE FALSE
    BY <1>1
  <2>1. Registry[a] \in alive /\ CurrentValue[Registry[a]] = a /\ Registry[a] \notin Erased
    BY <1>2 DEF RegistryInv
  <2> QED
    BY <1>1, <1>14, <2>1
<1>17. SignalInv'
  <2>1. a \notin handles /\ \A q \in Belled : queue[q].doorbell # a
    BY <1>16 DEF SignalInv, TypeInv
  <2>2. \A h \in handles' : Registry'[h] # NULL /\ Registry'[h] \notin Held'
    BY <1>1, <1>3, <1>6, <1>7, <2>1, ObjectsAssumption DEF SignalInv, TypeInv
  <2>3. \A q \in Belled' : /\ queue'[q].doorbell \in Addrs \ handles'
                           /\ Registry'[queue'[q].doorbell] # NULL
                           /\ Registry'[queue'[q].doorbell] \notin Held'
    BY <1>1, <1>3, <1>6, <1>7, <1>8, <1>9, <2>1, ObjectsAssumption DEF SignalInv, TypeInv, Belled
  <2>4. \A p, q \in Belled' : queue'[p].doorbell = queue'[q].doorbell => p = q
    BY <1>8, <1>9, <2>1 DEF SignalInv, Belled
  <2>5. ASSUME NEW x \in alive
        PROVE  \/ x \in Held' \/ CurrentValue[x] \in handles'
               \/ \E q \in Belled' : queue'[q].doorbell = CurrentValue[x]
    <3>1. CASE x = o /\ k = NULL
      BY <1>1, <1>3, <3>1
    <3>2. CASE x = o /\ k # NULL
      BY <1>1, <1>8, <1>9, <3>2
    <3>3. CASE x # o
      <4>1. x \in Objs
        BY DEF TypeInv
      <4>2. ASSUME NEW q \in Belled, queue[q].doorbell = CurrentValue[x]
            PROVE  q \in Belled' /\ queue'[q].doorbell = CurrentValue[x]
        BY <1>8, <1>9, <1>12, <4>2 DEF Belled
      <4> QED
        BY <1>3, <1>6, <3>3, <4>1, <4>2 DEF SignalInv
    <3> QED
      BY <1>1, <3>1, <3>2, <3>3
  <2> QED
    BY <1>2, <2>2, <2>3, <2>4, <2>5 DEF SignalInv
<1>18. RegionInv'
  <2>1. \A x \in alive' \ Erased' : CurrentValue'[x] \in Allocations'["global"]
    BY <1>2, <1>6 DEF RegionInv, TypeInv
  <2>2. ASSUME NEW q \in Qs, queue'[q].ring # NULL, queue'[q].state # "deleted"
        PROVE  queue'[q].ring \in Allocations'[queue'[q].region]
    BY <1>2, <1>8, <1>12, <2>2 DEF RegionInv
  <2>3. \A u \in Threads : call'[u].step = "free_group" => call'[u].ptr \in Allocations'["group"]
    BY <1>2, <1>4, <1>5, IdleFields DEF RegionInv
  <2> QED
    BY <1>2, <2>1, <2>2, <2>3 DEF RegionInv
<1>19. OneOwner'
  <2>1. OwnerKinds /\ OwnerKinds'
    BY <1>10, KindsApart, KindsApartNext
  <2>2. \A x \in Objs \cup Addrs : x \in Owners' <=> x \in Owners
    BY <1>2, <1>6, <2>1 DEF OwnerKinds
  <2>3. \A q \in Qs : q \in Owners' <=> q \in Owners
    BY <1>8, <1>12, <2>1 DEF OwnerKinds
  <2>4. \A u \in Threads : (u \in Owners' <=> u \in Owners) /\ call'[u].ptr = call[u].ptr
    BY <1>2, <1>4, <1>5, <2>1, IdleFields DEF OwnerKinds
  <2>5. Owners' = Owners
    BY <2>1, <2>2, <2>3, <2>4 DEF OwnerKinds
  <2>6. \A x \in Owners : AddressOf(x)' = AddressOf(x)
    BY <1>2, <1>8, <2>1, <2>4, ObjectsAssumption DEF OwnerKinds
  <2> QED
    BY <1>2, <2>5, <2>6, OwnersStay
<1> QED
  BY <1>5, <1>10, <1>11, <1>13, <1>15, <1>17, <1>18, <1>19

\* Running out of memory changes the phase alone.
LEMMA OutOfMemoryStep ==
  ASSUME IInv, phase = "up", phase' = "crashed",
         UNCHANGED <<memVars, sigVars, queue, handles, blocks, call>>
  PROVE  IInv'
<1> USE DEF IInv
<1>1. UNCHANGED <<regions, Allocations, taken, Registry, alive, CurrentValue, queue, handles,
                  blocks, call>>
  BY DEF memVars, sigVars
<1>2. /\ Held' = Held /\ Incomplete' = Incomplete /\ Erased' = Erased /\ Building' = Building
      /\ Belled' = Belled
  BY <1>1, SameHands, SameBells
<1>3. TypeInv' /\ CallInv' /\ ApartInv' /\ PhaseInv'
  BY <1>1 DEF TypeInv, CallInv, GoodCall, ApartInv, PhaseInv
<1>4. QueueInv' /\ RegionInv' /\ SignalInv' /\ RegistryInv'
  BY <1>1, <1>2 DEF QueueInv, RegionInv, SignalInv, RegistryInv
<1>5. OneOwner'
  <2>1. Owners' = Owners
    BY <1>1 DEF Owners, At
  <2>2. \A x : AddressOf(x)' = AddressOf(x)
    BY <1>1 DEF AddressOf
  <2> QED
    BY <1>1, <2>1, <2>2, OwnersStay
<1> QED
  BY <1>3, <1>4, <1>5

\* The signal goes from the client's hand to the hand of the call.
LEMMA SignalDestroyStep ==
  ASSUME IInv, NEW t \in Threads, phase = "up", SignalDestroy(t)
  PROVE  IInv'
<1> USE DEF IInv, AllThreads
<1>0. PICK h \in handles :
        /\ handles' = handles \ {h}
        /\ IF Registry[h] = NULL THEN UNCHANGED call
           ELSE Step(t, "free_value", [Idle EXCEPT !.obj = Registry[h]])
  BY DEF SignalDestroy
<1>1. /\ UNCHANGED <<regions, Allocations, taken, Registry, alive, CurrentValue, queue,
                     blocks, phase>>
      /\ call[t] = Idle /\ h \in Addrs /\ Belled' = Belled
      /\ Held \subseteq alive /\ Incomplete \subseteq Held /\ Erased \subseteq Held
  BY Hands, SameBells DEF SignalDestroy, TypeInv, sigVars, memVars
<1>2. PICK o \in Objs : o = Registry[h] /\ o \in alive /\ o \notin Held /\ CurrentValue[o] = h
  BY <1>1 DEF SignalInv, RegistryInv, TypeInv
<1>3. PICK r \in CallSet : /\ call' = [call EXCEPT ![t] = r]
                           /\ r.step = "free_value" /\ r.obj = o /\ r.ptr = NULL /\ r.q = NULL
  <2>1. Step(t, "free_value", [Idle EXCEPT !.obj = o]) /\ "free_value" \in Steps
    BY <1>0, <1>2, ObjectsAssumption DEF Steps
  <2>2. PICK r \in CallSet : /\ call' = [call EXCEPT ![t] = r] /\ r.step = "free_value"
                             /\ r.obj = o /\ r.ptr = Idle.ptr /\ r.q = Idle.q
    <3> HIDE DEF IInv, AllThreads
    <3> QED
      BY <2>1, IdleFields, StepWithObj
  <2> QED
    BY <2>2, IdleFields
<1>4. call[t].step = "idle" /\ call[t].ptr = NULL /\ call[t].obj = NULL /\ call[t].q = NULL
  BY <1>1, IdleFields
<1>5. /\ call' \in [AllThreads -> CallSet] /\ call'[t] = r
      /\ \A u \in AllThreads \ {t} : call'[u] = call[u]
      /\ CallInv' /\ ApartInv'
  <2>1. GoodCall(r) /\ o \in alive' /\ Held \subseteq alive'
    BY <1>1, <1>2, <1>3, ObjectsAssumption DEF GoodCall
  <2> QED
    BY <1>2, <1>3, <2>1, CallChange
<1>6. TypeInv'
  BY <1>0, <1>1, <1>5 DEF TypeInv
<1>7. /\ \A x \in Objs : /\ x \in Held' <=> x \in Held \/ x = o
                         /\ x \in Incomplete' <=> x \in Incomplete
                         /\ x \in Erased' <=> x \in Erased
      /\ \A q \in Qs : q \in Building' <=> q \in Building
  BY <1>3, <1>4, <1>5, HandsChange, ObjectsAssumption
<1>8. PhaseInv'
  BY <1>1, <1>5, ObjectsAssumption DEF PhaseInv
<1>9. QueueInv'
  BY <1>1, <1>3, <1>5, <1>7 DEF QueueInv
<1>10. RegistryInv'
  BY <1>1, <1>7 DEF RegistryInv, TypeInv
<1>11. SignalInv'
  <2>1. \A g \in Addrs \ {h} : Registry[g] # NULL => Registry[g] # o /\ Registry[g] \in Objs
    BY <1>2 DEF RegistryInv, TypeInv
  <2>2. \A g \in handles' : Registry[g] # NULL /\ Registry[g] \notin Held'
    BY <1>0, <1>7, <2>1 DEF SignalInv, TypeInv
  <2>3. \A q \in Belled : /\ queue[q].doorbell \in Addrs \ handles'
                          /\ Registry[queue[q].doorbell] # NULL
                          /\ Registry[queue[q].doorbell] \notin Held'
    BY <1>0, <1>7, <2>1 DEF SignalInv
  <2>4. ASSUME NEW x \in alive, CurrentValue[x] = h PROVE x \in Held'
    BY <1>1, <1>2, <1>7, <2>4 DEF RegistryInv, TypeInv
  <2>5. \A x \in alive : \/ x \in Held' \/ CurrentValue[x] \in handles'
                         \/ \E q \in Belled : queue[q].doorbell = CurrentValue[x]
    BY <1>0, <1>7, <2>4 DEF SignalInv, TypeInv
  <2> QED
    BY <1>1, <2>2, <2>3, <2>5 DEF SignalInv
<1>12. RegionInv'
  BY <1>1, <1>3, <1>5, <1>7 DEF RegionInv, TypeInv
<1>13. OneOwner'
  <2>1. OwnerKinds /\ OwnerKinds'
    BY <1>6, KindsApart, KindsApartNext
  <2>2. \A x \in Objs \cup Qs \cup Addrs : x \in Owners' <=> x \in Owners
    BY <1>1, <1>7, <2>1 DEF OwnerKinds
  <2>3. \A u \in Threads : (u \in Owners' <=> u \in Owners) /\ call'[u].ptr = call[u].ptr
    BY <1>3, <1>4, <1>5, <2>1 DEF OwnerKinds
  <2>4. Owners' = Owners
    BY <2>1, <2>2, <2>3 DEF OwnerKinds
  <2>5. \A x \in Owners : AddressOf(x)' = AddressOf(x)
    BY <1>1, <2>1, <2>3, ObjectsAssumption DEF OwnerKinds
  <2> QED
    BY <1>1, <2>4, <2>5, OwnersStay
<1> QED
  BY <1>5, <1>6, <1>8, <1>9, <1>10, <1>11, <1>12, <1>13

\* The value is given back to the region it came from, and the object has no
\* address any more.
LEMMA FreeValueStep ==
  ASSUME IInv, NEW t \in AllThreads, phase \in {"up", "collect"}, FreeValue(t)
  PROVE  IInv'
<1> USE DEF IInv
<1>1. /\ UNCHANGED <<Registry, alive, CurrentValue, queue, handles, blocks, phase>>
      /\ call[t].step = "free_value" /\ Belled' = Belled
      /\ Held \subseteq alive /\ Incomplete \subseteq Held /\ Erased \subseteq Held
  BY Hands, SameBells DEF FreeValue, sigVars
<1>2. call[t] \in CallSet /\ call[t].ptr = NULL /\ call[t].q = NULL
  BY <1>1 DEF CallInv, GoodCall, TypeInv
<1>3. PICK o \in Objs : /\ o = call[t].obj /\ o \in alive /\ o \in Held
                        /\ o \notin Incomplete /\ o \notin Erased
  <2>1. call[t].obj # NULL /\ call[t].obj \in Objs /\ call[t].obj \in alive
    BY <1>1, CallFields DEF CallInv, GoodCall
  <2> QED
    BY <1>1, <2>1, Hands
<1>4. PICK a \in Addrs : a = CurrentValue[o] /\ Owns("global", a) /\ free("global", a)
  BY <1>1, <1>3 DEF FreeValue, RegionInv, PhaseInv, Owns, TypeInv, Regions
<1>5. /\ Partition' /\ taken' = taken \ {a} /\ regions' = regions
      /\ \A s \in Regions : Allocations'[s] = Allocations[s] \ {a}
  BY <1>4, FreeEffect DEF Partition, TypeInv, RegionInv, Regions
<1>6. PICK r \in CallSet : /\ call' = [call EXCEPT ![t] = r]
                           /\ r.step = "erase" /\ r.obj = o /\ r.ptr = NULL /\ r.q = NULL
  <2>1. Step(t, "erase", call[t]) /\ "erase" \in Steps
    BY DEF FreeValue, Steps
  <2> QED
    BY <1>2, <1>3, <2>1, StepRecord
<1>7. /\ call' \in [AllThreads -> CallSet] /\ call'[t] = r
      /\ \A u \in AllThreads \ {t} : call'[u] = call[u]
      /\ CallInv' /\ ApartInv'
  <2>1. GoodCall(r) /\ o \in alive' /\ Held \subseteq alive'
    BY <1>1, <1>3, <1>6, ObjectsAssumption DEF GoodCall
  <2> QED
    BY <1>3, <1>6, <2>1, CallChange
<1>8. TypeInv'
  BY <1>1, <1>5, <1>7 DEF TypeInv, Partition
<1>9. /\ \A x \in Objs : /\ x \in Held' <=> x \in Held
                         /\ x \in Incomplete' <=> x \in Incomplete
                         /\ x \in Erased' <=> x \in Erased \/ x = o
      /\ \A q \in Qs : q \in Building' <=> q \in Building
  BY <1>2, <1>3, <1>6, <1>7, HandsChange, ObjectsAssumption
<1>10. PhaseInv'
  <2>1. phase = "collect" => t = RT
    BY <1>1, IdleFields DEF PhaseInv, AllThreads
  <2>2. phase = "up" => t # RT
    BY <1>1, IdleFields DEF PhaseInv
  <2> QED
    BY <1>1, <1>5, <1>6, <1>7, <2>1, <2>2, ObjectsAssumption DEF PhaseInv, AllThreads
<1>11. QueueInv'
  BY <1>1, <1>6, <1>7, <1>9 DEF QueueInv
<1>12. SignalInv' /\ RegistryInv'
  BY <1>1, <1>9 DEF SignalInv, RegistryInv, TypeInv
<1>13. /\ OwnerKinds /\ OwnerKinds' /\ o \in Owners /\ AddressOf(o) = a
       /\ \A y \in Owners \ {o} : AddressOf(y) # a
  BY <1>3, <1>4, <1>8, KindsApart, KindsApartNext, OthersKeep DEF OwnerKinds
<1>14. RegionInv'
  <2>1. \A x \in alive' \ Erased' : CurrentValue'[x] \in Allocations'["global"]
    BY <1>1, <1>3, <1>5, <1>9, <1>13 DEF RegionInv, OwnerKinds, TypeInv, Regions
  <2>2. \A q \in Qs : queue'[q].ring # NULL /\ queue'[q].state # "deleted" =>
          queue'[q].ring \in Allocations'[queue'[q].region]
    BY <1>1, <1>5, <1>13, QueueFields, ObjectsAssumption DEF RegionInv, OwnerKinds
  <2>3. \A u \in Threads : call'[u].step = "free_group" => call'[u].ptr \in Allocations'["group"]
    <3>1. ASSUME NEW u \in Threads, call[u].step = "free_group" PROVE call[u].ptr # a
      BY <1>13, <3>1, ObjectsAssumption DEF CallInv, GoodCall, OwnerKinds, AllThreads
    <3> QED
      BY <1>5, <1>6, <1>7, <3>1 DEF RegionInv, Regions, AllThreads
  <2> QED
    BY <1>5, <2>1, <2>2, <2>3 DEF RegionInv, Partition
<1>15. OneOwner'
  <2>1. \A x \in Objs \cup Qs \cup Addrs : x \in Owners' <=> x \in Owners /\ x # o
    BY <1>1, <1>9, <1>13, ObjectsAssumption DEF OwnerKinds
  <2>2. \A u \in Threads : (u \in Owners' <=> u \in Owners) /\ call'[u].ptr = call[u].ptr
    BY <1>2, <1>6, <1>7, <1>13 DEF OwnerKinds, AllThreads
  <2>3. Owners' = Owners \ {o}
    BY <1>13, <2>1, <2>2, ObjectsAssumption DEF OwnerKinds
  <2>4. \A x \in Owners : AddressOf(x)' = AddressOf(x)
    BY <1>1, <1>13, <2>2, ObjectsAssumption DEF OwnerKinds
  <2> QED
    BY <1>5, <1>13, <2>3, <2>4, OwnerRemoved
<1> QED
  BY <1>7, <1>8, <1>10, <1>11, <1>12, <1>14, <1>15

\* The object is gone, and no handle leads to it.
LEMMA EraseStep ==
  ASSUME IInv, NEW t \in AllThreads, phase \in {"up", "collect"}, Erase(t)
  PROVE  IInv'
<1> USE DEF IInv
<1>1. /\ UNCHANGED <<regions, Allocations, taken, queue, handles, blocks, phase>>
      /\ call[t].step = "erase" /\ Belled' = Belled
      /\ Held \subseteq alive /\ Incomplete \subseteq Held /\ Erased \subseteq Held
  BY Hands, SameBells DEF Erase, memVars
<1>2. call[t] \in CallSet /\ call[t].ptr = NULL /\ call[t].q = NULL
  BY <1>1 DEF CallInv, GoodCall, TypeInv
<1>3. PICK o \in Objs : /\ o = call[t].obj /\ o \in alive /\ o \in Held
                        /\ o \notin Incomplete /\ o \in Erased
  <2>1. call[t].obj # NULL /\ call[t].obj \in Objs /\ call[t].obj \in alive
    BY <1>1, CallFields DEF CallInv, GoodCall
  <2> QED
    BY <1>1, <2>1, Hands
<1>4. /\ Registry' \in [Addrs -> Objs \cup {NULL}]
      /\ \A h \in Addrs : Registry'[h] = IF Registry[h] = o THEN NULL ELSE Registry[h]
      /\ alive' = alive \ {o}
      /\ CurrentValue' \in [Objs -> Addrs \cup {NULL}]
      /\ \A x \in Objs \ {o} : CurrentValue'[x] = CurrentValue[x]
  BY <1>3 DEF Erase, TypeInv
<1>5. PICK r \in CallSet : call' = [call EXCEPT ![t] = r] /\ r = Idle
  BY IdleFields DEF Erase, Return
<1>6. /\ call' \in [AllThreads -> CallSet] /\ call'[t] = r
      /\ \A u \in AllThreads \ {t} : call'[u] = call[u]
      /\ CallInv' /\ ApartInv'
  <2>1. /\ GoodCall(r) /\ r.obj = NULL /\ r.q = NULL
        /\ \A x \in Held : x \in alive' \/ x = call[t].obj
    BY <1>1, <1>3, <1>4, <1>5, IdleFields DEF GoodCall
  <2> QED
    BY <1>5, <2>1, CallChange
<1>7. TypeInv'
  BY <1>1, <1>4, <1>6 DEF TypeInv
<1>8. /\ \A x \in Objs : /\ x \in Held' <=> x \in Held /\ x # o
                         /\ x \in Incomplete' <=> x \in Incomplete
                         /\ x \in Erased' <=> x \in Erased /\ x # o
      /\ \A q \in Qs : q \in Building' <=> q \in Building
  BY <1>2, <1>3, <1>5, <1>6, IdleFields, HandsChange, ObjectsAssumption
<1>9. PhaseInv'
  BY <1>1, <1>5, <1>6, IdleFields, ObjectsAssumption DEF PhaseInv, AllThreads
<1>10. QueueInv'
  BY <1>1, <1>5, <1>6, <1>8, IdleFields DEF QueueInv
<1>11. RegistryInv'
  BY <1>3, <1>4, <1>8, ObjectsAssumption DEF RegistryInv, TypeInv, RegionInv, Regions
<1>12. SignalInv'
  <2>1. \A h \in handles : Registry'[h] # NULL /\ Registry'[h] \notin Held'
    BY <1>3, <1>4, <1>8 DEF SignalInv, TypeInv
  <2>2. \A q \in Belled : /\ queue[q].doorbell \in Addrs \ handles
                          /\ Registry'[queue[q].doorbell] # NULL
                          /\ Registry'[queue[q].doorbell] \notin Held'
    BY <1>3, <1>4, <1>8 DEF SignalInv, TypeInv
  <2>3. \A x \in alive' : \/ x \in Held' \/ CurrentValue'[x] \in handles
                          \/ \E q \in Belled : queue[q].doorbell = CurrentValue'[x]
    BY <1>4, <1>8 DEF SignalInv, TypeInv
  <2> QED
    BY <1>1, <2>1, <2>2, <2>3 DEF SignalInv
<1>13. RegionInv'
  <2>1. \A x \in alive' \ Erased' : CurrentValue'[x] \in Allocations'["global"]
    BY <1>1, <1>4, <1>8 DEF RegionInv, TypeInv
  <2>2. \A u \in Threads : call'[u].step = "free_group" => call'[u].ptr \in Allocations'["group"]
    BY <1>1, <1>5, <1>6, IdleFields DEF RegionInv, AllThreads
  <2> QED
    BY <1>1, <2>1, <2>2 DEF RegionInv
<1>14. OneOwner'
  <2>1. OwnerKinds /\ OwnerKinds'
    BY <1>7, KindsApart, KindsApartNext
  <2>2. \A x \in Objs \cup Qs \cup Addrs : x \in Owners' <=> x \in Owners
    BY <1>1, <1>3, <1>4, <1>8, <2>1 DEF OwnerKinds
  <2>3. \A u \in Threads : (u \in Owners' <=> u \in Owners) /\ call'[u].ptr = call[u].ptr
    BY <1>2, <1>5, <1>6, <2>1, IdleFields DEF OwnerKinds, AllThreads
  <2>4. Owners' = Owners
    BY <2>1, <2>2, <2>3 DEF OwnerKinds
  <2>5. o \notin Owners
    BY <1>3, <2>1 DEF OwnerKinds
  <2>6. \A x \in Owners : AddressOf(x)' = AddressOf(x)
    BY <1>1, <1>4, <2>1, <2>3, <2>5, ObjectsAssumption DEF OwnerKinds
  <2> QED
    BY <1>1, <2>4, <2>6, OwnersStay
<1> QED
  BY <1>6, <1>7, <1>9, <1>10, <1>11, <1>12, <1>13, <1>14

----------------------------------------------------------------------------
(* Queues.                                                                 *)

\* A new queue is in the hand of the call that makes it.
LEMMA QueueCreateStep ==
  ASSUME IInv, NEW t \in Threads, phase = "up", NEW g \in Regions, NEW d \in handles \cup {NULL},
         QueueCreate(t, g, d)
  PROVE  IInv'
<1> USE DEF IInv, AllThreads
<1>0. PICK k \in Qs :
        /\ queue[k].state = "none"
        /\ queue' = [queue EXCEPT ![k].state = "base", ![k].region = g, ![k].doorbell = d]
        /\ Step(t, "ring", [Idle EXCEPT !.q = k])
  BY DEF QueueCreate
<1>1. /\ UNCHANGED <<regions, Allocations, taken, Registry, alive, CurrentValue, handles,
                     blocks, phase>>
      /\ call[t] = Idle /\ d \in Addrs \cup {NULL}
      /\ Held \subseteq alive /\ Incomplete \subseteq Held /\ Erased \subseteq Held
  BY Hands DEF QueueCreate, TypeInv, sigVars, memVars
<1>2. queue[k].ring = NULL /\ ~ queue[k].owned /\ k \notin Building
  BY <1>0 DEF QueueInv
<1>3. PICK r \in CallSet : /\ call' = [call EXCEPT ![t] = r]
                           /\ r.step = "ring" /\ r.obj = NULL /\ r.ptr = NULL /\ r.q = k
  <2>1. Step(t, "ring", [Idle EXCEPT !.q = k]) /\ "ring" \in Steps
    BY <1>0 DEF Steps
  <2>2. PICK r \in CallSet : /\ call' = [call EXCEPT ![t] = r] /\ r.step = "ring"
                             /\ r.q = k /\ r.obj = Idle.obj /\ r.ptr = Idle.ptr
    <3> HIDE DEF IInv, AllThreads
    <3> QED
      BY <2>1, IdleFields, StepWithQueue
  <2> QED
    BY <2>2, IdleFields
<1>4. call[t].step = "idle" /\ call[t].ptr = NULL /\ call[t].obj = NULL /\ call[t].q = NULL
  BY <1>1, IdleFields
<1>5. /\ call' \in [AllThreads -> CallSet] /\ call'[t] = r
      /\ \A u \in AllThreads \ {t} : call'[u] = call[u]
      /\ CallInv' /\ ApartInv'
  <2>1. GoodCall(r) /\ Held \subseteq alive'
    BY <1>1, <1>3, ObjectsAssumption DEF GoodCall
  <2> QED
    BY <1>2, <1>3, <2>1, CallChange
<1>6. /\ queue' \in [Qs -> QueueSet]
      /\ queue'[k].state = "base" /\ queue'[k].ring = NULL /\ ~ queue'[k].owned
      /\ \A q \in Qs \ {k} : queue'[q] = queue[q]
  <2>1. queue[k] \in QueueSet /\ queue \in [Qs -> QueueSet]
    BY DEF TypeInv
  <2> DEFINE n == [queue[k] EXCEPT !.state = "base", !.region = g, !.doorbell = d]
  <2>2. n \in QueueSet /\ n.state = "base" /\ n.ring = queue[k].ring /\ n.owned = queue[k].owned
    BY <1>1, <2>1 DEF QueueSet
  <2>3. queue' = [queue EXCEPT ![k] = n]
    BY <1>0, <2>1
  <2> HIDE DEF n
  <2> QED
    BY <1>2, <2>1, <2>2, <2>3
<1>7. TypeInv'
  BY <1>1, <1>5, <1>6 DEF TypeInv
<1>8. /\ \A x \in Objs : (x \in Held' <=> x \in Held) /\ (x \in Incomplete' <=> x \in Incomplete)
                         /\ (x \in Erased' <=> x \in Erased)
      /\ \A q \in Qs : q \in Building' <=> q \in Building \/ q = k
  BY <1>3, <1>4, <1>5, HandsChange, ObjectsAssumption
<1>9. Belled' = Belled /\ k \notin Belled
  BY <1>0, <1>6 DEF Belled
<1>10. PhaseInv'
  BY <1>1, <1>5, ObjectsAssumption DEF PhaseInv
<1>11. QueueInv'
  <2>1. \A q \in Qs :
          /\ queue'[q].state = "base" <=> q \in Building'
          /\ queue'[q].state = "none" => queue'[q].ring = NULL
          /\ queue'[q].state = "up" => queue'[q].ring # NULL
          /\ queue'[q].state \in {"none", "base"} => ~ queue'[q].owned
    BY <1>6, <1>8 DEF QueueInv
  <2>2. ASSUME NEW u \in AllThreads, call'[u].q # NULL
        PROVE  queue'[call'[u].q].ring = NULL <=> call'[u].step = "ring"
    <3>1. CASE u = t
      BY <1>3, <1>5, <1>6, <3>1
    <3>2. CASE u # t
      <4>1. call'[u] = call[u] /\ call[u].q \in Qs /\ call[u].q # k
        BY <1>2, <1>5, <2>2, <3>2, CallFields, Hands
      <4> QED
        BY <1>6, <2>2, <4>1 DEF QueueInv
    <3> QED
      BY <3>1, <3>2
  <2> QED
    BY <2>1, <2>2 DEF QueueInv
<1>12. SignalInv'
  <2>1. \A q \in Belled : queue'[q] = queue[q]
    BY <1>6, <1>9 DEF Belled
  <2> QED
    BY <1>1, <1>8, <1>9, <2>1 DEF SignalInv, TypeInv
<1>13. RegistryInv'
  BY <1>1, <1>8 DEF RegistryInv, TypeInv
<1>14. RegionInv'
  <2>1. \A x \in alive' \ Erased' : CurrentValue'[x] \in Allocations'["global"]
    BY <1>1, <1>8 DEF RegionInv, TypeInv
  <2>2. \A q \in Qs : queue'[q].ring # NULL /\ queue'[q].state # "deleted" =>
          queue'[q].ring \in Allocations'[queue'[q].region]
    BY <1>1, <1>6 DEF RegionInv
  <2>3. \A u \in Threads : call'[u].step = "free_group" => call'[u].ptr \in Allocations'["group"]
    BY <1>1, <1>3, <1>5 DEF RegionInv
  <2> QED
    BY <1>1, <2>1, <2>2, <2>3 DEF RegionInv
<1>15. OneOwner'
  <2>1. OwnerKinds /\ OwnerKinds'
    BY <1>7, KindsApart, KindsApartNext
  <2>2. \A x \in Objs \cup Addrs : x \in Owners' <=> x \in Owners
    BY <1>1, <1>8, <2>1 DEF OwnerKinds
  <2>3. \A q \in Qs : (q \in Owners' <=> q \in Owners) /\ queue'[q].ring = queue[q].ring
    BY <1>2, <1>6, <2>1 DEF OwnerKinds
  <2>4. \A u \in Threads : (u \in Owners' <=> u \in Owners) /\ call'[u].ptr = call[u].ptr
    BY <1>3, <1>4, <1>5, <2>1 DEF OwnerKinds
  <2>5. Owners' = Owners
    BY <2>1, <2>2, <2>3, <2>4 DEF OwnerKinds
  <2>6. \A x \in Owners : AddressOf(x)' = AddressOf(x)
    BY <1>1, <2>1, <2>3, <2>4, ObjectsAssumption DEF OwnerKinds
  <2> QED
    BY <1>1, <2>5, <2>6, OwnersStay
<1> QED
  BY <1>5, <1>7, <1>10, <1>11, <1>12, <1>13, <1>14, <1>15

\* The queue owns its ring.
LEMMA AllocateRingStep ==
  ASSUME IInv, NEW t \in Threads, phase = "up", AllocateRing(t)
  PROVE  IInv'
<1> USE DEF IInv, AllThreads
<1>1. /\ UNCHANGED <<Registry, alive, CurrentValue, handles, blocks, phase>>
      /\ call[t].step = "ring" /\ call[t] \in CallSet /\ call[t].obj = NULL /\ call[t].ptr = NULL
      /\ Held \subseteq alive /\ Incomplete \subseteq Held /\ Erased \subseteq Held
  BY Hands DEF AllocateRing, sigVars, CallInv, GoodCall, TypeInv
<1>2. PICK k \in Qs : /\ k = call[t].q /\ k \in Building
                      /\ queue[k].ring = NULL /\ queue[k].state = "base" /\ ~ queue[k].owned
  <2>1. call[t].q \in Qs /\ call[t].q # NULL /\ call[t].q \in Building
    BY <1>1, CallFields, Hands DEF CallInv, GoodCall
  <2> QED
    BY <1>1, <2>1 DEF QueueInv
<1>3. PICK a \in Addrs :
        /\ allocate(queue[k].region, a)
        /\ \/ /\ queue' = [queue EXCEPT ![k].ring = a] /\ Step(t, "doorbell", call[t])
           \/ /\ queue' = [queue EXCEPT ![k].ring = a, ![k].state = "up"] /\ Return(t)
  BY <1>2 DEF AllocateRing
<1>4. PICK r \in CallSet : /\ call' = [call EXCEPT ![t] = r]
                           /\ \/ r.step = "doorbell" /\ r.q = k
                              \/ r = Idle
                           /\ r.obj = NULL /\ r.ptr = NULL
                           /\ r.step = "doorbell" => queue' = [queue EXCEPT ![k].ring = a]
                           /\ r = Idle => queue' = [queue EXCEPT ![k].ring = a, ![k].state = "up"]
  <2>1. CASE queue' = [queue EXCEPT ![k].ring = a] /\ Step(t, "doorbell", call[t])
    <3>1. PICK r \in CallSet : /\ call' = [call EXCEPT ![t] = r] /\ r.step = "doorbell"
                               /\ r.obj = call[t].obj /\ r.ptr = call[t].ptr /\ r.q = call[t].q
      <4>1. "doorbell" \in Steps /\ Step(t, "doorbell", call[t])
        BY <2>1 DEF Steps
      <4> HIDE DEF IInv, AllThreads
      <4> QED
        BY <1>1, <4>1, StepRecord
    <3> QED
      BY <1>1, <1>2, <2>1, <3>1, IdleFields
  <2>2. CASE queue' = [queue EXCEPT ![k].ring = a, ![k].state = "up"] /\ Return(t)
    BY <2>2, IdleFields DEF Return
  <2> QED
    BY <1>3, <2>1, <2>2
<1>5. /\ call' \in [AllThreads -> CallSet] /\ call'[t] = r
      /\ \A u \in AllThreads \ {t} : call'[u] = call[u]
      /\ CallInv' /\ ApartInv'
  <2>1. GoodCall(r) /\ Held \subseteq alive' /\ (r.q # NULL => r.q = call[t].q)
    BY <1>1, <1>2, <1>4, IdleFields, ObjectsAssumption DEF GoodCall
  <2> QED
    BY <1>4, <2>1, CallChange
<1>6. /\ queue' \in [Qs -> QueueSet]
      /\ queue'[k].ring = a /\ queue'[k].region = queue[k].region /\ ~ queue'[k].owned
      /\ queue'[k].state = IF r = Idle THEN "up" ELSE "base"
      /\ \A q \in Qs \ {k} : queue'[q] = queue[q]
  <2>1. CASE r = Idle
    BY <1>2, <1>4, <2>1 DEF TypeInv, QueueSet
  <2>2. CASE r # Idle
    BY <1>2, <1>4, <2>2 DEF TypeInv, QueueSet
  <2> QED
    BY <2>1, <2>2
<1>7. /\ Partition' /\ a \notin taken /\ taken' = taken \cup {a} /\ regions' = regions
      /\ a \in Allocations'[queue[k].region]
      /\ \A s \in Regions : Allocations[s] \subseteq Allocations'[s]
  BY <1>3, AllocateEffect, QueueFields DEF Partition, TypeInv, RegionInv
<1>8. TypeInv'
  BY <1>1, <1>5, <1>6, <1>7 DEF TypeInv, Partition
<1>9. /\ \A x \in Objs : (x \in Held' <=> x \in Held) /\ (x \in Incomplete' <=> x \in Incomplete)
                         /\ (x \in Erased' <=> x \in Erased)
      /\ \A q \in Qs : q \in Building' <=> q \in Building /\ (q = k => r # Idle)
  <2>1. \A q \in Qs : q = r.q <=> q = k /\ r # Idle
    BY <1>4, IdleFields, ObjectsAssumption
  <2> QED
    BY <1>1, <1>2, <1>4, <1>5, <2>1, HandsChange, ObjectsAssumption
<1>10. Belled' = Belled /\ k \notin Belled
  BY <1>2, <1>6 DEF Belled
<1>11. PhaseInv'
  BY <1>1, <1>5, <1>7, ObjectsAssumption DEF PhaseInv
<1>12. QueueInv'
  <2>1. \A q \in Qs :
          /\ queue'[q].state = "base" <=> q \in Building'
          /\ queue'[q].state = "none" => queue'[q].ring = NULL
          /\ queue'[q].state = "up" => queue'[q].ring # NULL
          /\ queue'[q].state \in {"none", "base"} => ~ queue'[q].owned
    BY <1>2, <1>6, <1>9, ObjectsAssumption DEF QueueInv
  <2>2. ASSUME NEW u \in AllThreads, call'[u].q # NULL
        PROVE  queue'[call'[u].q].ring = NULL <=> call'[u].step = "ring"
    <3>1. CASE u = t
      BY <1>4, <1>5, <1>6, <2>2, <3>1, IdleFields, ObjectsAssumption
    <3>2. CASE u # t
      <4>1. call'[u] = call[u] /\ call[u].q \in Qs /\ call[u].q # k
        BY <1>2, <1>5, <2>2, <3>2, CallFields DEF ApartInv
      <4> QED
        BY <1>6, <2>2, <4>1 DEF QueueInv
    <3> QED
      BY <3>1, <3>2
  <2> QED
    BY <2>1, <2>2 DEF QueueInv
<1>13. SignalInv'
  <2>1. \A q \in Belled : queue'[q] = queue[q]
    BY <1>6, <1>10 DEF Belled
  <2> QED
    BY <1>1, <1>9, <1>10, <2>1 DEF SignalInv, TypeInv
<1>14. RegistryInv'
  BY <1>1, <1>9 DEF RegistryInv, TypeInv
<1>15. RegionInv'
  <2>1. \A x \in alive' \ Erased' : CurrentValue'[x] \in Allocations'["global"]
    BY <1>1, <1>7, <1>9 DEF RegionInv, TypeInv, Regions
  <2>2. \A q \in Qs : queue'[q].ring # NULL /\ queue'[q].state # "deleted" =>
          queue'[q].ring \in Allocations'[queue'[q].region]
    BY <1>6, <1>7, QueueFields DEF RegionInv
  <2>3. \A u \in Threads : call'[u].step = "free_group" => call'[u].ptr \in Allocations'["group"]
    BY <1>4, <1>5, <1>7, IdleFields DEF RegionInv, Regions
  <2> QED
    BY <1>7, <2>1, <2>2, <2>3 DEF RegionInv, Partition
<1>16. OneOwner'
  <2>1. OwnerKinds /\ OwnerKinds' /\ k \notin Owners /\ AddressOf(k)' = a
    BY <1>2, <1>6, <1>8, KindsApart, KindsApartNext DEF OwnerKinds
  <2>2. \A x \in Objs \cup Addrs : x \in Owners' <=> x \in Owners
    BY <1>1, <1>9, <2>1 DEF OwnerKinds
  <2>3. \A q \in Qs : q \in Owners' <=> q \in Owners \/ q = k
    BY <1>6, <2>1, ObjectsAssumption DEF OwnerKinds
  <2>4. \A u \in Threads : (u \in Owners' <=> u \in Owners) /\ call'[u].ptr = call[u].ptr
    BY <1>1, <1>4, <1>5, <2>1 DEF OwnerKinds
  <2>5. Owners' = Owners \cup {k}
    BY <2>1, <2>2, <2>3, <2>4, ObjectsAssumption DEF OwnerKinds
  <2>6. \A x \in Owners : AddressOf(x)' = AddressOf(x)
    BY <1>1, <1>6, <2>1, <2>4, ObjectsAssumption DEF OwnerKinds
  <2> QED
    BY <1>7, <2>1, <2>5, <2>6, OwnerAdded
<1> QED
  BY <1>5, <1>8, <1>11, <1>12, <1>13, <1>14, <1>15, <1>16

\* The mark of a destroyed queue matters to nothing here.
LEMMA QueueDestroyStep ==
  ASSUME IInv, NEW t \in Threads, QueueDestroy(t)
  PROVE  IInv'
<1> USE DEF IInv
<1>1. /\ UNCHANGED <<regions, Allocations, taken, Registry, alive, CurrentValue, handles,
                     blocks, call, phase>>
      /\ Held' = Held /\ Incomplete' = Incomplete /\ Erased' = Erased /\ Building' = Building
  BY SameHands DEF QueueDestroy, memVars, sigVars
<1>2. PICK k \in Qs : queue' = [queue EXCEPT ![k].destroyed = TRUE]
  BY DEF QueueDestroy
<1>3. /\ queue' \in [Qs -> QueueSet]
      /\ \A q \in Qs : /\ queue'[q].state = queue[q].state /\ queue'[q].ring = queue[q].ring
                       /\ queue'[q].region = queue[q].region
                       /\ queue'[q].doorbell = queue[q].doorbell
                       /\ queue'[q].owned = queue[q].owned
  BY <1>2 DEF TypeInv, QueueSet
<1>4. Belled' = Belled /\ \A q \in Belled : q \in Qs
  BY <1>3 DEF Belled
<1>5. TypeInv' /\ CallInv' /\ ApartInv' /\ PhaseInv'
  BY <1>1, <1>3 DEF TypeInv, CallInv, GoodCall, ApartInv, PhaseInv
<1>6. QueueInv'
  BY <1>1, <1>3, CallFields DEF QueueInv
<1>7. RegionInv' /\ RegistryInv'
  BY <1>1, <1>3 DEF RegionInv, RegistryInv
<1>8. SignalInv'
  BY <1>1, <1>3, <1>4 DEF SignalInv
<1>9. OneOwner'
  <2>1. OwnerKinds /\ OwnerKinds'
    BY <1>5, KindsApart, KindsApartNext
  <2>2. \A x \in Objs \cup Addrs \cup Threads : x \in Owners' <=> x \in Owners
    BY <1>1, <2>1 DEF OwnerKinds
  <2>3. \A q \in Qs : q \in Owners' <=> q \in Owners
    BY <1>3, <2>1 DEF OwnerKinds
  <2>4. Owners' = Owners
    BY <2>1, <2>2, <2>3 DEF OwnerKinds
  <2>5. \A x \in Owners : AddressOf(x)' = AddressOf(x)
    BY <1>1, <1>3, <2>1 DEF OwnerKinds
  <2> QED
    BY <1>1, <2>4, <2>5, OwnersStay
<1> QED
  BY <1>5, <1>6, <1>7, <1>8, <1>9

----------------------------------------------------------------------------
(* ~Runtime.                                                               *)

\* The beginning and the end of ~Runtime leave all but the phase and, at the
\* end, the regions.
LEMMA PhaseStep ==
  ASSUME IInv, ShutDown \/ DeleteRegions
  PROVE  IInv'
<1> USE DEF IInv
<1>1. UNCHANGED <<Allocations, taken, Registry, alive, CurrentValue, queue, handles, blocks, call>>
  BY DEF ShutDown, DeleteRegions, memVars, sigVars
<1>2. /\ Held' = Held /\ Incomplete' = Incomplete /\ Erased' = Erased /\ Building' = Building
      /\ Belled' = Belled
  BY <1>1, SameHands, SameBells
<1>3. TypeInv' /\ PhaseInv'
  <2>1. CASE ShutDown
    BY <1>1, <2>1 DEF ShutDown, TypeInv, PhaseInv, memVars
  <2>2. CASE DeleteRegions
    BY <1>1, <2>2 DEF DeleteRegions, TypeInv, PhaseInv
  <2> QED
    BY <2>1, <2>2
<1>4. CallInv' /\ ApartInv' /\ QueueInv' /\ RegionInv' /\ SignalInv' /\ RegistryInv'
  BY <1>1, <1>2 DEF CallInv, GoodCall, ApartInv, QueueInv, RegionInv, SignalInv, RegistryInv
<1>5. OneOwner'
  <2>1. Owners' = Owners
    BY <1>1 DEF Owners, At
  <2>2. \A x : AddressOf(x)' = AddressOf(x)
    BY <1>1 DEF AddressOf
  <2> QED
    BY <1>1, <2>1, <2>2, OwnersStay
<1> QED
  BY <1>3, <1>4, <1>5

\* A collected queue gives its ring back, and its own doorbell goes into the
\* hand of ~Runtime.
LEMMA CollectQueueStep ==
  ASSUME IInv, CollectQueue
  PROVE  IInv'
<1> USE DEF IInv
<1>0. PICK k \in Qs :
        /\ queue[k].state = "up" /\ free(queue[k].region, queue[k].ring)
        /\ queue' = [queue EXCEPT ![k].state = "deleted"]
        /\ IF queue[k].owned
           THEN Step(RT, "free_value", [Idle EXCEPT !.obj = Registry[queue[k].doorbell]])
           ELSE UNCHANGED call
  BY DEF CollectQueue
<1>1. /\ UNCHANGED <<Registry, alive, CurrentValue, handles, blocks, phase>>
      /\ phase = "collect" /\ call[RT] = Idle /\ RT \in AllThreads /\ RT \notin Threads
      /\ Held \subseteq alive /\ Incomplete \subseteq Held /\ Erased \subseteq Held
  BY Hands, ObjectsAssumption DEF CollectQueue, sigVars, AllThreads
<1>2. call[RT].step = "idle" /\ call[RT].ptr = NULL /\ call[RT].obj = NULL /\ call[RT].q = NULL
  BY <1>1, IdleFields
<1>3. PICK a \in Addrs, g \in Regions :
        a = queue[k].ring /\ g = queue[k].region /\ Owns(g, a) /\ free(g, a)
  <2>1. queue[k].ring \in Addrs /\ queue[k].region \in Regions
    BY <1>0, QueueFields DEF QueueInv
  <2> QED
    BY <1>0, <1>1, <2>1, ObjectsAssumption DEF RegionInv, Owns, PhaseInv
<1>4. /\ Partition' /\ taken' = taken \ {a} /\ regions' = regions
      /\ \A s \in Regions : Allocations'[s] = Allocations[s] \ {a}
  BY <1>3, FreeEffect DEF Partition, TypeInv, RegionInv
<1>5. queue[k].owned =>
        /\ k \in Belled /\ queue[k].doorbell \in Addrs
        /\ Registry[queue[k].doorbell] \in Objs /\ Registry[queue[k].doorbell] \in alive
        /\ Registry[queue[k].doorbell] \notin Held
        /\ CurrentValue[Registry[queue[k].doorbell]] = queue[k].doorbell
  BY <1>0 DEF Belled, SignalInv, RegistryInv, TypeInv
<1>6. PICK r \in CallSet :
        /\ call' = [call EXCEPT ![RT] = r] /\ r.ptr = NULL /\ r.q = NULL
        /\ queue[k].owned => r.step = "free_value" /\ r.obj = Registry[queue[k].doorbell]
        /\ ~ queue[k].owned => r = Idle
  <2>1. CASE queue[k].owned
    <3>1. PICK o \in Objs, t \in AllThreads : o = Registry[queue[k].doorbell] /\ t = RT
      BY <1>1, <1>5, <2>1
    <3>2. Step(t, "free_value", [Idle EXCEPT !.obj = o]) /\ "free_value" \in Steps
      BY <1>0, <2>1, <3>1 DEF Steps
    <3>3. PICK r \in CallSet : /\ call' = [call EXCEPT ![t] = r] /\ r.step = "free_value"
                               /\ r.obj = o /\ r.ptr = Idle.ptr /\ r.q = Idle.q
      <4> HIDE DEF IInv
      <4> QED
        BY <3>2, IdleFields, StepWithObj
    <3> QED
      BY <2>1, <3>1, <3>3, IdleFields
  <2>2. CASE ~ queue[k].owned
    <3>1. call' = [call EXCEPT ![RT] = Idle]
      BY <1>0, <1>1, <2>2 DEF TypeInv
    <3> QED
      BY <2>2, <3>1, IdleFields
  <2> QED
    BY <2>1, <2>2
<1>7. /\ call' \in [AllThreads -> CallSet] /\ call'[RT] = r
      /\ \A u \in AllThreads \ {RT} : call'[u] = call[u]
      /\ CallInv' /\ ApartInv'
  <2>1. /\ GoodCall(r) /\ Held \subseteq alive'
        /\ r.obj # NULL => r.obj \in alive' /\ r.obj \notin Held
    BY <1>1, <1>5, <1>6, IdleFields, ObjectsAssumption, QueueFields DEF GoodCall
  <2> QED
    BY <1>1, <1>6, <2>1, CallChange
<1>8. /\ queue' \in [Qs -> QueueSet] /\ queue'[k].state = "deleted"
      /\ \A q \in Qs \ {k} : queue'[q] = queue[q]
      /\ \A q \in Qs : /\ queue'[q].ring = queue[q].ring /\ queue'[q].region = queue[q].region
                       /\ queue'[q].doorbell = queue[q].doorbell
                       /\ queue'[q].owned = queue[q].owned
  BY <1>0 DEF TypeInv, QueueSet
<1>9. TypeInv'
  BY <1>1, <1>4, <1>7, <1>8 DEF TypeInv, Partition
<1>10. /\ \A x \in Objs : /\ x \in Held' <=> x \in Held \/ x = r.obj
                          /\ x \in Incomplete' <=> x \in Incomplete
                          /\ x \in Erased' <=> x \in Erased
       /\ \A q \in Qs : q \in Building' <=> q \in Building
  <2>1. r.step # "register" /\ r.step # "erase"
    BY <1>6, IdleFields, QueueFields
  <2> QED
    BY <1>1, <1>2, <1>6, <1>7, <2>1, HandsChange, ObjectsAssumption
<1>11. \A q \in Qs : q \in Belled' <=> q \in Belled /\ q # k
  BY <1>8 DEF Belled
<1>12. PhaseInv'
  BY <1>1, <1>4, <1>6, <1>7, <1>8, IdleFields, QueueFields DEF PhaseInv, AllThreads
<1>13. QueueInv'
  <2>1. \A q \in Qs :
          /\ queue'[q].state = "base" <=> q \in Building'
          /\ queue'[q].state = "none" => queue'[q].ring = NULL
          /\ queue'[q].state = "up" => queue'[q].ring # NULL
          /\ queue'[q].state \in {"none", "base"} => ~ queue'[q].owned
    BY <1>0, <1>8, <1>10 DEF QueueInv
  <2>2. \A u \in AllThreads : call'[u].q # NULL =>
          (queue'[call'[u].q].ring = NULL <=> call'[u].step = "ring")
    BY <1>6, <1>7, <1>8, CallFields DEF QueueInv
  <2> QED
    BY <2>1, <2>2 DEF QueueInv
<1>14. RegistryInv'
  BY <1>1, <1>10 DEF RegistryInv, TypeInv
<1>15. SignalInv'
  <2>1. \A h \in Addrs : Registry[h] # NULL /\ (queue[k].owned => h # queue[k].doorbell) =>
          Registry[h] \in Objs /\ Registry[h] # r.obj
    BY <1>5, <1>6, IdleFields DEF RegistryInv, TypeInv
  <2>2. \A h \in handles : Registry[h] # NULL /\ Registry[h] \notin Held'
    BY <1>5, <1>10, <2>1 DEF SignalInv, TypeInv
  <2>3. ASSUME NEW q \in Belled'
        PROVE  /\ queue[q].doorbell \in Addrs \ handles
               /\ Registry[queue[q].doorbell] # NULL
               /\ Registry[queue[q].doorbell] \notin Held'
    <3>1. q \in Qs /\ q \in Belled /\ q # k
      BY <1>11, <2>3 DEF Belled
    <3>2. queue[k].owned => queue[q].doorbell # queue[k].doorbell
      BY <1>5, <3>1 DEF SignalInv
    <3> QED
      BY <1>10, <2>1, <3>1, <3>2 DEF SignalInv
  <2>4. \A p, q \in Belled' : queue'[p].doorbell = queue'[q].doorbell => p = q
    BY <1>8, <1>11 DEF SignalInv, Belled
  <2>5. ASSUME NEW x \in alive
        PROVE  \/ x \in Held' \/ CurrentValue[x] \in handles
               \/ \E q \in Belled' : queue'[q].doorbell = CurrentValue[x]
    <3>1. x \in Objs
      BY DEF TypeInv
    <3>2. CASE k \in Belled /\ queue[k].doorbell = CurrentValue[x]
      <4>1. x \in Held \/ Registry[CurrentValue[x]] = x
        BY <1>1 DEF RegistryInv
      <4> QED
        BY <1>6, <1>10, <3>1, <3>2, <4>1 DEF Belled
    <3>3. CASE ~ (k \in Belled /\ queue[k].doorbell = CurrentValue[x])
      <4>1. ASSUME NEW q \in Belled, queue[q].doorbell = CurrentValue[x]
            PROVE  q \in Belled' /\ queue'[q].doorbell = CurrentValue[x]
        BY <1>8, <1>11, <3>3, <4>1 DEF Belled
      <4> QED
        BY <1>10, <3>1, <4>1 DEF SignalInv
    <3> QED
      BY <3>2, <3>3
  <2>6. \A q \in Belled' : q \in Qs
    BY DEF Belled
  <2> QED
    BY <1>1, <1>8, <2>2, <2>3, <2>4, <2>5, <2>6 DEF SignalInv
<1>16. /\ OwnerKinds /\ OwnerKinds' /\ k \in Owners /\ AddressOf(k) = a
       /\ \A y \in Owners \ {k} : AddressOf(y) # a
  <2>1. OwnerKinds /\ OwnerKinds'
    BY <1>9, KindsApart, KindsApartNext
  <2>2. k \in Owners /\ AddressOf(k) = a
    BY <1>0, <1>3, <2>1, ObjectsAssumption DEF OwnerKinds
  <2> QED
    BY <2>1, <2>2, OthersKeep
<1>17. RegionInv'
  <2>1. \A x \in alive' \ Erased' : CurrentValue'[x] \in Allocations'["global"]
    BY <1>1, <1>4, <1>10, <1>16, ObjectsAssumption DEF RegionInv, OwnerKinds, TypeInv, Regions
  <2>2. ASSUME NEW q \in Qs, queue'[q].ring # NULL, queue'[q].state # "deleted"
        PROVE  queue'[q].ring \in Allocations'[queue'[q].region]
    BY <1>4, <1>8, <1>16, <2>2, QueueFields DEF RegionInv, OwnerKinds
  <2>3. \A u \in Threads : call'[u].step = "free_group" => call'[u].ptr \in Allocations'["group"]
    BY <1>1, <1>7, IdleFields DEF PhaseInv, AllThreads
  <2> QED
    BY <1>4, <2>1, <2>2, <2>3 DEF RegionInv, Partition
<1>18. OneOwner'
  <2>1. \A x \in Objs \cup Addrs : x \in Owners' <=> x \in Owners
    BY <1>1, <1>10, <1>16 DEF OwnerKinds
  <2>2. \A q \in Qs : q \in Owners' <=> q \in Owners /\ q # k
    BY <1>8, <1>16 DEF OwnerKinds
  <2>3. \A u \in Threads : (u \in Owners' <=> u \in Owners) /\ call'[u].ptr = call[u].ptr
    BY <1>1, <1>7, <1>16 DEF OwnerKinds, AllThreads
  <2>4. Owners' = Owners \ {k}
    BY <1>16, <2>1, <2>2, <2>3, ObjectsAssumption DEF OwnerKinds
  <2>5. \A x \in Owners : AddressOf(x)' = AddressOf(x)
    BY <1>1, <1>8, <1>16, <2>3 DEF OwnerKinds
  <2> QED
    BY <1>4, <1>16, <2>4, <2>5, OwnerRemoved
<1> QED
  BY <1>7, <1>9, <1>12, <1>13, <1>14, <1>15, <1>17, <1>18

----------------------------------------------------------------------------
(* Together.                                                               *)

\* The invariant holds when the runtime is up.
LEMMA InitInv == Init => IInv
<1> SUFFICES ASSUME Init PROVE IInv
  OBVIOUS
<1>1. /\ \A t \in AllThreads : call[t] = Idle
      /\ call \in [AllThreads -> CallSet]
  BY IdleFields DEF Init, AllThreads
<1>2. NoQueue \in QueueSet /\ NoQueue.state = "none" /\ NoQueue.ring = NULL /\ ~ NoQueue.owned
  BY DEF NoQueue, QueueSet, Regions
<1>3. queue \in [Qs -> QueueSet] /\ \A q \in Qs : queue[q] = NoQueue
  BY <1>2 DEF Init
<1>4. Held = {} /\ Incomplete = {} /\ Erased = {} /\ Building = {}
  BY <1>1, IdleFields, ObjectsAssumption DEF Held, Incomplete, Erased, Building, At, AllThreads
<1>5. Belled = {}
  BY <1>2, <1>3 DEF Belled
<1>6. TypeInv
  BY <1>1, <1>3 DEF Init, TypeInv
<1>7. CallInv /\ ApartInv
  BY <1>1, IdleFields DEF CallInv, GoodCall, ApartInv
<1>8. PhaseInv
  BY <1>1, IdleFields DEF Init, PhaseInv, AllThreads
<1>9. QueueInv
  BY <1>1, <1>2, <1>3, <1>4, IdleFields DEF QueueInv
<1>10. RegionInv
  BY <1>1, <1>2, <1>3, IdleFields DEF Init, RegionInv, Regions, AllThreads
<1>11. SignalInv /\ RegistryInv
  BY <1>5 DEF Init, SignalInv, RegistryInv
<1>12. OneOwner
  <2>1. OwnerKinds
    BY <1>6, KindsApart
  <2>2. Owners = {}
    BY <1>1, <1>2, <1>3, <2>1, IdleFields DEF Init, OwnerKinds, AllThreads
  <2> QED
    BY <2>2 DEF Init, OneOwner
<1> QED
  BY <1>6, <1>7, <1>8, <1>9, <1>10, <1>11, <1>12 DEF IInv

\* A step that changes nothing.
LEMMA StutterStep ==
  ASSUME IInv, UNCHANGED vars
  PROVE  IInv'
<1> USE DEF IInv
<1>1. UNCHANGED <<regions, Allocations, taken, Registry, alive, CurrentValue, queue, handles,
                  blocks, call, phase>>
  BY DEF vars, memVars, sigVars
<1>2. /\ Held' = Held /\ Incomplete' = Incomplete /\ Erased' = Erased /\ Building' = Building
      /\ Belled' = Belled
  BY <1>1, SameHands, SameBells
<1>3. TypeInv' /\ CallInv' /\ ApartInv' /\ PhaseInv'
  BY <1>1 DEF TypeInv, CallInv, GoodCall, ApartInv, PhaseInv
<1>4. QueueInv' /\ RegionInv' /\ SignalInv' /\ RegistryInv'
  BY <1>1, <1>2 DEF QueueInv, RegionInv, SignalInv, RegistryInv
<1>5. OneOwner'
  <2>1. Owners' = Owners
    BY <1>1 DEF Owners, At
  <2>2. \A x : AddressOf(x)' = AddressOf(x)
    BY <1>1 DEF AddressOf
  <2> QED
    BY <1>1, <2>1, <2>2, OwnersStay
<1> QED
  BY <1>3, <1>4, <1>5

\* Every step of a client's call preserves the invariant.
LEMMA ClientInv ==
  ASSUME IInv, NEW t \in Threads, phase = "up", Client(t)
  PROVE  IInv'
<1>1. CASE MemoryAllocate(t)
  BY <1>1, MemoryAllocateStep
<1>2. CASE MemoryFree(t)
  BY <1>2, MemoryFreeStep
<1>3. CASE FreeInGlobal(t) \/ FreeInGroup(t)
  BY <1>3, FreeStep
<1>4. CASE SignalCreate(t)
  <2>1. Idle.step \in {"idle", "doorbell"} /\ Idle = call[t] /\ ConstructSignal(t, Idle)
    BY <1>4, IdleFields DEF SignalCreate
  <2> QED
    BY <1>4, <2>1, ConstructStep DEF SignalCreate
<1>5. CASE RegisterSignal(t)
  BY <1>5, RegisterStep
<1>6. CASE SignalDestroy(t)
  BY <1>6, SignalDestroyStep
<1>7. CASE QueueCreate(t, "global", NULL)
  BY <1>7, QueueCreateStep DEF Regions
<1>8. CASE \E r \in Regions, h \in handles : QueueCreate(t, r, h)
  BY <1>8, QueueCreateStep
<1>9. CASE AllocateRing(t)
  BY <1>9, AllocateRingStep
<1>10. CASE MakeDoorbell(t)
  BY <1>10, ConstructStep DEF MakeDoorbell
<1>11. CASE QueueDestroy(t)
  BY <1>11, QueueDestroyStep
<1>12. CASE SignalOutOfMemory(t) \/ RingOutOfMemory(t)
  BY <1>12, OutOfMemoryStep DEF SignalOutOfMemory, RingOutOfMemory
<1> QED
  BY <1>1, <1>2, <1>3, <1>4, <1>5, <1>6, <1>7, <1>8, <1>9, <1>10, <1>11, <1>12 DEF Client

\* Every step preserves the invariant.
LEMMA NextInv == IInv /\ [Next]_vars => IInv'
<1> SUFFICES ASSUME IInv, [Next]_vars PROVE IInv'
  OBVIOUS
<1>1. CASE \E t \in Threads : phase = "up" /\ Client(t)
  BY <1>1, ClientInv
<1>2. CASE \E t \in Threads \cup {RT} : phase \in {"up", "collect"} /\ (FreeValue(t) \/ Erase(t))
  BY <1>2, FreeValueStep, EraseStep DEF AllThreads
<1>3. CASE ShutDown \/ DeleteRegions
  BY <1>3, PhaseStep
<1>4. CASE CollectQueue
  BY <1>4, CollectQueueStep
<1>5. CASE UNCHANGED vars
  BY <1>5, StutterStep
<1> QED
  BY <1>1, <1>2, <1>3, <1>4, <1>5 DEF Next

\* The invariant holds in every state: each address has its owner and its region,
\* each signal object somebody who will delete it.
THEOREM Invariance == Spec => []IInv
BY InitInv, NextInv, PTL DEF Spec

----------------------------------------------------------------------------
(* What the invariant says of the signals, the addresses and the last      *)
(* hsa_shut_down.                                                          *)

\* A complete signal is found under its handle until its destructor has taken
\* it out of the registry (registerObject and ~HSAObjectMapping), also when its
\* address was used before; no handle leads to a deleted object.
THEOREM RegistryIsExact == Spec => []RegistryExact
<1>1. IInv => RegistryExact
  <2> SUFFICES ASSUME IInv PROVE RegistryExact
    OBVIOUS
  <2>1. \A o \in Objs : Registered(o) => Registry[CurrentValue[o]] = o
    BY DEF IInv, RegistryInv, Registered, Incomplete, Erased
  <2> QED
    BY <2>1 DEF IInv, RegistryInv, SignalInv, RegistryExact
<1> QED
  BY <1>1, Invariance, PTL

\* However constructors, destructors and hsa_memory_free interleave, no address
\* of a region has two owners, and no address that is owned has been freed.
THEOREM AddressesAreApart == Spec => []OneOwner
<1>1. IInv => OneOwner
  BY DEF IInv
<1> QED
  BY <1>1, Invariance, PTL

\* ~GCCBuiltinSignal, and freePointer when it asks the last region, free an
\* address that the region has handed out, while the region is there.
THEOREM FreesWhereAllocated == Spec => []FreedWhereAllocated
<1>1. IInv => FreedWhereAllocated
  <2> SUFFICES ASSUME IInv, NEW t \in AllThreads
      PROVE  /\ call[t].step = "free_value" => Owns("global", CurrentValue[call[t].obj])
             /\ call[t].step = "free_group" => Owns("group", call[t].ptr)
    BY DEF FreedWhereAllocated, AllThreads
  <2> USE DEF IInv
  <2>1. call[t].step \in {"free_value", "free_group"} => regions = Regions
    BY IdleFields DEF PhaseInv, AllThreads
  <2>2. ASSUME call[t].step = "free_value" PROVE Owns("global", CurrentValue[call[t].obj])
    <3>1. call[t].obj \in alive /\ call[t].obj # NULL
      BY <2>2 DEF CallInv, GoodCall
    <3>2. call[t].obj \notin Erased
      BY <2>2, <3>1, Hands
    <3> QED
      BY <2>1, <2>2, <3>1, <3>2 DEF RegionInv, Owns, Regions
  <2>3. ASSUME call[t].step = "free_group" PROVE Owns("group", call[t].ptr)
    <3>1. t \in Threads
      BY <2>3 DEF PhaseInv, AllThreads
    <3> QED
      BY <2>1, <2>3, <3>1 DEF RegionInv, Owns, Regions
  <2> QED
    BY <2>2, <2>3
<1> QED
  BY <1>1, Invariance, PTL

\* After the last hsa_shut_down what is left is what the clients have: their
\* memory and their signals, the doorbells of their soft queues among them.
THEOREM ShutDownLeavesClients == Spec => []ShutDownLeaves
<1>1. IInv => ShutDownLeaves
  <2> SUFFICES ASSUME IInv, phase = "off"
      PROVE  taken = handles \cup blocks /\ alive = {Registry[h] : h \in handles}
    BY DEF ShutDownLeaves
  <2> USE DEF IInv
  <2>1. \A t \in AllThreads : call[t] = Idle
    BY DEF PhaseInv, AllThreads
  <2>2. Held = {} /\ Incomplete = {} /\ Erased = {} /\ Building = {}
    BY <2>1, IdleFields, ObjectsAssumption DEF Held, Incomplete, Erased, Building, At, AllThreads
  <2>3. \A q \in Qs : queue[q].state # "up" /\ queue[q].state # "base"
    BY <2>2 DEF PhaseInv, QueueInv
  <2>4. Belled = {}
    BY <2>3 DEF Belled
  <2>5. OwnerKinds
    BY KindsApart
  <2>6. \A q \in Qs : q \notin Owners
    BY <2>3, <2>5, QueueFields DEF OwnerKinds, QueueInv
  <2>7. \A t \in Threads : t \notin Owners
    BY <2>1, <2>5, IdleFields DEF OwnerKinds, AllThreads
  <2>8. \A o \in alive : CurrentValue[o] \in handles /\ Registry[CurrentValue[o]] = o
    BY <2>2, <2>4 DEF SignalInv, RegistryInv
  <2>9. \A h \in handles : Registry[h] \in alive /\ CurrentValue[Registry[h]] = h
    BY DEF SignalInv, RegistryInv, TypeInv
  <2>10. alive = {Registry[h] : h \in handles}
    BY <2>8, <2>9
  <2>11. \A a \in Addrs : a \in taken <=> a \in handles \cup blocks
    <3>1. ASSUME NEW a \in taken PROVE a \in handles \cup blocks
      <4>1. PICK x \in Owners : a = AddressOf(x)
        BY DEF OneOwner
      <4> QED
        BY <2>5, <2>6, <2>7, <2>8, <4>1 DEF OwnerKinds
    <3>2. ASSUME NEW a \in handles PROVE a \in taken
      <4>1. Registry[a] \in Owners /\ AddressOf(Registry[a]) = a
        BY <2>2, <2>5, <2>9 DEF OwnerKinds, TypeInv
      <4> QED
        BY <4>1 DEF OneOwner
    <3>3. ASSUME NEW a \in blocks PROVE a \in taken
      <4>1. a \in Owners /\ AddressOf(a) = a
        BY <2>5 DEF OwnerKinds, TypeInv
      <4> QED
        BY <4>1 DEF OneOwner
    <3> QED
      BY <3>1, <3>2, <3>3
  <2> QED
    BY <2>10, <2>11 DEF TypeInv
<1> QED
  BY <1>1, Invariance, PTL
============================================================================
