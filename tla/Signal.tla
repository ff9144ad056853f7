------------------------------- MODULE Signal ------------------------------
(***************************************************************************)
(* The operations of hsa_signal.cc on the value of a signal, as            *)
(* GCCBuiltinSignal.cc and the builtins of Atomic.hh carry them out, the   *)
(* polling wait with its timeout, and hsa_amd_memory_async_copy, which is  *)
(* built from them.                                                        *)
(*                                                                         *)
(* The threads use the signals the way clients do.  The lockers take a     *)
(* lock with cas or exchange, add to a counter under it with plain loads   *)
(* and stores, and announce themselves with an atomic operation.  A copier *)
(* waits for the announcements and copies the counter.  A waiter waits for *)
(* something that becomes true and stays so.                               *)
(*                                                                         *)
(* A value is a two's complement number of Width bits, 64 in the code; so  *)
(* is a std::chrono duration, while a timeout hint is unsigned.            *)
(***************************************************************************)
EXTENDS Integers, Sequences, FiniteSets

CONSTANTS
  Width,        \* bits of hsa_signal_value_t and of the clock's duration
  Lockers, Copiers, Waiters,
  BitOf,        \* the position of each locker's bit
  Deps,         \* dep_signals of the copy
  DoneInit,     \* what the client gives the completion signal of the copies
  Waits         \* the waits a waiter may choose: sig, cond, compare, timeout

Names == {"lock", "count", "mask", "join", "done"}
Threads == Lockers \cup Copiers \cup Waiters

\* 2 ^ k, in a form that can be reasoned about.
Power[k \in Nat] == IF k = 0 THEN 1 ELSE 2 * Power[k - 1]

Half == Power[Width - 1]
Values == - Half .. Half - 1
Wrap(x) == ((x + Half) % (2 * Half)) - Half
UINT64_MAX == 2 * Half - 1
MaxDuration == Half - 1
Conditions == {"EQ", "NE", "LT", "GTE"}

ASSUME SignalAssumption ==
  /\ Width \in Nat /\ Width >= 2
  /\ IsFiniteSet(Lockers)
  /\ Lockers \cap (Copiers \cup Waiters) = {} /\ Copiers \cap Waiters = {}
  /\ Deps \in Seq(Names)
  /\ DoneInit \in Values \ {0}
  /\ BitOf \in [Lockers -> 0 .. Width - 1]
  /\ \A k, l \in Lockers : BitOf[k] = BitOf[l] => k = l
  /\ Waits \subseteq [sig : Names, cond : Conditions, compare : Values,
                      timeout : 0 .. UINT64_MAX]

VARIABLES
  value,        \* CurrentValue of each signal
  how,          \* the operation with which the lockers announce themselves
  pc,
  seen,         \* what a locker loaded, what a wait loaded last
  dep,          \* position in dep_signals
  wait,         \* the arguments of the wait a thread is in
  elapsed,      \* Now() - StartTime of that wait
  copied        \* what the copy found in the counter

vars == <<value, how, pc, seen, dep, wait, elapsed, copied>>

----------------------------------------------------------------------------
(* Atomic.hh and the conditions.                                           *)

Positions == 0 .. Width - 1
Bits(x) == {k \in Positions : (x \div Power[k]) % 2 = 1}
OfBits(S) == CHOOSE z \in Values : Bits(z) = S

\* Faulty variant: the value is an unsigned number.
FetchAddUnsigned(old, x) == (old + x) % (2 * Half)
FetchAdd(old, x) == Wrap(old + x)
FetchSub(old, x) == Wrap(old - x)
FetchAnd(old, x) == OfBits(Bits(old) \cap Bits(x))
FetchOr(old, x) == OfBits(Bits(old) \cup Bits(x))
FetchXor(old, x) == OfBits((Bits(old) \ Bits(x)) \cup (Bits(x) \ Bits(old)))
Exchange(old, x) == x
CompareExchange(old, expected, x) == IF old = expected THEN x ELSE old

\* Faulty variant: the comparisons of the last two conditions are exchanged.
HoldsExchanged(cond, compare, v) ==
  CASE cond = "EQ"  -> v = compare
    [] cond = "NE"  -> v # compare
    [] cond = "LT"  -> v >= compare
    [] cond = "GTE" -> v < compare

\* ToPredicate
Holds(cond, compare, v) ==
  CASE cond = "EQ"  -> v = compare
    [] cond = "NE"  -> v # compare
    [] cond = "LT"  -> v < compare
    [] cond = "GTE" -> v >= compare

\* Faulty variant: a hint of UINT64_MAX is converted like every other.
ToStdPeriodPlain(timeout) == Wrap(timeout)

\* ToStdPeriod: only UINT64_MAX is told apart from a duration; a larger hint
\* than a duration can hold becomes a negative one.
ToStdPeriod(timeout) == IF timeout = UINT64_MAX THEN MaxDuration ELSE Wrap(timeout)

----------------------------------------------------------------------------
(* GCCBuiltinSignal: each method is one access to CurrentValue.            *)

\* Faulty variant: what std::atomic's compare_exchange returns, a bool.
compareExchangeBool(s, expected, x) == IF value[s] = expected THEN 1 ELSE 0

\* The builtin overwrites Expected with the value it finds.
compareExchangeResult(s, expected, x) == value[s]
compareExchange(s, expected, x) ==
  value' = [value EXCEPT ![s] = CompareExchange(@, expected, x)]
exchange(s, x) == value' = [value EXCEPT ![s] = Exchange(@, x)]
store(s, x) == value' = [value EXCEPT ![s] = x]
add(s, x) == value' = [value EXCEPT ![s] = FetchAdd(@, x)]
subtract(s, x) == value' = [value EXCEPT ![s] = FetchSub(@, x)]
and_(s, x) == value' = [value EXCEPT ![s] = FetchAnd(@, x)]
or_(s, x) == value' = [value EXCEPT ![s] = FetchOr(@, x)]
xor_(s, x) == value' = [value EXCEPT ![s] = FetchXor(@, x)]

----------------------------------------------------------------------------
NoWait == [sig |-> "done", cond |-> "EQ", compare |-> 0, timeout |-> 0]

\* The operand that sets a locker's bit, and all their bits.
Operand(t) == Wrap(Power[BitOf[t]])
AllBits == OfBits({BitOf[l] : l \in Lockers})

\* The announcements bring "join" to 0, whichever operation makes them.
JoinInit(op) ==
  CASE op = "subtract" -> Wrap(Cardinality(Lockers))
    [] op = "add" -> Wrap(- Cardinality(Lockers))
    [] op \in {"xor", "and"} -> AllBits

Init ==
  /\ how \in {"subtract", "add", "xor", "and"}
  /\ value = [s \in Names |-> CASE s = "join" -> JoinInit(how)
                                [] s = "done" -> DoneInit
                                [] OTHER -> 0]
  /\ pc = [t \in Threads |-> IF t \in Lockers THEN "acquire"
                             ELSE IF t \in Copiers THEN "deps" ELSE "choose"]
  /\ seen = [t \in Threads |-> 0]
  /\ dep = [t \in Copiers |-> 1]
  /\ wait = [t \in Threads |-> NoWait]
  /\ elapsed = [t \in Threads |-> 0]
  /\ copied = [t \in Copiers |-> 0]

Goto(t, from, to) == pc[t] = from /\ pc' = [pc EXCEPT ![t] = to]

----------------------------------------------------------------------------
(* The lockers.                                                            *)

\* hsa_signal_cas_*
AcquireByCas(t) ==
  /\ Goto(t, "acquire", IF compareExchangeResult("lock", 0, 1) = 0 THEN "load" ELSE "acquire")
  /\ compareExchange("lock", 0, 1)
  /\ UNCHANGED <<how, seen, dep, wait, elapsed, copied>>

\* hsa_signal_exchange_*
AcquireByExchange(t) ==
  /\ Goto(t, "acquire", IF value["lock"] = 0 THEN "load" ELSE "acquire")
  /\ exchange("lock", 1)
  /\ UNCHANGED <<how, seen, dep, wait, elapsed, copied>>

\* hsa_signal_load_*
LoadCount(t) ==
  /\ Goto(t, "load", "store")
  /\ seen' = [seen EXCEPT ![t] = value["count"]]
  /\ UNCHANGED <<value, how, dep, wait, elapsed, copied>>

\* hsa_signal_store_*
StoreCount(t) ==
  /\ Goto(t, "store", "unlock")
  /\ store("count", Wrap(seen[t] + 1))
  /\ UNCHANGED <<how, seen, dep, wait, elapsed, copied>>

Unlock(t) ==
  /\ Goto(t, "unlock", "flag")
  /\ store("lock", 0)
  /\ UNCHANGED <<how, seen, dep, wait, elapsed, copied>>

\* hsa_signal_or_*
Flag(t) ==
  /\ Goto(t, "flag", "join")
  /\ or_("mask", Operand(t))
  /\ UNCHANGED <<how, seen, dep, wait, elapsed, copied>>

\* hsa_signal_subtract_*, hsa_signal_add_*, hsa_signal_xor_*, hsa_signal_and_*
Join(t) ==
  /\ Goto(t, "join", "end")
  /\ \/ how = "subtract" /\ subtract("join", 1)
     \/ how = "add" /\ add("join", 1)
     \/ how = "xor" /\ xor_("join", Operand(t))
     \/ how = "and" /\ and_("join", - Operand(t) - 1)
  /\ UNCHANGED <<how, seen, dep, wait, elapsed, copied>>

----------------------------------------------------------------------------
(* The wait of hsa_signal_wait_*.                                          *)

StartWait(t, from, w) ==
  /\ Goto(t, from, "wait")
  /\ wait' = [wait EXCEPT ![t] = w]
  /\ elapsed' = [elapsed EXCEPT ![t] = 0]

\* Value = load(MO)
WaitLoad(t) ==
  /\ Goto(t, "wait", "check")
  /\ seen' = [seen EXCEPT ![t] = value[wait[t].sig]]
  /\ UNCHANGED <<value, how, dep, wait, elapsed, copied>>

TimedOut(t) == elapsed[t] > ToStdPeriod(wait[t].timeout)
Met(t) == Holds(wait[t].cond, wait[t].compare, seen[t])

\* Faulty variant: the value is not loaded again.
WaitCheckOldValue(t) ==
  /\ Goto(t, "check", IF TimedOut(t) \/ Met(t) THEN "waited" ELSE "check")
  /\ UNCHANGED <<value, how, seen, dep, wait, elapsed, copied>>

WaitCheck(t) ==
  /\ Goto(t, "check", IF TimedOut(t) \/ Met(t) THEN "waited" ELSE "wait")
  /\ UNCHANGED <<value, how, seen, dep, wait, elapsed, copied>>

\* The clock runs for a wait until its period has passed.  A difference of two
\* time points never exceeds the largest duration, so that the clock of a wait
\* with that period need not run.
Waiting(t) == pc[t] \in {"wait", "check"}
Running(t) ==
  Waiting(t) /\ ~ TimedOut(t) /\ ToStdPeriod(wait[t].timeout) < MaxDuration
Tick ==
  /\ \E t \in Threads : Running(t)
  /\ elapsed' = [t \in Threads |-> IF Running(t) THEN elapsed[t] + 1 ELSE elapsed[t]]
  /\ UNCHANGED <<value, how, pc, seen, dep, wait, copied>>

\* A waiter calls hsa_signal_wait_*.
CallWait(t) ==
  /\ \E w \in Waits : StartWait(t, "choose", w)
  /\ UNCHANGED <<value, how, seen, dep, copied>>

----------------------------------------------------------------------------
(* hsa_amd_memory_async_copy: it waits for one dep_signal after the other  *)
(* in the calling thread, copies, and sets the completion signal.          *)

DepWait(s) == [sig |-> s, cond |-> "EQ", compare |-> 0, timeout |-> UINT64_MAX]

WaitDep(t) ==
  /\ dep[t] <= Len(Deps)
  /\ StartWait(t, "deps", DepWait(Deps[dep[t]]))
  /\ UNCHANGED <<value, how, seen, dep, copied>>

NextDep(t) ==
  /\ Goto(t, "waited", "deps")
  /\ dep' = [dep EXCEPT ![t] = @ + 1]
  /\ UNCHANGED <<value, how, seen, wait, elapsed, copied>>

\* hsa_memory_copy
Copy(t) ==
  /\ dep[t] > Len(Deps)
  /\ Goto(t, "deps", "signal")
  /\ copied' = [copied EXCEPT ![t] = value["count"]]
  /\ UNCHANGED <<value, how, seen, dep, wait, elapsed>>

SignalDone(t) ==
  /\ Goto(t, "signal", "end")
  /\ store("done", 0)
  /\ UNCHANGED <<how, seen, dep, wait, elapsed, copied>>

----------------------------------------------------------------------------
Locker(t) ==
  \/ AcquireByCas(t) \/ AcquireByExchange(t) \/ LoadCount(t) \/ StoreCount(t)
  \/ Unlock(t) \/ Flag(t) \/ Join(t)
Waiter(t) == CallWait(t) \/ WaitLoad(t) \/ WaitCheck(t)
Copier(t) ==
  WaitDep(t) \/ NextDep(t) \/ Copy(t) \/ SignalDone(t) \/ WaitLoad(t) \/ WaitCheck(t)

Finished(t) == pc[t] = IF t \in Waiters THEN "waited" ELSE "end"

Next ==
  \/ \E t \in Lockers : Locker(t)
  \/ \E t \in Waiters : Waiter(t)
  \/ \E t \in Copiers : Copier(t)
  \/ Tick
  \/ (\A t \in Threads : Finished(t)) /\ UNCHANGED vars

\* The threads run and time passes.
Fairness ==
  /\ \A t \in Lockers : WF_vars(Locker(t))
  /\ \A t \in Waiters : WF_vars(Waiter(t))
  /\ \A t \in Copiers : WF_vars(Copier(t))
  /\ WF_vars(Tick)

Spec == Init /\ [][Next]_vars
LiveSpec == Spec /\ Fairness

----------------------------------------------------------------------------
(* Properties                                                              *)

\* Type invariant: what GCCBuiltinSignal's operations compute stays a signed
\* number of Width bits, at its ends too.
TypeOK ==
  /\ value \in [Names -> Values]
  /\ how \in {"subtract", "add", "xor", "and"}
  /\ pc \in [Threads -> {"acquire", "load", "store", "unlock", "flag", "join", "end",
                         "deps", "choose", "wait", "check", "waited", "signal"}]
  /\ seen \in [Threads -> Values]
  /\ dep \in [Copiers -> 1 .. Len(Deps) + 1]
  /\ wait \in [Threads -> Waits \cup {NoWait} \cup {DepWait(s) : s \in Names}]
  /\ elapsed \in [Threads -> 0 .. MaxDuration]
  /\ copied \in [Copiers -> Values]

\* The value that cas and exchange return tells their caller whether the lock
\* is his: "Observed value of the signal" (hsa.h).  One locker at a time is
\* between acquiring and unlocking, and no increment of the counter is lost.
Holding(t) == pc[t] \in {"load", "store", "unlock"}
Counted == {t \in Lockers : pc[t] \in {"unlock", "flag", "join", "end"}}
LockedCount ==
  /\ \A t, u \in Lockers : Holding(t) /\ Holding(u) => t = u
  /\ value["count"] = Wrap(Cardinality(Counted))

\* hsa_amd_memory_async_copy copies only after each of its dep_signals was 0:
\* here, after the last announcement, so that it finds the final count.
CopyAfterDeps ==
  \A t \in Copiers : pc[t] \in {"signal", "end"} =>
    /\ \A l \in Lockers : pc[l] = "end"
    /\ copied[t] = Wrap(Cardinality(Lockers))

\* A wait that returns a value which does not meet the condition has waited
\* longer than its timeout hint, or was given one that is too large for a
\* duration and is no wait at all; a wait with the hint UINT64_MAX returns
\* only on its condition.  What a wait has seen stays true here, and what came
\* before it is visible: every locker has counted when all bits of the mask
\* are set, and a copy is made when their completion signal is 0.
WaitAnswers ==
  \A t \in Waiters : pc[t] = "waited" =>
    IF Met(t)
    THEN /\ Holds(wait[t].cond, wait[t].compare, value[wait[t].sig])
         /\ wait[t].sig = "mask" /\ wait[t].cond = "GTE" =>
              value["count"] = Wrap(Cardinality(Lockers))
         /\ wait[t].sig = "done" => \E c \in Copiers : pc[c] = "end"
    ELSE \/ elapsed[t] > wait[t].timeout
         \/ wait[t].timeout \in Half .. UINT64_MAX - 1

\* Every wait returns: on its timeout, or because what it waits for has come
\* true for good; and so does the copy.
WaitsReturn ==
  /\ \A t \in Waiters : Waiting(t) ~> pc[t] = "waited"
  /\ \A t \in Copiers : <>(pc[t] = "end")
============================================================================
