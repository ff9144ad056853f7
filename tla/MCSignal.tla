------------------------------ MODULE MCSignal -----------------------------
(* A small instance of Signal for TLC: two lockers, a copy and a waiter.    *)
EXTENDS Signal, TLC

CONSTANTS l1, l2, c1, w1

BitFor == (l1 :> 0) @@ (l2 :> 1)
BothDeps == <<"lock", "join">>
\* Timeouts of three bits: one that passes, one that is negative
\* as a duration, and UINT64_MAX.
SmallWaits ==
  {[sig |-> s[1], cond |-> s[2], compare |-> s[3], timeout |-> h] :
     s \in {<<"done", "EQ", 0>>, <<"done", "LT", 1>>, <<"mask", "GTE", 3>>, <<"mask", "NE", 0>>},
     h \in {1, 5, 7}}
============================================================================
