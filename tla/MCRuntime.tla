----------------------------- MODULE MCRuntime -----------------------------
(* A small instance of Runtime for TLC: three threads with references of    *)
(* their own, one more than the counter can count, and one without.         *)
EXTENDS Runtime

CONSTANTS t1, t2, t3, g1
============================================================================
