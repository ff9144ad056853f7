----------------------------- MODULE MCObjects -----------------------------
(* A small instance of Objects for TLC: two threads, and room for a queue   *)
(* with its ring and doorbell, another ring, a signal or a block.           *)
EXTENDS Objects, TLC

CONSTANTS t1, t2, a1, a2, a3, a4, o1, o2, o3, q1, q2

Symmetry == Permutations(Threads) \cup Permutations(Addrs) \cup Permutations(Objs)
              \cup Permutations(Qs)
============================================================================
