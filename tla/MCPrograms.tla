----------------------------- MODULE MCPrograms -----------------------------
(* A small instance of Programs for TLC: two programs, two compatible modules *)
(* and one that is not, two code objects, of finalization or deserialization, *)
(* and an executable that can load both.                                      *)
EXTENDS Programs, TLC

CONSTANTS p1, p2, m1, m2, m3, c1, c2, e1, n1, v1, v2

Symmetry == Permutations(Progs) \cup Permutations(Compatible) \cup Permutations(Codes)
              \cup Permutations(Addrs)
=============================================================================
