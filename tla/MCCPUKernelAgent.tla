------------------------- MODULE MCCPUKernelAgent --------------------------
(* Small instances of CPUKernelAgent for TLC. *)
EXTENDS CPUKernelAgent

CONSTANTS q1, q2, q3, c1, c2

TargetOf == [c \in Clients |-> IF c = c1 THEN q1 ELSE q2]
============================================================================
