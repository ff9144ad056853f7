-------------------------- MODULE MCUserModeQueue --------------------------
(* Small instances of UserModeQueue for TLC. *)
EXTENDS UserModeQueueRefinement

CONSTANTS p1, p2, h1

\* Packets of the workloads.  deps has NumDeps entries, NULL where unused.
None == [k \in 1 .. NumDeps |-> NULL]
Kernel(fault) == [type |-> "KERNEL_DISPATCH", fault |-> fault,
                  barrier |-> FALSE, deps |-> None, completion |-> TRUE]
Silent == [Kernel("none") EXCEPT !.completion = FALSE]
Ordered == [Kernel("none") EXCEPT !.barrier = TRUE]
Barrier(type, deps) == [Kernel("none") EXCEPT !.type = type, !.deps = deps]
After(a, b) == [k \in 1 .. NumDeps |-> IF k = NumDeps THEN a ELSE IF k = 1 THEN b ELSE NULL]
Unsupported == [Kernel("none") EXCEPT !.type = "AGENT_DISPATCH"]

Function(s) == [i \in Indices |-> s[i + 1]]

ClaimAdd == [p \in Producers |-> "add"]
ClaimMixed == [p \in Producers |-> IF p = p1 THEN "add" ELSE "cas"]
ClaimStore == [p \in Producers |-> "store"]

\* Four packets: kernels only; barriers that wait for packets before them; a
\* barrier that waits for a host signal, and a packet of an unsupported type.
HostBarrier(t, end) ==
  Function(<<Kernel("code_object"), Barrier(t, After(h1, NULL)), Ordered, end>>)
MultiWorkloads ==
  {Function(<<Kernel("none"), Kernel("none"), Silent, Kernel("dimensions")>>),
   Function(<<Kernel("none"), Barrier("BARRIER_AND", After(0, NULL)),
              Kernel("group_memory"), Barrier("BARRIER_OR", After(2, 1))>>),
   HostBarrier("BARRIER_AND", Unsupported)}
SingleWorkloads ==
  {Function(<<Kernel("none"), Barrier("BARRIER_AND", After(0, NULL)), Silent,
              Barrier("BARRIER_OR", After(1, NULL)), Kernel("none"), Kernel("none")>>)}
HostWorkloads == {HostBarrier(t, Kernel("none")) : t \in BarrierTypes}
============================================================================
