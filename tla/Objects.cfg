CONSTANTS
  t1 = t1
  t2 = t2
  a1 = a1
  a2 = a2
  a3 = a3
  a4 = a4
  o1 = o1
  o2 = o2
  o3 = o3
  q1 = q1
  q2 = q2
  Threads = {t1, t2}
  Addrs = {a1, a2, a3, a4}
  Objs = {o1, o2, o3}
  Qs = {q1, q2}
  RT = RT
  NULL = NULL
SYMMETRY Symmetry
SPECIFICATION Spec
INVARIANTS RegistryExact OneOwner FreedWhereAllocated ShutDownLeaves
