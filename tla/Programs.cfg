CONSTANTS
  p1 = p1
  p2 = p2
  m1 = m1
  m2 = m2
  m3 = m3
  c1 = c1
  c2 = c2
  e1 = e1
  n1 = n1
  v1 = v1
  v2 = v2
  Progs = {p1, p2}
  Modules = {m1, m2, m3}
  Compatible = {m1, m2}
  Codes = {c1, c2}
  Exes = {e1}
  Names = {n1}
  Addrs = {v1, v2}
  Binary = Binary
  Shared = Shared
  NULL = NULL
SYMMETRY Symmetry
SPECIFICATION Spec
INVARIANTS SymbolsCallable InputsKept NoFileLeft DefinitionsSeen
