CONSTANTS
  p1 = p1
  p2 = p2
  h1 = h1
  NULL = NULL
  Size = 2
  Type = "SINGLE"
  Producers = {p1}
  ClaimBy <- ClaimStore
  Batches = {1, 2}
  MaxIndex = 6
  NumDeps = 2
  HostSignals = {}
  Workloads <- SingleWorkloads
SPECIFICATION LiveSpec
INVARIANTS InOrder
PROPERTIES EveryPacketDone
CHECK_DEADLOCK FALSE
