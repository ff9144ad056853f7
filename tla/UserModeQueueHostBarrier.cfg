CONSTANTS
  p1 = p1
  p2 = p2
  h1 = h1
  NULL = NULL
  Size = 2
  Type = "MULTI"
  Producers = {p1}
  ClaimBy <- ClaimAdd
  Batches = {1}
  MaxIndex = 4
  NumDeps = 2
  HostSignals = {h1}
  Workloads <- HostWorkloads
SPECIFICATION LiveSpec
PROPERTIES BarrierOnlyDelays
CHECK_DEADLOCK FALSE
