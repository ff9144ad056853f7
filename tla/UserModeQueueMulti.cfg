CONSTANTS
  p1 = p1
  p2 = p2
  h1 = h1
  NULL = NULL
  Size = 2
  Type = "MULTI"
  Producers = {p1, p2}
  ClaimBy <- ClaimMixed
  Batches = {1, 2}
  MaxIndex = 4
  NumDeps = 2
  HostSignals = {h1}
  Workloads <- MultiWorkloads
SPECIFICATION LiveSpec
INVARIANTS TypeOK SlotExclusive LaunchedOnce FreedAreDone PacketIdNear BarrierRespected
PROPERTIES ImplementsPacketQueue EveryPacketDone NextRingRechecks
CHECK_DEADLOCK FALSE
