CONSTANTS
  l1 = l1
  l2 = l2
  c1 = c1
  w1 = w1
  Width = 3
  Lockers = {l1, l2}
  Copiers = {c1}
  Waiters = {w1}
  BitOf <- BitFor
  Deps <- BothDeps
  DoneInit = 2
  Waits <- SmallWaits
SPECIFICATION LiveSpec
INVARIANTS TypeOK LockedCount CopyAfterDeps WaitAnswers
PROPERTIES WaitsReturn
