CONSTANTS
  t1 = t1
  t2 = t2
  t3 = t3
  g1 = g1
  NULL = NULL
  Threads = {t1, t2, t3, g1}
  Guests = {g1}
  MaxCount = 2
SPECIFICATION LiveSpec
INVARIANTS InstanceMatchesCount CountIsHolders OwnersAreSafe WorkerFindsInstance
PROPERTIES MutexReleased
