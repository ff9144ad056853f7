CONSTANTS
  q1 = q1
  q2 = q2
  q3 = q3
  c1 = c1
  c2 = c2
  NULL = NULL
  Queues = {q1, q2, q3}
  Created = {q2, q3}
  Clients = {}
  Destroyers = {}
  Endless = {}
  QueuesMax = 2
  MaxRings = 1
  Target <- TargetOf
SPECIFICATION Spec
INVARIANTS QueuesWithinLimit
CHECK_DEADLOCK FALSE
