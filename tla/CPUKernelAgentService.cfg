CONSTANTS
  q1 = q1
  q2 = q2
  q3 = q3
  c1 = c1
  c2 = c2
  NULL = NULL
  Queues = {q1, q2, q3}
  Created = {q2, q3}
  Clients = {}
  Destroyers = {q1}
  Endless = {}
  QueuesMax = 2
  MaxRings = 2
  Target <- TargetOf
SPECIFICATION LiveSpec
PROPERTIES RungIsServed CreateReturns ShutDownReturns
