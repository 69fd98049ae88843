SPECIFICATION Spec
CONSTANTS
  Requests = {r1}
  Staff = {a, b}
  Workers = {w1, w2}
  NoOne = NoOne
  System = System
  TTL = 1
  Retention = 1
  BatchSize = 2
  MaxTime = 3
  MaxEnv = 3
PROPERTIES
  EventuallySettled
CHECK_DEADLOCK FALSE
