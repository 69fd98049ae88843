SPECIFICATION Spec
CONSTANTS
  Requests = {r1}
  Staff = {a, b}
  Workers = {w1, w2}
  NoOne = NoOne
  System = System
  TTL = 1
  Retention = 1
  BatchSize = 1
  MaxTime = 2
  MaxEnv = 2
PROPERTIES
  ShownExpiredStays
CHECK_DEADLOCK FALSE
