SPECIFICATION StaffSpec
CONSTANTS
  r1 = r1
  r2 = r2
  Requests = {r1, r2}
  Staff = {1, 2}
  Workers = {w1, w2}
  NoOne = NoOne
  System = System
  TTL = 1
  Retention = 1
  BatchSize = 1
  MaxTime = 1
  MaxEnv = 12
  Starts <- OperatorStarts
PROPERTIES
  GuardKeepsOwner
CHECK_DEADLOCK FALSE
