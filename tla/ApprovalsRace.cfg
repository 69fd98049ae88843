SPECIFICATION Spec
CONSTANTS
  Requests = {r1, r2}
  Staff = {a, b}
  Workers = {w1, w2}
  NoOne = NoOne
  System = System
  TTL = 1
  Retention = 1
  BatchSize = 1
  MaxTime = 3
  MaxEnv = 2
SYMMETRY Symmetric
INVARIANTS
  TwoHands
  DecidedOnce
  ExpiresAtDeadline
PROPERTIES
  JudgedAsRead
  FailedAlone
  ImplementsLifecycle
CHECK_DEADLOCK FALSE
