SPECIFICATION StaffSpec
CONSTANTS
  r1 = r1
  r2 = r2
  Requests = {r1, r2}
  Staff = {1, 2, 3}
  Workers = {w1, w2}
  NoOne = NoOne
  System = System
  TTL = 1
  Retention = 1
  BatchSize = 1
  MaxTime = 1
  MaxEnv = 24
  Starts <- AllStarts
PROPERTIES
  ExecutedAsAsked
  ApproverHoldsPermission
  EffectWithVerdict
  ApprovedLeavesTwoOwners
  GuardKeepsOwner
  EveryCallEnds
CHECK_DEADLOCK FALSE
VIEW NoCount
