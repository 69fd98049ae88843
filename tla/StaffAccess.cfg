SPECIFICATION Spec
CONSTANTS
  i1 = i1
  i2 = i2
  Tabs = {t1, t2}
  Instances = {i1, i2}
  Old = Old
  New = New
  MFAPendingTTL = 1
  SessionTTL = 3
  InviteTTL = 4
  LockDuration = 2
  LockNotifyEvery = 2
  ResendPause = 1
  MaxFactorFailures = 2
  MaxInviteSends = 3
  CodesIssued = 2
  Plans <- AllPlans
SYMMETRY OneTab
INVARIANTS
  SessionsStand
  GuessesBounded
  FactorsOnce
  SecretsKept
  MailsSpaced
CHECK_DEADLOCK FALSE
