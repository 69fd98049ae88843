SPECIFICATION Spec
CONSTANTS
  None = None
  Clients = {c1, c2}
  Cookies = {k1, k2}
  Challenges = {s1, s2}
  Sessions = {p1, p2}
  Micro = 3
  Patience = 6
  NegTTL = 6
  MaxNeg = 2
  ChallengeTTL = 6
  Second = 6
  CacheTTL = 6
  MaxEntries = 1
  Grace = 7
  Transit = 3
  Ids = {1, 2, 3}
  Late = 3
  LifeOfRow = 3
  Admins = {a1, a2}
  Workers = {w1}
  Drain = 3
  SoftOfAdmin = 3
  SoftOfWorker = 9
  HardStop = 3
  KillAfter = 12
  Jobs = {j1}
  Old = {a2}
  NewMails = {"admin_disabled"}
  MaxAttempts = 2
  MailTimeout = 15
  RescueAfter = 18
  ReadyTTL = 3
  ReadyTimeout = 6
  Plans <- AllPlans
SYMMETRY Symmetric
INVARIANTS
  SpentWhileLive
  CachesTrue
  ReadsWhole
  StopsInOrder
  LettersKept
PROPERTIES
  AsThePolicySays
  StaysSignedIn
CHECK_DEADLOCK FALSE
