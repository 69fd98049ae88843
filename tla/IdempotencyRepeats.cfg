SPECIFICATION Spec
CONSTANTS
  Requests = {q1, q2, q3}
  Keys = {k1}
  Hashes = {h1, h2}
  NoStore = {h2}
  Cleaner = Cleaner
  NoKey = NoKey
  Unsaved = Unsaved
  NoOne = NoOne
  TTL = 2
  Patience = 1
  MaxTries = 2
  MaxTime = 3
SYMMETRY Symmetric
INVARIANTS
  AnswerOfExecution
  ToldTrue
PROPERTIES
  OncePerLifetime
  LiveKeyStays
CHECK_DEADLOCK FALSE
