SPECIFICATION FairSpec
CONSTANTS
  old = old
  twin = twin
  new = new
  roster = roster
  stats = stats
  joined = joined
  left = left
  e1 = e1
  e2 = e2
  team = team
  NoWorker = NoWorker
  Workers = {old, twin, new}
  Subscribers = {roster, stats}
  Types = {joined, left}
  Events = {e1, e2}
  Aggregates = {team}
  Knows <- TwoReleases
  Latest = {roster}
  TypeOf <- Kinds
  AggregateOf <- OneTeam
  VersionOf <- InOrder
  Batch = 1
  CleanupBatch = 1
  Retention = 1
  MaxAttempts = 2
  Plans <- SixPlans
INVARIANTS
  NothingLost
  NoMissedWake
PROPERTIES
  KeepsContract
  Delivered
CHECK_DEADLOCK FALSE
