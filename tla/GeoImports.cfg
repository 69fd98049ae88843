SPECIFICATION ReadsSpec
CONSTANTS
  a = a
  b = b
  c1 = 11
  c2 = 12
  c3 = 13
  p1 = 1
  p2 = 2
  p3 = 3
  r1 = r1
  r2 = r2
  ru = ru
  en = en
  Feeds <- AllFeeds
  Given <- Dumps
  NoFeed = "no feed"
  Locales = {ru, en}
  NoLocale = NoLocale
  CountryLocale = ru
  English = en
  MinPopulation = 2
  Worker = worker
  Operator = operator
  Jobs = {j1}
  NoJob = NoJob
  MaxRows = 4
  Places = {1, 2, 3}
  NoPlace = NoPlace
  Codes = {a, b}
  NoCode = NoCode
  Cities = {11, 12, 13}
  Regions = {r1, r2}
  NoRegion = NoRegion
  RegionOf <- Homes
  OursOf = {11, 12}
  CalledLike <- Namesakes
  NamedLike <- OneName
  FirstCode <- NoCodesYet
  HandNames <- GivenNames
  Ours = "ours"
  Countries = {"ours", "other"}
  CountryOf <- TwoCountries
  DefaultLocale <- Languages
  DistanceOf <- Around
  MinCover = 1
  PerRoot = 1
  HereSearchRadius = 3
  Slugs = {"s1", "s2", "s3", "s4"}
  FirstSlug <- TwoSlugs
  NoCity = NoCity
  ImportTimeout = 1
  StaleAfter = 2
  MaxAttempts = 3
  Plans <- AllPlans
INVARIANTS
  TypeOK
  AnswersTold
  ClosedOnce
  WholeSources
  LinksTold
PROPERTIES
  OnlySuccessWrites
  Settles
CHECK_DEADLOCK FALSE
