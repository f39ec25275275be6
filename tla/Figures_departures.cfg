SPECIFICATION Spec
CONSTANTS
  c1 = c1
  c2 = c2
  k1 = k1
  k2 = k2
  r1 = r1
  r2 = r2
  Campaigns = {c1, c2}
  Requests = {r1, r2}
  Audience <- Lists
  ErrorFor <- Codes
  Observed = {"pending", "read", "failed"}
  MaxChanges = 1
  FirstDay = 6
  MaxDay = 7
  MaxPeriodDays = 4
  DefaultPeriodDays = 3
  MaxColumns = 2
  ReasonLimit = 2
  FileLimit = 3
  DashboardDays = 2
  RecentLimit = 1
  FirstDate = 1
  LastDate = 9
  Asked <- Queries
  Numbers = {"n1", "n2"}
  Spellings = {"a", "a2", "b", "x"}
  E164 <- Parsed
  Headers <- Columns
  RowKinds <- Kinds
  MaxFileRows = 2
  MaxRows = 2
  MaxBesides = 1
\* Each of these is refuted; check them one at a time (see the README).
INVARIANTS
  TilesAgree
  PeriodIsBounded
  DownloadCoversPage
  EveryUrlIsAnswered
  ConsentHasItsColumn
  ImportSettles
PROPERTIES
  MeasuredIsWired
  PastIsSettled
CHECK_DEADLOCK FALSE
