SPECIFICATION JointSpec
CONSTANTS
  a = a
  d1 = d1
  w1 = w1
  c1 = c1
  t1 = t1
  t2 = t2
  t3 = t3
  NoScore = NoScore
  NoJob = NoJob
  None = None
  Metrics = {a}
  Protected = {}
  Unidentified = {}
  Batches <- MCBatches
  JevKeeps <- MCKeeps
  Deliverers = {d1}
  Workers = {w1}
  Others = {c1}
  Tokens = {t1, t2, t3}
  SettingsOf <- MCSettings
  QueueSize = 1
  CacheSize = 1
  ScoreTTL = 1
  Mode = "reduce"
  Coordinated = TRUE
  Scale = 10
  KeepThreshold = 7
  DropThreshold = 3
  FailureCap = 1
  FailureMemory = 0
  Timeout = 0
  MaxFaults = 1
  MaxNow = 2
  MayStop = FALSE
SYMMETRY MCTokens
INVARIANTS
  CacheIsShared
  DropsRestOnRecentAnswers
PROPERTIES
  ImplementsProcessor
