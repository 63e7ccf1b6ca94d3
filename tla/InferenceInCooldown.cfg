SPECIFICATION Spec
CONSTANTS
  a = a
  b = b
  p = p
  u = u
  d1 = d1
  d2 = d2
  w1 = w1
  w2 = w2
  NoScore = NoScore
  NoJob = NoJob
  Metrics <- MCMetrics
  Protected = {p}
  Unidentified = {u}
  Batches <- MCTwice
  JevKeeps <- MCKeeps
  Deliverers = {d1}
  Workers = {w1, w2}
  QueueSize = 1
  CacheSize = 2
  ScoreTTL = 2
  Mode = "annotate"
  Coordinated = TRUE
  Scale = 10
  KeepThreshold = 7
  DropThreshold = 3
  FailureCap = 2
  MaxNow = 3
PROPERTIES
  NoInferenceDuringCooldown
