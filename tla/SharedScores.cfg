SPECIFICATION Spec
CONSTANTS
  k1 = k1
  k2 = k2
  c1 = c1
  c2 = c2
  t1 = t1
  t2 = t2
  t3 = t3
  t4 = t4
  v1 = v1
  v2 = v2
  None = None
  Keys = {k1}
  Clients = {c1, c2}
  Tokens = {t1, t2, t3}
  Values = {v1, v2}
  SettingsOf <- MCEqualSettings
  Timeout = 1
  ScoreTTL = 2
  FailureCap = 2
  FailureMemory = 3
  MaxFaults = 2
  MaxNow = 4
SYMMETRY MCInterchangeable
INVARIANTS
  TypeOK
  FreshCopiesAreShared
  LeasesWithinBudget
  ReplicasAgree
PROPERTIES
  ImplementsContract
  LearnsOnlyFresh
CHECK_DEADLOCK FALSE
