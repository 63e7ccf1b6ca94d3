SPECIFICATION Spec
CONSTANTS
  k1 = k1
  k2 = k2
  c1 = c1
  c2 = c2
  t1 = t1
  t2 = t2
  t3 = t3
  t4 = t4
  v1 = v1
  v2 = v2
  None = None
  Keys = {k1, k2}
  Clients = {c1, c2}
  Tokens = {t1, t2, t3}
  Values = {v1}
  SettingsOf <- MCMixedSettings
  Timeout = 0
  ScoreTTL = 1
  FailureCap = 1
  FailureMemory = 0
  MaxFaults = 1
  MaxNow = 5
SYMMETRY MCTokensAndKeys
INVARIANTS
  LeasesWithinBudget
CHECK_DEADLOCK FALSE
