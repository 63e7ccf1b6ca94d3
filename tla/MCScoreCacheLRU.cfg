SPECIFICATION Spec
CONSTANTS
  k1 = k1
  k2 = k2
  k3 = k3
  Keys <- MCKeys
  NoScore = NoScore
  CacheSize = 2
  ScoreTTL = 2
  MaxNow = 4
INVARIANTS
  TypeOK
  MapMatchesList
  ListIsRecencyOrder
PROPERTIES
  OnlyExpiredOrLeastRecentLeaves
