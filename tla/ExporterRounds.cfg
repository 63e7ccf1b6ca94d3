SPECIFICATION FairSpec
CONSTANTS
  NaN = NaN
  None = None
  Signals <- MCRepeatedName
  Unqueried <- MCUnqueried
  Flaky = {"a"}
  Answers <- MCGraded
  Evaluators = {"baseline", "jev"}
  JevAnswers <- MCJevAnswers
INVARIANTS
  TypeOK
  RestsOnOneRound
  WorseIsNotBetter
  DomainIsWorst
PROPERTIES
  StaysFresh
CHECK_DEADLOCK FALSE
