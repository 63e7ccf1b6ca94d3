SPECIFICATION Spec
CONSTANTS
  NaN = NaN
  None = None
  Signals <- MCTwoSignals
  Unqueried <- MCUnqueried
  Flaky = {"a"}
  Answers <- MCWithNaN
  Evaluators = {"fallback"}
  JevAnswers <- MCJevAnswers
INVARIANTS
  PublishedProbabilities
CHECK_DEADLOCK FALSE
