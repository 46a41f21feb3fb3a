SPECIFICATION FairSpec
CONSTANTS
  Size = 4
  Scenarios <- SmallScenarios
INVARIANTS
  RanExactlyTheReached
  StatusExplainsSteps
PROPERTIES
  NothingSentAfterAbort
  RunSettles
CHECK_DEADLOCK FALSE
