SPECIFICATION FairSpec
CONSTANT MaxRuns = 2
INVARIANTS
  StaleRunsAreAborted
  HistoryInRunOrder
  OutcomeIsExplained
PROPERTIES
  LateAnswerIsInert
  RunsSettle
  StatusSettles
CHECK_DEADLOCK FALSE
