SPECIFICATION Spec
CONSTANT MaxRuns = 2
PROPERTY StaleRunsCannotUpdateStatus
CHECK_DEADLOCK FALSE
