SPECIFICATION Spec
CONSTANTS
  r1 = r1
  r2 = r2
  s1 = s1
  s2 = s2
  Manual = Manual
  None = None
  RecentLimit = 1
  CollectionRun = {r1, r2}
  ScenarioRun = {s1, s2}
SYMMETRY Interchangeable
INVARIANTS
  RunsAreKeptApart
  UndisturbedRunsKeepValues
  ContextIsNotLeaked
CHECK_DEADLOCK FALSE
