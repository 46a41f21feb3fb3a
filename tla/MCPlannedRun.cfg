SPECIFICATION PlannedSpec
CONSTANTS
  AnyFolder = AnyFolder
  root = root
  sub = sub
  v = v
  w = w
  noName = noName
  Names <- MCNames
  Folders <- MCFolders
  Variables <- MCVariables
  RunVariables <- MCVariables
  Size = 3
  Total = 3
  Plans <- MCPlans
  MaxRetries = 1
  RunPlans = {}
  Destructive = {2}
INVARIANTS
  OrderRespectsDependencies
  CyclesBlockExactly
  CommittedAtMostOnce
  ReportedResponseIsCommitted
  StatusExplainsResults
  SkippedConsumersStayWithout
PROPERTIES
  NothingStartsAfterCancel
  RunEnds
CHECK_DEADLOCK FALSE
