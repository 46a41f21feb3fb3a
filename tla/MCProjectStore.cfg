SPECIFICATION Spec
CONSTANTS
  s1 = s1
  s2 = s2
  Startup = Startup
  Half = Half
  Empty = Empty
  Absent = Absent
  Torn = Torn
  None = None
  Save = {s1, s2}
SYMMETRY Interchangeable
INVARIANTS
  MigrationIsWhole
  CredentialsBeforeRedaction
  UndisturbedStoreIsConsistent
PROPERTY EnvironmentsSurvive
CHECK_DEADLOCK FALSE
