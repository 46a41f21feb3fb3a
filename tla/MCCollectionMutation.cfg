SPECIFICATION TreeSpec
CONSTANTS
  a = a
  b = b
  f = f
  g = g
  q = q
  r = r
  Collections = {a, b}
  Folders = {f, g}
  Requests = {q, r}
  Alphabet <- Locale
  Depth = 2
  MaxJobs = 2
  Layouts <- MCLayouts
INVARIANTS
  TreeIsCurrent
  MarkersMatchDisk
PROPERTY OrderSurvives
CHECK_DEADLOCK FALSE
