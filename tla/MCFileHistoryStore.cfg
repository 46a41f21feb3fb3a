SPECIFICATION FairSpec
CONSTANTS
  w1 = w1
  e1 = e1
  e2 = e2
  e3 = e3
  Missing = Missing
  Corrupt = Corrupt
  Unloaded = Unloaded
  Window = {w1}
  TheWindow = w1
  Entry = {e1, e2, e3}
  Caps = {1, 2}
  MaxQueue = 2
INVARIANTS
  CacheMirrorsFile
PROPERTIES
  ImplementsHistoryLog
  AppendsSettle
CHECK_DEADLOCK FALSE
