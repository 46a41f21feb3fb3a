SPECIFICATION Spec
CONSTANTS
  a = a
  b = b
  c1 = c1
  c2 = c2
  None = None
  Absent = Absent
  s = s
  t = t
  Stored = {s}
  Tokens <- MCTokens
  Keys <- MCKeys
  Profiles <- MCProfiles
  Callers <- MCCallers
  Lists <- MCLists
  MaxOperations = 3
  MaxMishaps = 1
SYMMETRY Symmetry
INVARIANTS
  ReturnedCallsHold
  CredentialsSurvive
CHECK_DEADLOCK FALSE
