SPECIFICATION Spec
CONSTANTS
  x = x
  y = y
  z = z
  missing = missing
  uuid = uuid
  Names <- N
  BuiltIns = {uuid}
  Contexts <- TheContexts
  Uses <- TheUses
INVARIANTS
  ResolvesExactly
  MaskedExactly
  ErrorsTellWhy
CHECK_DEADLOCK FALSE
