SPECIFICATION Spec
CONSTANTS
  a = a
  b = b
  Stamps = {s}
  Stamp = s
  Tokens = {a, b}
  MaxLen = 5
  Hashes = {a, b}
  Hash <- MCHash
  Bytes <- MCBytes
  MaxBytes = 5
  NoData = NoData
  NoKey = NoKey
  Budgets = {5}
  Sink = 1
  Window = 2
  Garbage = Garbage
  Invalid = Invalid
  Prompts <- MCPrompts
  Boundaries = {0, 2}
  Interval = 3
  MaxNew = 2
  HasDisk = TRUE
  MaxTurns = 3
  MaxFailures = 1
CHECK_DEADLOCK FALSE
INVARIANTS
  TurnTypeOK
  CacheIsExact
  PointsAreExact
  CapturesAreExact
  BoundaryStaysMatchable
