SPECIFICATION RamSpec
CONSTANTS
  Stamps = {s1, s2}
  Tokens = {a, b}
  MaxLen = 3
  Hashes = {a, b}
  MaxBytes = 3
  Hash <- MCHash
  Bytes <- MCBytes
  Budgets = {0, 3, 4}
  NoData = NoData
  NoKey = NoKey
INVARIANTS
  ExactWithinBudget
  IndexConsistent
  LookupIsLongestExactPrefix
PROPERTIES
  PinProtects
  EvictsOldestFirst
