SPECIFICATION Spec
CONSTANTS
  a = a
  b = b
  Stamps = {s}
  Tokens = {a, b}
  MaxLen = 3
  Hashes <- TokenSeqs
  Hash <- MCHash
  Bytes <- MCBytes
  MaxBytes = 3
  NoData = NoData
  Captured <- MCCaptured
  Requests <- MCRequests
  DiskBudgets = {3, 4}
  MaxCrashes = 1
  MaxErrors = 1
  Absent = Absent
  Torn = Torn
INVARIANTS
  RestartLosesNothing
PROPERTIES
  IsAPrefixStore
  IndexWithinBudget
  ServesLongestReadable
  BrokenAreForgotten
