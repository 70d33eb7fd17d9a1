\* Two requests, so that one can wait or come while the other runs, and two
\* faults, so that both can go wrong or the worker die after a failure.
CONSTANTS
  MaxRequests = 2
  Shapes <- MCShapes
  Ctx = 3
  MaxFaults = 2
SPECIFICATION Spec
INVARIANTS
  ContextHolds
  StreamShape
  ToldInOrder
PROPERTIES
  WorkerIsAQueue
  EveryRequestAnswered
\* When every request was answered nothing is left to do.
CHECK_DEADLOCK FALSE
