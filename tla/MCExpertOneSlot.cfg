SPECIFICATION Spec
CONSTANTS
  Experts = {w, x, y, z}
  Capacity = 1
  TopK = 3
  MaxFailures = 0
  Garbage = Garbage
INVARIANT EveryReadIsRight
