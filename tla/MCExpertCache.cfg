SPECIFICATION Spec
CONSTANTS
  Experts = {w, x, y, z}
  Capacity = 2
  TopK = 3
  MaxFailures = 1
  Garbage = Garbage
INVARIANTS
  SlotsDistinct
  SlotHeldUntilIssued
  ServesRightExpert
