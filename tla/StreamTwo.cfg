SPECIFICATION Spec
CONSTANTS
  Viewers = {v1, v2}
  HighWater = 1
  LowWater = 0
  MaxFrame = 2
  ResetLen = 1
  MaxSeq = 3
  MaxRestarts = 0
  MaxOutbox = 1
  SlowResync = FALSE
SYMMETRY ViewerSymmetry
INVARIANTS TypeOK WaitsOnlyForStuck NoByteTwice FaithfulView
CHECK_DEADLOCK FALSE
