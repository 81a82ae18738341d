SPECIFICATION Spec
CONSTANTS
  Viewers = {v1}
  HighWater = 1
  LowWater = 0
  MaxFrame = 1
  ResetLen = 1
  MaxSeq = 4
  MaxRestarts = 0
  MaxOutbox = 1
  SlowResync = FALSE
INVARIANT ViewIsOutput
CHECK_DEADLOCK FALSE
