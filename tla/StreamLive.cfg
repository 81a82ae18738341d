SPECIFICATION FairSpec
CONSTANTS
  Viewers = {v1}
  HighWater = 2
  LowWater = 1
  MaxFrame = 1
  ResetLen = 1
  MaxSeq = 4
  MaxRestarts = 1
  MaxOutbox = 1
  SlowResync = FALSE
INVARIANTS UnackedBounded NeverStranded
PROPERTY StreamFlows
CHECK_DEADLOCK FALSE
