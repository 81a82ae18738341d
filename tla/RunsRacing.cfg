SPECIFICATION Spec
CONSTANTS
  Routines = {r1, r2}
  MaxParallel = 1
  KeepRuns = 5
  MaxRuns = 2
  Spends = {0}
  DraftPrs = FALSE
  Racing = TRUE
  LateNews = FALSE
  Upgrades = TRUE
INVARIANTS SlotsBounded QueuedHasHit RunningIsOurs ClientsTold
PROPERTY EndedStays
CHECK_DEADLOCK FALSE
