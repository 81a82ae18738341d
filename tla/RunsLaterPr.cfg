SPECIFICATION Spec
CONSTANTS
  Routines = {r1}
  MaxParallel = 1
  KeepRuns = 5
  MaxRuns = 2
  Spends = {0}
  DraftPrs = TRUE
  Racing = FALSE
  LateNews = FALSE
  Upgrades = FALSE
PROPERTY LaterRunsAdd
CHECK_DEADLOCK FALSE
