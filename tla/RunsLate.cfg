SPECIFICATION Spec
CONSTANTS
  Routines = {r1}
  MaxParallel = 1
  KeepRuns = 5
  MaxRuns = 1
  Spends = {0, 1, 2}
  DraftPrs = TRUE
  Racing = FALSE
  LateNews = TRUE
  Upgrades = FALSE
INVARIANTS TypeOK AgentsWatched
CHECK_DEADLOCK FALSE
