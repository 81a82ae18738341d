SPECIFICATION FairSpec
CONSTANTS
  Routines = {r1}
  MaxParallel = 1
  KeepRuns = 5
  MaxRuns = 2
  Spends = {0}
  DraftPrs = FALSE
  Racing = FALSE
  LateNews = FALSE
  Upgrades = FALSE
INVARIANT AgentsWatched
PROPERTY RunsMove
CHECK_DEADLOCK FALSE
