SPECIFICATION FairSpec
CONSTANTS
  Sessions = {s1}
  Routines = {}
  Snapped = {s1}
  Clients = {c1}
  MaxProcs = 2
  Pids = {p1}
  FastExit = FALSE
  RacingRestart = FALSE
  LateWrites = TRUE
 
PROPERTIES OthersUntouched EventuallySaved KillEnds ExitReported
CHECK_DEADLOCK FALSE
