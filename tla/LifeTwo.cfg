SPECIFICATION Spec
CONSTANTS
  Sessions = {s1, r1}
  Routines = {r1}
  Snapped = {}
  Clients = {c1}
  MaxProcs = 2
  Pids = {p1, p2}
  FastExit = FALSE
  RacingRestart = FALSE
  LateWrites = FALSE
SYMMETRY PidsAlike
INVARIANTS TypeOK ListAgrees OneProcess CrashReported
CHECK_DEADLOCK FALSE
