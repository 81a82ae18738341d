SPECIFICATION Spec
CONSTANTS
  Parts = {"chat", "racing", "triggers", "set_back", "worktrees", "status", "osc",
           "rollouts", "link", "relay", "voice", "dictation", "files", "stores",
           "checkout", "browser", "mcp", "ports_taken", "usage", "turns", "awake",
           "crashing", "lsp", "graph", "ports"}
INVARIANTS
  ChatHolds
  FiringsExact
  SessionsTrue
  LinkHolds
  FilesKept
  ReportsTrue
  ServicesHold
PROPERTIES
  WritesKeep
CHECK_DEADLOCK FALSE
