SPECIFICATION Spec
CONSTANTS
  p1 = p1
  p2 = p2
  user = user
  User = user
  Procs = {p1}
  Paths <- MCPaths
  Archives <- MCArchives
  Meddling = {}
CHECK_DEADLOCK FALSE
INVARIANTS
  ConflictLeavesUntouched
