SPECIFICATION FairSpec
CONSTANTS
  p1 = p1
  p2 = p2
  user = user
  User = user
  Procs = {p1}
  Paths <- MCPaths
  Archives <- MCArchives
  Meddling = {"idle", "unpack", "cleanup", "ended", "crashed"}
CHECK_DEADLOCK FALSE
INVARIANTS
  TypeOK
  RefusalLeavesUntouched
  OutcomeTells
  DamagedLeavesNothing
PROPERTIES
  NoForcedOverwrite
  ExtractionEnds
