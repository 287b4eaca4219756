SPECIFICATION Spec
CONSTANTS
  p1 = p1
  p2 = p2
  user = user
  User = user
  Procs = {p1}
  Paths <- FewPaths
  Archives <- FewArchives
  Meddling = {"check", "mkdirs"}
CHECK_DEADLOCK FALSE
PROPERTIES
  NoForcedOverwrite
