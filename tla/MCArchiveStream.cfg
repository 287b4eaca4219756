SPECIFICATION FairSpec
CONSTANTS
  Trees <- MCTrees
  OutPaths <- MCOutPaths
  Targets <- MCTargets
  BadNames = {}
  Block = 2
  MaxAhead = 5
  MaxCells = 10
  MaxChanges = 2
CHECK_DEADLOCK FALSE
INVARIANTS
  TypeOK
  ComesBack
  OkMeansPacked
  PackedExtracts
  NeverReplaced
PROPERTIES
  PackEnds
