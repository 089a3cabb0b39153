SPECIFICATION AnySpec
CONSTANTS
  totalClusters = 4
  ClusterSize = 2
  FilePaths <- PathsBelowFile
  DirPaths <- SmallDirs
  Handles = {1}
  MaxLength = 3
  Marks = {0, 2, 3}
  Ops <- AllOps
  Modes = {"Create", "Truncate", "Append"}
  MaxFaults = 0
INVARIANTS DataIsKept
CHECK_DEADLOCK TRUE
