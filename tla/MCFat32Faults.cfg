SPECIFICATION FaultSpec
CONSTANTS
  totalClusters = 3
  ClusterSize = 2
  FilePaths <- PathsBelowFile
  DirPaths <- SmallDirs
  Handles = {1}
  MaxLength = 3
  Marks = {0, 3}
  Ops <- WriteOps
  Modes = {"Create", "Truncate"}
  MaxFaults = 2
INVARIANTS NoLoops FaultsContained
PROPERTIES CallsReturn
CHECK_DEADLOCK TRUE
