SPECIFICATION Spec
CONSTANTS
  Characters = {"/", "a", "b"}
  FileSystems = {fs1, fs2, fs3}
  BlockDevices = {d1}
  MountPaths <- MCMountPaths
  Paths <- MCPaths
  NONE = NONE
INVARIANT AssertionsHold
