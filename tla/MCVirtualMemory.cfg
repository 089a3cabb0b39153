SPECIFICATION Spec
CONSTANTS
  PAGE_SIZE = 2
  PAGE_ENTRIES = 2
  Frames <- MCFrames
  Root = 2
  HeapPages <- MCHeapPages
  MmioStart = 16
  HeapStart = 24
  Devices <- MCDevices
INVARIANTS
  TableTree
  FramesAccounted
  WindowsReachDevices
PROPERTIES
  ImplementsSpace
