SPECIFICATION Spec
CONSTANTS
  PAGE_SIZE = 4
  Memmaps <- MCMemmaps
  MaxCount = 3
INVARIANTS
  CountersExact
  PagesConserved
  OutOfMemoryIsReal
  RunScanFindsFirstRun
PROPERTIES
  ImplementsPool
