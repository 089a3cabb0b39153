SPECIFICATION Spec
CONSTANTS
  HDR = 6
  ALIGN = 2
  PAGE = 16
  InitialSize = 16
  MaxSize = 64
  Word = 65536
  Requests <- MCRequests
  MaxFrames = 5
  TableSpan = 2
INVARIANTS
  ListIsTiling
  LiveExact
  CountersAccount
  WalkFindsFirstFit
PROPERTIES
  PartialFailureIsFinal
