SPECIFICATION FairSpec
CONSTANTS
  BufferSize = 3
  Keys <- MCKeys
  activeLayout <- MCLayout
  esShift <- MCShift
  MaxPresses = 4
  MaxWire = 2
INVARIANTS
  TypeOK
  LineIsWhatWasTyped
PROPERTIES
  ImplementsQueue
  NewlineEndsLine
