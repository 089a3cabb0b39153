SPECIFICATION IrqFairSpec
CONSTANTS
  IRQs <- MCIRQs
  MaxWait = 2
  NONE = NONE
INVARIANTS
  IrqTypeOK
  KeyboardNeverJams
PROPERTIES
  WaitEnds
