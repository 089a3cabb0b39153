SPECIFICATION MCSpec
CONSTANTS
  Timers = {pit}
  Inputs = {ps2}
  IDEs = {ide}
  Others = {}
  Drives <- MCDrives
  MaxDevices = 4
  MaxDrivers = 3
  MaxStarts = 2
  NULL = NULL
  Positions = {0, 1}
  Sectors = 2
  Values = {a, b}
  Blank = a
  Identity = id
  Garbage = garbage
  None = None
  MaxPolls = 2
  Calls <- MCCalls
  LastSlot = 2
  LastFunction = 1
  PciRoom = 3
  Topologies <- MCTopologies
  Statuses <- MCStatuses
INVARIANTS
  HandlersFollowBindings
  NoneMissed
  AnswersBelong
  EachFunctionOnce
  ConfigPreserved
PROPERTIES
  CallsEnd
CHECK_DEADLOCK FALSE
