SPECIFICATION MCSpec
CONSTANTS
  Names = {x, y}
  Letters = {a, sp}
  Space = sp
  NUL = NUL
  Unset = Unset
  Nothing = Nothing
  MaxText = 2
  MaxString = 3
  MaxCapacity = 3
  Vectors = {x, y}
  Elements = {a, b}
  Default = a
  Null = Null
  FirstCap = 1
  MaxItems = 3
  Width = 7
  Height = 5
  FontWidth = 3
  FontHeight = 2
  Background = bg
  Glyphs = {"i", "m"}
  Ink <- MCInk
  SpaceChar = sp
  Unknown = "m"
  SpaceWidth = 2
  TabSize = 3
  CursorColor = cur
  NoLine = NoLine
  MaxLine = 3
  BaseSize = 2
  ExtSize = 1
  Capital <- MCCapital
  DirSlots = 3
  DirClusters = 3
  ShortNames = {"a", "b", "c"}
  LongNames = {"long1", "long2"}
  LongParts <- MCLongParts
  Directories <- MCDirectories
  Bits = 12
  NumberRoom = 5
  HexRoom = 6
  Characters = {"/", "a", "b"}
  FileSystems = {fs1, fs2, fs3}
  BlockDevices = {d1}
  MountPaths <- MCMountPaths
  Paths <- MCPaths
  NONE = NONE
INVARIANTS
  StringsHoldTexts
  CollectionsHoldItems
  ScreenShowsText
  ListingNamesFiles
  ComputedIsMeant
  OneMountEach
  DispatchIsDeepest
PROPERTIES
  MountsAreLocal
SYMMETRY Alike
CHECK_DEADLOCK FALSE
