SPECIFICATION HeapSpec
CONSTANTS
  PageSize = 6
  MaxPages = 5
  BootMaps <- MCMap
  BootReserved = {0}
  RunLengths = {1}
  Addresses = {6, 12, 18}
  Lengths = {3}
  CPU = {c0, c1}
  Boot = c0
  k2 = k2
  k4 = k4
  n1 = n1
  Builtin <- MCBuiltin
  Named = {n1}
  SizeClass <- MCSizeClass
  NamedSizes = {1}
  Align = 2
  SlabHeader = 2
  LargeHeader = 1
  SizeMod = 64
  Sizes = {0, 1, 4, 6, 63}
  StatBound = 3
  None = None
INVARIANTS ObjectsApart PagesAccounted SpareSlabsBounded
CHECK_DEADLOCK FALSE
