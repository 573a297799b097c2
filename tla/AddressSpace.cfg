SPECIFICATION ASSpec
CONSTANTS
  PageSize = 2
  MaxPages = 16
  BootMaps <- MCMap
  BootReserved = {0, 1}
  RunLengths = {}
  Addresses = {}
  Lengths = {}
  CPU = {c0, c1}
  Boot = c0
  Proc = {p1, p2}
  KernelRoot = 1
  AddressMod = 64
  UserSpaceBase = 16
  UserStackTop = 24
  UserStackPages = 1
  Files <- MCFiles
  MaxPath = 3
  Pointers = {16, 19, 23}
  CopyLengths = {1, 3}
  MaxLost = 1
  MaxDirect = 1
  DataWords <- MCWords
  Idle = Idle
SYMMETRY Symmetry
INVARIANTS SpacesApart FramesAccounted LayoutSound RunsOnOwnSpace
 
CHECK_DEADLOCK FALSE
