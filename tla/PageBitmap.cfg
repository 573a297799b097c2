SPECIFICATION Spec
CONSTANTS
  PageSize = 2
  WordBits = 4
  BitmapLimit = 3
  BootMaps <- MCMaps
  BootReserved = {1, 5}
  RunLengths = {0, 2, 3}
  Addresses = {0, 3, 4, 8, 12, 18}
  Lengths = {0, 1, 4}
INVARIANTS RefusalJustified PagesAreUsableRam
PROPERTIES ImplementsPageFrames
CHECK_DEADLOCK FALSE
