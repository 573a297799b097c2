SPECIFICATION Spec
CONSTANTS
  t1 = t1
  t2 = t2
  k1 = k1
  Usage <- OneKey
  None = None
  CPU <- TwoCPUs
  Boot = 1
  Thread <- TwoThreads
  Terminal <- TwoTerminals
  Columns = 2
  Rows = 2
  RingCapacity = 2
  MaxEvents = 3
  LineCapacity = 2
  MaxLineBytes = 2
  MaxKeys = 3
  MaxCalls = 2
  MaxBytes = 1
INVARIANTS LinesInOrder EventsConsecutive ScreenShowsActive
PROPERTIES ReaderServed
