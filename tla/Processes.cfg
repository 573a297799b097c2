SPECIFICATION FairSpec
CONSTANTS
  c1 = c1
  c2 = c2
  p1 = p1
  p2 = p2
  p3 = p3
  CPU <- OneCPU
  Boot = c1
  Proc <- ThreeProcs
  InitProc = p1
  Idle = Idle
  None = None
  MaxPid = 3
  Status = {0, 1}
INVARIANTS StatusDelivered NoMissedExit
PROPERTIES ZombieKept WaiterWoken
