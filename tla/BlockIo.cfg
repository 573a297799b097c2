SPECIFICATION FairSpec
CONSTANTS
  r1 = r1
  r2 = r2
  r3 = r3
  Req <- MCReq
  Slots = 2
  Ring = 2
  IdxMod = 4
  None = None
INVARIANTS SuccessIsOwnData NoDanglingRequest
PROPERTIES SlotBackBeforeReuse WaitEnds
