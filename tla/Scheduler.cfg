SPECIFICATION FairSpec
CONSTANTS
  CPU = {c0, c1}
  Boot = c0
  Ticking = {c0, c1}
  Thread = {t1, t2}
  Idle = Idle
  None = None
INVARIANTS NoThreadLost NoIdleOverWork RunsOnOneCpu
PROPERTIES ReadyRuns
