SPECIFICATION Spec
CONSTANTS
  Threads = {t1, t2, t3}
  None = None
INVARIANTS
  OneProcess
  StopWaits
  NoUseAfterFree
PROPERTY OwnerReturns
