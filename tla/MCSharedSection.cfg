SPECIFICATION FairSpec
CONSTANTS
  Thread = {t1, t2, t3}
  SharedLock = {l1, l2, l3}
  MaxDepth = 2
  NULL = NULL
INVARIANTS MutualExclusion CountExact NoLostWakeup
PROPERTY WriterServed
