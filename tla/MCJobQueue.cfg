SPECIFICATION QSpec
CONSTANTS
  Job = {j1, j2, j3}
  Worker = {w1, w2}
  Callback = {Queue}
  Queue = Queue
  NULL = NULL
  Key = {k1, k2, k3}
  PRIORITY_HIGH = 0
  max_workers = 2
  IdSpace = 6
  m_lifo = FALSE
  m_jobsAtOnce = 1
  m_priority = 0
SYMMETRY Symmetry
INVARIANTS QTypeOK JobsUnique EntryAnswered OneOwner
