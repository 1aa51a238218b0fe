SPECIFICATION QCancelFairSpec
CONSTANTS
  Job = {j1, j2}
  Worker = {w1, w2}
  Callback = {Queue}
  Queue = Queue
  NULL = NULL
  Key = {k1, k2}
  PRIORITY_HIGH = 0
  max_workers = 2
  IdSpace = 4
  m_lifo = FALSE
  m_jobsAtOnce = 1
  m_priority = 0
PROPERTY QueueServed
