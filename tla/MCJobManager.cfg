SPECIFICATION FairSpec
CONSTANTS
  Job = {j1, j2}
  Worker = {w1, w2}
  Callback = {c1}
  NULL = NULL
  PRIORITY_HIGH = 2
  max_workers = 3
  IdSpace = 3
INVARIANTS HeldIdsValid JobHeldOnce PriorityReserve NoStrandedJob DrainedQuiet
PROPERTIES ImplementsService JobServed CancelJobsReturns JobCompleted
