SPECIFICATION TouchSpec
CONSTANTS
  Threads = {t1, t2}
  None = None
  MaxFingers = 2
INVARIANT StateMeansFingers
CHECK_DEADLOCK FALSE
