SPECIFICATION TouchSpec
CONSTANTS
  Threads = {t1, t2}
  None = None
  MaxFingers = 2
PROPERTY HandleReturns
CHECK_DEADLOCK FALSE
