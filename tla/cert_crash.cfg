SPECIFICATION LockLiveSpec
CONSTANTS
  t1 = t1
  t2 = t2
  t3 = t3
  Threads = {t1, t2, t3}
  NodeOf <- MCNodeOf
  None = None
  MaxCrashes = 1
  MaxFailures = 0
CHECK_DEADLOCK FALSE
PROPERTIES LockReturns
