SPECIFICATION LockLiveSpec
CONSTANTS
  t1 = t1
  t2 = t2
  t3 = t3
  Threads = {t1, t2, t3}
  NodeOf <- MCNodeOf
  None = None
  MaxCrashes = 2
  MaxFailures = 2
CHECK_DEADLOCK FALSE
INVARIANTS  MutualExclusion
PROPERTIES  LockReturnsUnlessStranded
