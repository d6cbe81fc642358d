SPECIFICATION LiveSpec
CONSTANTS
  Seeds = {1, 2, 3}
  Joiners = {}
  Peers <- MCPeers
  ClusterOf <- OneCluster
  Keys = {k1}
  NoKey = NoKey
  DummyKey = DummyKey
  Torn = Torn
  AlwaysListed = {1, 2}
  Crashing = {}
  MaxRestarts = 0
  MaxCrashes = 0
  MaxFailures = 0
CHECK_DEADLOCK FALSE
INVARIANTS TypeOK CleanupAfterCompletion
PROPERTIES NoPanic SeedingCompletes
