SPECIFICATION Spec
CONSTANTS
  Seeds = {1, 2}
  Joiners = {3}
  Peers <- MCPeers
  ClusterOf <- OneCluster
  Keys = {k1, k2}
  NoKey = NoKey
  DummyKey = DummyKey
  Torn = Torn
  AlwaysListed = {1, 2, 3}
  Crashing = {1, 3}
  MaxRestarts = 2
  MaxCrashes = 2
  MaxFailures = 1
CHECK_DEADLOCK FALSE
INVARIANTS KeyAgreement
PROPERTIES SealedKeyStable ImplementsMasterKey ImplementsNodeLife
