SPECIFICATION LiveJoinSpec
CONSTANTS
  Seeds = {1, 2}
  Joiners = {3}
  Peers <- MCPeers
  ClusterOf <- OneCluster
  Keys = {k1, k3}
  NoKey = NoKey
  DummyKey = DummyKey
  Torn = Torn
  AlwaysListed = {1, 2, 3}
  Crashing = {3}
  MaxRestarts = 2
  MaxCrashes = 2
  MaxFailures = 0
CHECK_DEADLOCK FALSE
INVARIANTS ReadyAgreement
PROPERTIES JoinerServed
