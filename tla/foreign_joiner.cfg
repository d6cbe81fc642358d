SPECIFICATION Spec
CONSTANTS
  Seeds = {1, 2}
  Joiners = {3}
  Peers <- MCPeers
  ClusterOf <- ForeignJoiner
  Keys = {k1, k2}
  NoKey = NoKey
  DummyKey = DummyKey
  Torn = Torn
  AlwaysListed = {}
  Crashing = {1, 2}
  MaxRestarts = 2
  MaxCrashes = 1
  MaxFailures = 0
CHECK_DEADLOCK FALSE
INVARIANTS AgreementInv ClusterIsolation
