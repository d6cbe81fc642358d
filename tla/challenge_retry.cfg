SPECIFICATION LiveSpec
CONSTANTS
  Seeds = {1, 2}
  Joiners = {3}
  Peers <- MCPeers
  ClusterOf <- OneCluster
  Keys = {k1}
  NoKey = NoKey
  DummyKey = DummyKey
  Torn = Torn
  AlwaysListed = {1, 2, 3}
  Crashing = {3}
  MaxRestarts = 1
  MaxCrashes = 1
  MaxFailures = 1
CHECK_DEADLOCK FALSE
PROPERTIES ChallengeAnswered
