SPECIFICATION ApiSpec
CONSTANTS
  Sessions = {s1, s2}
  Handlers = {h1, h2}
  Machines <- OneMachine
  Logs <- OneLog
  Ids <- DashedIds
  Words <- AllWords
  DevMode = FALSE
  EnforceSealQuoteVerify = TRUE
  EnforceKeyRequestQuoteVerify = TRUE
  SecureBootOn = "on"
  Base = 4
  KeyLength = 2
  Curves <- TwoCurves
  RsaKeys = {k1}
  None = None
  MaxFaults = 0
  Milliseconds = {1, 2}
  MaxOutcomes = 2
  MaxAborts = 1
SYMMETRY Symmetry
CHECK_DEADLOCK FALSE
INVARIANTS ApiInv MarkerHasRecord JournaledKeysIssued 
