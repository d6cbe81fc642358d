SPECIFICATION Spec
CONSTANTS
  Sessions = {s1, s2, s3}
  Handlers = {h1, h2}
  Machines <- TwoFirmwares
  Logs <- AnyLog
  Ids <- DashedIds
  Words <- AllWords
  DevMode = FALSE
  EnforceSealQuoteVerify = TRUE
  EnforceKeyRequestQuoteVerify = TRUE
  SecureBootOn = "on"
  Base = 4
  KeyLength = 2
  Curves <- TwoCurves
  RsaKeys = {k1, k2, k3}
  None = None
  MaxFaults = 1
SYMMETRY Symmetry
CHECK_DEADLOCK FALSE
INVARIANTS ServerInv KnownSessionsExpire NoReissue RsaLossBounded 
