SPECIFICATION LiveSpec
CONSTANTS
  Conns = {c1, c2}
  Requests <- AnyRequest
  EnclaveConfig <- Config
  MaxErrors = 1
  NoConn = NoConn
CHECK_DEADLOCK FALSE
INVARIANTS TransportInv RoutedVerified NoneLeaked QuietAfterShutdown
PROPERTIES ShutdownReturns PacketsArrive
