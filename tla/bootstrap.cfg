SPECIFICATION BootLiveSpec
CONSTANTS
  MaxSignals = 3
  MaxMessages = 2
CHECK_DEADLOCK FALSE
INVARIANTS ServesOnlyReady
PROPERTIES ReadyServes ShutdownEnds
