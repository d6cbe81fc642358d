SPECIFICATION BeatLiveSpec
CONSTANTS
  Beats <- FivePushPulls
  Sender <- Senders
  Self = "self"
  Key <- Keys
  NoKey = NoKey
  Window = 1
  MaxTime = 3
  NoRun = NoRun
INVARIANTS HeartbeatInv CountedOnce ErrorsMeanOtherKey  WindowSpan
PROPERTIES Accounted
