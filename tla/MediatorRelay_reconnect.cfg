SPECIFICATION Spec
CONSTANTS
  Messages <- TwoMessages
  Sockets <- TwoSockets
  WsLoop = ws
  Pollers = {}
  Cap = 2
  ReplayBatch = 1
  PollLimit = 2
  ChannelCap = 1
  MaxLosses = 1
  MaxCrashes = 1
  None = None
CHECK_DEADLOCK FALSE
INVARIANTS
  NothingLost
  NoMissedPush
