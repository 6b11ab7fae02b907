SPECIFICATION Spec
CONSTANTS
  Messages <- OneMessage
  Sockets <- TwoSockets
  WsLoop = ws
  Pollers = {}
  Cap = 1
  ReplayBatch = 2
  PollLimit = 1
  ChannelCap = 1
  MaxLosses = 1
  MaxCrashes = 0
  None = None
CHECK_DEADLOCK FALSE
INVARIANTS
  ReplayRedelivers
