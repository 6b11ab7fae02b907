SPECIFICATION FairSpec
CONSTANTS
  Messages <- TwoMessages
  Sockets <- OneSocket
  WsLoop = ws
  Pollers = {poll}
  Cap = 1
  ReplayBatch = 1
  PollLimit = 2
  ChannelCap = 4
  MaxLosses = 1
  MaxCrashes = 1
  None = None
CHECK_DEADLOCK FALSE
INVARIANTS
  HandledOnce
PROPERTIES
  EventuallyHandled
