\* Both ends send and receive, bob with two inbound tasks at once; u64::MAX is
\* 2, so the batch of 2 is exhausted and the counter saturates.
CONSTANTS
  alice = alice
  bob = bob
  s1 = s1
  s2 = s2
  r1 = r1
  e2 = e2
  h1 = h1
  h2 = h2
  None = None
  Ends = {alice, bob}
  Peer <- MCPeer
  Sends = {s1, s2, r1}
  Ensures = {e2}
  Handlers = {h1, h2}
  At <- MCAt
  ForgedIds = {2}
  Batch = 2
  MaxU64 = 2
  MaxCrashes = 1
  SerialRegistration = TRUE
SPECIFICATION FairSpec
INVARIANTS
  TypeOK
  NonceUnique
  DispatchAtMostOnce
  ReplayMarkAuthentic
PROPERTIES
  SendsTerminate
CHECK_DEADLOCK FALSE
