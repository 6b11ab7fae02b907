\* Two first sends to the same peer, with nothing serialising registration.
CONSTANTS
  alice = alice
  bob = bob
  s1 = s1
  s2 = s2
  r1 = r1
  e2 = e2
  h1 = h1
  h2 = h2
  None = None
  Ends = {alice, bob}
  Peer <- MCPeer
  Sends = {s1, s2}
  Ensures = {}
  Handlers = {}
  At <- MCAt
  ForgedIds = {}
  Batch = 2
  MaxU64 = 6
  MaxCrashes = 0
  SerialRegistration = FALSE
SPECIFICATION Spec
INVARIANTS
  NonceUnique
CHECK_DEADLOCK FALSE
