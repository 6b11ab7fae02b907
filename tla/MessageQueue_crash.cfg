SPECIFICATION FairSpec
CONSTANTS
  c1 = c1
  k1 = k1
  t1 = t1
  t2 = t2
  r1 = r1
  None = None
  Messages <- TwoMessages
  Connections = {c1}
  connection_id <- OneConnection
  Keys = {k1}
  recipient_keys <- FirstUnfiltered
  Takers = {t1, t2}
  Removers = {r1}
  Limits = {1, 2}
  MaxFaults = 1
  MaxCrashes = 1
CHECK_DEADLOCK FALSE
INVARIANTS
  AcceptedIsKept
  SendingIsHeld
  TakesAreDisjoint
PROPERTIES
  NoResurrection
  ImplementsQueue
  RemovalsEnd
