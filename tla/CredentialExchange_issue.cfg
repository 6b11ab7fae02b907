SPECIFICATION FairSpec
CONSTANTS
  HolderRows = {h1, h2}
  IssuerRows = {s1, s2}
  HolderTasks = {g1, g2}
  IssuerTasks = {t1, t2}
  MaxReplays = 1
  MaxCalls = 1
  MaxFaults = 2
  None = None
INVARIANTS DoneMeansHeld IssuedOnce HeldOnce MetadataKept
PROPERTIES ExchangeCompletes
CHECK_DEADLOCK FALSE
