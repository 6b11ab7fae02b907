SPECIFICATION FairSpec
CONSTANTS
  Threads = {t1}
  Slots = {c1, c2}
  RequesterTasks = {q1, q2}
  ResponderTasks = {p1, p2}
  MaxReplays = 2
  MaxTouches = 1
  MaxFaults = 1
  None = None
INVARIANTS AgreedDid BothComplete OneConnectionPerThread NoLostWakeUp
 
CHECK_DEADLOCK FALSE
