SPECIFICATION FairSpec
CONSTANTS
  b1 = b1
  b2 = b2
  h1 = h1
  h2 = h2
  None = None
  Batches <- TwoBatches
  Tasks <- TwoTasks
  MaxCopies <- OneTwice
  MaxFaults = 1
INVARIANTS OneCreditPerCommit VerdictIsTrue
PROPERTIES TimeoutLosesNothing PaymentsEnd
CHECK_DEADLOCK FALSE
