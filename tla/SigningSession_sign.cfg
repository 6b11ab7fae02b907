SPECIFICATION Spec
CONSTANTS
  s1 = s1
  s2 = s2
  t1 = t1
  t2 = t2
  None = None
  Signers <- TwoSigners
  Tasks <- TwoTasks
  Thresholds = {0, 2}
  MaxMessages = 6
  MaxFaults = 1
SYMMETRY Symmetry
INVARIANTS SignatureKept CombinedIsComplete ThresholdActs
CHECK_DEADLOCK FALSE
