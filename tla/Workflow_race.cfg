SPECIFICATION FairSpec
CONSTANTS
  i1 = i1
  i2 = i2
  i3 = i3
  c1 = c1
  c2 = c2
  o1 = o1
  h1 = h1
  h2 = h2
  r1 = r1
  r2 = r2
  r3 = r3
  None = None
  Instances = {i1, i2, i3}
  Missing = {i3}
  Commands = {c1, c2}
  Operators = {o1}
  Handlers = {h1, h2}
  Records = {r1, r2, r3}
  Inbound <- Messages
  Calls <- OperatorCalls
  States = {"a", "b", "end"}
  StartState = "a"
  FinalStates = {"end"}
  Transitions <- Loop
  KeyLimit = 1
  MaxAttempts = 2
  Concurrency = 1
  MaxMessages = 2
  MaxCalls = 2
  MaxFaults = 1
INVARIANTS NoAdvanceLost KeyAppliedOnce CancelSticks SingletonPerConnection NoDuplicateCommand
PROPERTIES CommandsEnd
CHECK_DEADLOCK FALSE
