SPECIFICATION CounterSpec
CONSTANTS
  Callers = {c1, c2}
  MaxValue = 4
  MaxCounterFaults = 3
  Absent = Absent
INVARIANTS NeverRepeated SpentIsStored
