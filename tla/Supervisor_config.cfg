SPECIFICATION Spec
CONSTANTS
  a1 = a1
  t1 = t1
  t2 = t2
  Assignments = {a1}
  Primary = a1
  Slots = {"s1", "s2"}
  Params = {"p1"}
  Fees = {"f1", "f2"}
  Startable = {"s1"}
  Tasks = {t1, t2}
  Commands = {"switch"}
  Broadcast = FALSE
  Faults = {"crash", "fail", "db", "replay"}
  MaxRuns = 3
  MaxFills = 1
  MaxEdits = 2
  MaxCommands = 0
  MaxFaults = 1
SYMMETRY TaskSymmetry
INVARIANT OneRunningRow
INVARIANT TradingRowIsRunning
PROPERTY NoSilentReset
