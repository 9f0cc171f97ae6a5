SPECIFICATION Spec
CONSTANTS
  a1 = a1
  t1 = t1
  t2 = t2
  Assignments = {a1}
  Primary = a1
  Slots = {"s1"}
  Params = {"p1", "p2"}
  Fees = {"f1"}
  Startable = {"s1"}
  Tasks = {t1, t2}
  Commands = {"kill", "resume"}
  Broadcast = FALSE
  Faults = {}
  MaxRuns = 3
  MaxFills = 1
  MaxEdits = 2
  MaxCommands = 2
  MaxFaults = 0
SYMMETRY TaskSymmetry
INVARIANT KilledNotResumed
PROPERTY KilledStaysDown
