SPECIFICATION FairSpec
CONSTANTS
  a1 = a1
  t1 = t1
  t2 = t2
  Assignments = {a1}
  Primary = a1
  Slots = {"s1"}
  Params = {"p1"}
  Fees = {"f1"}
  Startable = {"s1"}
  Tasks = {t1, t2}
  Commands = {"kill"}
  Broadcast = TRUE
  Faults = {"crash", "stall"}
  MaxRuns = 4
  MaxFills = 0
  MaxEdits = 1
  MaxCommands = 1
  MaxFaults = 1
PROPERTY DesiredIsReached
PROPERTY StopIsHonoured
PROPERTY KillTakesEffect
