SPECIFICATION Spec
CONSTANTS
  a1 = a1
  t1 = t1
  t2 = t2
  Assignments = {a1}
  Primary = a1
  Slots = {"s1"}
  Params = {"p1"}
  Fees = {"f1"}
  Startable = {"s1"}
  Tasks = {t1, t2}
  Commands = {}
  Broadcast = FALSE
  Faults = {"crash", "stall", "db", "audit", "fail", "replay"}
  MaxRuns = 3
  MaxFills = 1
  MaxEdits = 0
  MaxCommands = 0
  MaxFaults = 2
SYMMETRY TaskSymmetry
INVARIANT OneTrader
INVARIANT LedgerContinuity
INVARIANT RiskHaltNotResumed
PROPERTY ImplementsLedgerChain
