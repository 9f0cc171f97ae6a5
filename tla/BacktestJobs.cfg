SPECIFICATION Spec
CONSTANTS
  Kinds = {"sweep", "stability"}
  Points = 2
  Windows = 1
  Callers = {"c1", "c2"}
  Workers = {"w1", "w2"}
  MaxPending = 1
  TTL = 0
  Overlap = FALSE
  MaxJobs = 2
  MaxClock = 2
  MaxFaults = 1
INVARIANT ResearchBounded
INVARIANT ResultIsWhole
PROPERTY FinishedIsFinal
PROPERTY JobsFinish
CHECK_DEADLOCK FALSE
