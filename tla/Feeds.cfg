SPECIFICATION Spec
CONSTANTS
  Universes <- OneOrTwoPairs
  Warmup = 2
  Page = 2
  ColdWindow = 1
  Faults = {"refresh", "hole", "lag", "crash"}
  MaxNow = 4
  MaxFaults = 1
INVARIANT StepsRise
INVARIANT NothingLost
PROPERTY CandlesArrive
CHECK_DEADLOCK FALSE
