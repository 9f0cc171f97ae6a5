SPECIFICATION Spec
CONSTANTS
  Configs <- MCOriginals
  Originals <- MCOriginals
  References = {}
  Step = 2
  Capital = 10
  MinPositions = 1
  MinReference = 1
  MinWindow = 4
  MinHorizon = 5
  MaxHorizon = 8
  MinCoverage = 60
  MaxDrawdown = 15
  OuterLoss = 3
  Lots = 1
  Moves <- MCMoves
  Ends = {"crash", "failed"}
  Periods = {}
  Days = 4
  MinOverlap = 3
  MinCommon = 2
  Replays <- MCReplays
  Rewinds = FALSE
  MaxNow = 10
  MaxRuns = 3
  MaxLedger = 0
INVARIANT AccountCurveIsContinuous
CHECK_DEADLOCK FALSE
