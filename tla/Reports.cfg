SPECIFICATION Spec
CONSTANTS
  Configs <- MCConfigs
  Originals <- MCOriginals
  References <- MCReferences
  Step = 2
  Capital = 10
  MinPositions = 1
  MinReference = 1
  MinWindow = 4
  MinHorizon = 5
  MaxHorizon = 8
  MinCoverage = 60
  MaxDrawdown = 15
  OuterLoss = 3
  Lots = 1
  Moves <- MCMoves
  Ends = {"crash", "watchdog", "failed"}
  Periods <- MCPeriods
  Days = 4
  MinOverlap = 3
  MinCommon = 2
  Replays <- MCReplays
  Rewinds = TRUE
  MaxNow = 6
  MaxRuns = 2
  MaxLedger = 2
INVARIANT PassIsEarned
INVARIANT ChainCurveIsTrue
INVARIANT RollingJudgesOneAccount
PROPERTY InvalidStaysInvalid
CHECK_DEADLOCK FALSE
