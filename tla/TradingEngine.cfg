SPECIFICATION Spec
CONSTANTS
  Pairs = {1, 2}
  MaxPosition = 30
  MaxGross = 35
  MaxDailyLoss = 12
  MinOrder = 5
  MaxLosses = 2
  CooldownCandles = 3
  CostRate = 1
  TakerFee = 1
  MakerFee = 0
  Slippage = 0
  MarketableLimit = "skip"
  StartingCash = 35
  Instruments = {"spot", "perp"}
  Candles <- MCCandles
  Batches <- MCBatches
  FundingRates = {0, 1}
  StepsPerDay = 2
  MaxSteps = 4
  MaxRestarts = 1
INVARIANT AccountingIdentity
INVARIANT VenueAgreesWithLedger
INVARIANT BatchStaysInCaps
INVARIANT RailHolds
INVARIANT CooldownHolds
INVARIANT ReplayAgrees
CHECK_DEADLOCK FALSE
