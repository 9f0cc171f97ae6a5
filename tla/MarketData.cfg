SPECIFICATION Spec
CONSTANTS
  Feeds = {"kraken", "binance", "candles", "funding", "open_interest", "book", "metrics", "rollup"}
  Tapes <- MCTapes
  Keys = {1, 2}
  MaxNow = 5
  Page = 3
  PageWindow = 2
  Lookback = 4
  Retention = 2
  RefreshWindow = 1
  Cap = 3
  DayLen = 3
  Candle = 1
  Rollups = {"cron", "operator"}
  Bases = {"session"}
  None = None
INVARIANT BackfillLeavesNoGap
PROPERTY ViewIsTheTable
PROPERTY BasisIsKept
CHECK_DEADLOCK FALSE
