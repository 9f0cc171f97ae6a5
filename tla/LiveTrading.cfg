SPECIFICATION Spec
CONSTANTS
  MaxOrders = 2
  MaxTrades = 3
  MaxClock = 3
  MaxSize = 2
  Period = 1
  Lot = 2
  Ceiling = 4
  Minimum = 1
  Faults = {"crash", "fail", "db", "cancel", "poll", "ambiguous", "foreign", "replay"}
  MaxFaults = 2
INVARIANT BooksFollowTheCursor
INVARIANT OpenOrdersAreTracked
INVARIANT CheckpointMeansRecorded
PROPERTY ImplementsTradeBook
CHECK_DEADLOCK FALSE
