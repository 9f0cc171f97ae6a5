SPECIFICATION Spec
CONSTANTS
  DayLen = 8
  Week = 3
  Candle = 2
  Parts = {"run", "import"}
  Plans <- MCPlans
  Tapes <- MCTapes
  Grace = 1
  CloseGrace = 1
  Page = 3
  Recent = 3
  Batch = 2
  Span = 8
  MaxNow = 18
  MaxEdits = 1
  None = None
INVARIANT StallIsToldFromClosure
INVARIANT ClosureIsProven
INVARIANT DailyValuesAreObserved
INVARIANT CandlesAreWhole
CHECK_DEADLOCK FALSE
