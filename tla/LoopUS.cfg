SPECIFICATION Spec
CONSTANTS
  Tickers <- MCTickers
  TopN = 1
  Market = "US"
  OpenTicks <- SessionUS
  DayLen = 2
  RebuyBlock = 1
  LossPct = 10
  BufferPct = 5
  MaxAttempts = 2
  UseLlm = FALSE
  Snapshots <- MCSnapshots
  Equities = {7}
  Faults = {"transport", "lost", "reject", "crash", "halt"}
  StartHoldings <- StartFlat
  MaxClock = 2
  MaxBuys = 2
  MaxCancels = 0
INVARIANTS
  RebuySpacing
  RowsAreOrders
PROPERTIES
  HaltStopsBuys
\* The clock stops, and a cycle that finds no snapshot is a stuttering step.
CHECK_DEADLOCK FALSE
