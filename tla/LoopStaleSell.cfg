SPECIFICATION Spec
CONSTANTS
  Tickers <- MCTickers
  TopN = 1
  Market = "KR"
  OpenTicks <- SessionKR
  DayLen = 2
  RebuyBlock = 1
  LossPct = 10
  BufferPct = 5
  MaxAttempts = 3
  UseLlm = FALSE
  Snapshots <- MCSnapshots
  Equities = {10}
  Faults = {}
  StartHoldings <- StartFlat
  MaxClock = 1
  MaxBuys = 2
  MaxCancels = 0
INVARIANTS
  SellsCovered
\* The clock stops, and a cycle that finds no snapshot is a stuttering step.
CHECK_DEADLOCK FALSE
