SPECIFICATION Spec
CONSTANTS
  Tickers <- MCTickers
  TopN = 1
  Market = "KR"
  OpenTicks <- SessionKR
  DayLen = 2
  RebuyBlock = 2
  LossPct = 10
  BufferPct = 5
  MaxAttempts = 1
  UseLlm = FALSE
  Snapshots <- MCSnapshots
  Equities = {10, 9}
  Faults = {}
  StartHoldings <- StartFlat
  MaxClock = 2
  MaxBuys = 2
  MaxCancels = 0
INVARIANTS
  TypeOK
  NoDoubleBuy
  OneWorkingOrder
  LedgerComplete
PROPERTIES
  LossStopsBuys
\* The clock stops, and a cycle that finds no snapshot is a stuttering step.
CHECK_DEADLOCK FALSE
