SPECIFICATION FairSpec
CONSTANTS
  Tickers <- MCTickers
  TopN = 1
  Market = "US"
  OpenTicks <- SessionLive
  DayLen = 1
  RebuyBlock = 1
  LossPct = 10
  BufferPct = 5
  MaxAttempts = 2
  UseLlm = FALSE
  Snapshots <- LiveSnapshots
  Equities = {10}
  Faults = {"transport", "reject", "expire", "unpriced", "cancel"}
  StartHoldings <- StartWithA
  MaxClock = 1
  MaxBuys = 0
  MaxCancels = 1
PROPERTIES
  CycleEnds
  ForcedExit
\* The clock stops, and a cycle that finds no snapshot is a stuttering step.
CHECK_DEADLOCK FALSE
