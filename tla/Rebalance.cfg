SPECIFICATION Spec
CONSTANTS
  Tickers <- MCTickers
  TopN = 2
  Snapshots <- MCSnapshots
INVARIANTS
  GateHolds
  Settled
  Bounded
PROPERTY KeepsBand
