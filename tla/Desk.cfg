SPECIFICATION DeskSpec
CONSTANTS
  Bars <- AllDays
  MaxBars = 6
  MaLong = 2
  MaExit = 2
  RsiPeriod = 2
  RsiBuy = 60
  RsiExit = 40
  TimeStop = 2
  HardStop = 4
  IndexPrices = {4, 5, 6}
  Strengths = {"chop", "between", "trend"}
  IndexDays = 5
  MaWindow = 3
  Keeps <- ThreeQuarters
  Prices = {2, 5}
  Qty = 2
  MaxTime = 6
  MaxCrashes = 1
  Tickers <- Two
  LastDay = 6
  Histories <- Courses
  Lists <- ByHand
  YearEnds = {3, 6}
  Step = 2
  TopN = 2
  MinRows = 2
INVARIANT
  TypesOK
  StopsInTime
  BasisHeld
  ShownTogether
  NoLookAhead
PROPERTY
  ImplementsLive
  InverseIsLive
CHECK_DEADLOCK FALSE
