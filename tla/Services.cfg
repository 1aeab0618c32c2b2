SPECIFICATION ServicesSpec
CONSTANTS
  Markets = {"KR", "US"}
  Home = "KR"
  Questions <- AlwaysCandidates
  Names = {"k", "l", "u"}
  UseCache = TRUE
  None = None
  Threads = {"t1", "t2"}
  Procs = {"P"}
  ProcOf <- OneProcess
  Attempts = 2
  MaxTokens = 3
  MaxRevokes = 1
  Tickers = {"a"}
  Scans = {"s"}
  EngineDays = 260
  PrepDays = 280
  RsDays <- DefaultRs
  RegimeDays <- DefaultRegime
  IndexDays = 260
  LastUS = 9
  LastKR = 6
  LastDate = 10
  Window = 2
  Cap = 2
  MaxPages = 4
  Wishes = {1, 3, 5, 9}
  Life = 3
  Slow = 2
  MaxTime = 6
INVARIANT
  TypesOK
  SentInTime
  CompleteBars
  NoHole
  PriceFresh
  AnswerFits
PROPERTY
  NoNeedlessIssue
  Heals
