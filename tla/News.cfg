SPECIFICATION NewsSpec
CONSTANTS
  Channels <- Polled
  MaxId = 4
  Alive = {"b"}
  Blank = {3}
  SeedLimit = 2
  BatchLimit = 2
  MaxCrashes = 1
  Feeds <- Sources
  Articles <- Entries
  Posts <- Telegrams
  Reports <- FactSet
  Week = 3
  Delay = 1
  MaxNow = 7
  Messages <- Collectable
  Stocks <- Named
  Length <- Lengths
  Terms <- Lexicon
  Weight <- Weights
  MarketOf <- ListedIn
  Rank <- Texts
  TopAll = 2
  TopLayer = 1
  Window = 2
  Offset = 1
  MaxRows = 3
  MaxTime = 4
INVARIANT
  TypesOK
  NoHole
  NoGap
  UrgentShown
PROPERTY
  CaughtUp
