SPECIFICATION WebSpec
CONSTANTS
  Markets = {"KR", "US"}
  Other = "other"
  Slots = {s1, s2, s3}
  Schedules = {"overlap", "serve"}
  MarketOrder <- Orders
  Session <- Sessions
  PrepTicks <- Preps
  Faults <- Failures
  MaxClock <- Ends5And4
  MaxRestarts <- OneRestart
  Universe <- Scanned
  Data <- Given
  Momenta <- UpOrDown
  One = 2
  Settings <- Defaults
  Theme <- Codes
  TopN = 2
  Prices = {8, 9, 10, 12, 13}
  MaWindow = 4
  TrailWindow = 3
  TrailPct = 8
INVARIANT
  TypesOK
  CoversEarlierScans
PROPERTY
  SessionServed
  OthersUnmoved
  AlertStays
  LateAnswersIgnored
