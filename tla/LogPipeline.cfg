SPECIFICATION PFairSpec
CONSTANTS
  plain = plain
  sys = sys
  family = family
  Template = {plain}
  Security = {}
  Urgent = {}
  Near = {}
  MinNew = 1
  Silence = 0
  System = {sys}
  Window = {w1, w2}
  Worker = {k1, k2}
  SystemOf <- OneSystem
  Start <- AllAtOnce
  Lines <- Carried
  Family <- OneFamily
  Rank <- OneRank
  MaxConcurrency = 1
  SystemCap = 0
  SpendCap = 0
  StaleAfter = 2
  RunTimeout = 0
  DayLength = 4
  MaxFindings = 1
  MaxClock = 2
  MaxRuns = 2
  MaxFaults = 1
  Request = {r1, r2}
  QueueSize = 1
  MaxAge = 1
  MaxArrivals = 2
  NoWindow = NoWindow
  NoClass = NoClass
INVARIANTS OneRunPerWindow NothingLeftAtExit
PROPERTIES AcceptedReachesLedger RunReturns AnalyzerSpec
CHECK_DEADLOCK FALSE
