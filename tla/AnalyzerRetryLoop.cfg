SPECIFICATION HSpec
CONSTANTS
  plain = plain
  sys = sys
  family = family
  Template = {plain}
  Security = {}
  Urgent = {}
  Near = {}
  MinNew = 1
  Silence = 0
  System = {sys}
  Window = {w1}
  Worker = {k1}
  SystemOf <- OneSystem
  Start <- AllAtOnce
  Lines <- Carried
  Family <- OneFamily
  Rank <- OneRank
  MaxConcurrency = 1
  SystemCap = 2
  SpendCap = 0
  StaleAfter = 2
  RunTimeout = 1
  DayLength = 4
  MaxFindings = 0
  MaxClock = 1
  MaxRuns = 4
  MaxFaults = 0
  NoWindow = NoWindow
  NoClass = NoClass
INVARIANT CallsWithinCap
CHECK_DEADLOCK FALSE
