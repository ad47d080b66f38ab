SPECIFICATION Spec
CONSTANTS
  plain = plain
  auth = auth
  sys = sys
  w1 = w1
  w2 = w2
  w3 = w3
  family = family
  Template = {plain, auth}
  Security = {auth}
  Urgent = {}
  Near = {}
  MinNew = 1
  Silence = 0
  System = {sys}
  Window = {w1, w2}
  Worker = {k1, k2}
  SystemOf <- OneSystem
  Start <- AllAtOnce
  Lines <- Carried
  Family <- OneFamily
  Rank <- PlainFirst
  MaxConcurrency = 1
  SystemCap = 0
  SpendCap = 0
  StaleAfter = 2
  RunTimeout = 1
  DayLength = 4
  MaxFindings = 1
  MaxClock = 3
  MaxRuns = 3
  MaxFaults = 1
  NoWindow = NoWindow
  NoClass = NoClass
INVARIANT WindowCountsOnce
CHECK_DEADLOCK FALSE
