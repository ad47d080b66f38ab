SPECIFICATION Spec
CONSTANTS
  plain = plain
  other = other
  auth = auth
  quiet = quiet
  busy = busy
  q1 = q1
  b1 = b1
  b2 = b2
  b3 = b3
  family = family
  Template = {plain, other, auth}
  Security = {auth}
  Urgent = {}
  Near = {}
  MinNew = 1
  Silence = 0
  System = {quiet, busy}
  Window = {q1, b1, b2, b3}
  Worker = {k1, k2}
  SystemOf <- Senders
  Start <- AllAtOnce
  Lines <- Carried
  Family <- OneFamily
  Rank <- Ranks
  MaxConcurrency = 1
  SystemCap = 1
  SpendCap = 1
  StaleAfter = 2
  RunTimeout = 1
  DayLength = 2
  MaxFindings = 0
  MaxClock = 2
  MaxRuns = 3
  MaxFaults = 0
  NoWindow = NoWindow
  NoClass = NoClass
INVARIANTS CompletedCallsWithinCap SpendWithinCap
SYMMETRY WorkerSymmetry
CHECK_DEADLOCK FALSE
