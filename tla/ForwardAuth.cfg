SPECIFICATION Spec
CONSTANTS
  base = base
  feed = feed
  a = a
  b = b
  Request = {r1, r2}
  Service = {base, feed}
  Credential = {a, b}
  Question <- Asked
  Initially <- Entitled
  PositiveTTL = 2
  NegativeTTL = 1
  MaxPositive = 2
  MaxNegative = 1
  Timeout = 1
  MaxClock = 2
  MaxChanges = 1
  MaxRestarts = 1
  NoEntry = NoEntry
  NoQuestion = NoQuestion
INVARIANTS TypeOK RepliesAreVerdicts CachedVerdictsRecent AllowedOutlastFlood LastVerdictFound
SYMMETRY RequestSymmetry
CHECK_DEADLOCK FALSE
