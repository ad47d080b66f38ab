SPECIFICATION Spec
CONSTANTS
  a = a
  b = b
  one = one
  both = both
  Address = {a, b}
  Batches <- Reported
  Cidr = {one, both}
  Covers <- Inside
  System = {s1, s2}
  MaxInFlight = 1
  MinSystemsFloor = 2
  MinSystems = 2
  Window = 1
  TTL = 3
  MaxEntries = 1
  Retention = 1
  AskRetention = 1
  Skew = 1
  MaxPerSystem = 1
  MaxClock = 3
  MaxCalls = 3
INVARIANTS TypeOK AuditExplains
PROPERTIES AgreedByDistinctSystems ExemptHeldBack RefreshNeverShortens
SYMMETRY Symmetry
CHECK_DEADLOCK FALSE
