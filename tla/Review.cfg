SPECIFICATION Spec
CONSTANTS
  c1 = c1
  c2 = c2
  customer = customer
  dismissed = dismissed
  w1 = w1
  w2 = w2
  System = {s1}
  Class = {c1, c2}
  Decided = {customer, dismissed}
  Wording = {w1, w2}
  Batch = 1
  MaxModel = 1
  Retention = 0
  StaleAfter = 0
  RunTimeout = 0
  MaxClock = 1
  MaxRecords = 2
SYMMETRY Symmetry
INVARIANTS DecisionsKept GroupDecidesUndecided FindingsReviewable GroupsOfOneModel
PROPERTIES WordingStable
CHECK_DEADLOCK FALSE
