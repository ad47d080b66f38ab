SPECIFICATION Spec
CONSTANTS
  Window = {w1, w2}
  Request = {r1, r2}
  Worker = {k1}
  QueueSize = 1
  MaxCrashes = 0
  NoWindow = NoWindow
INVARIANT AssuredIsClaimed
CHECK_DEADLOCK FALSE
