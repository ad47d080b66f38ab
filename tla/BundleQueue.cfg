SPECIFICATION FairSpec
CONSTANTS
  Window = {w1, w2, w3}
  Request = {r1, r2}
  Worker = {k1, k2}
  QueueSize = 1
  MaxCrashes = 1
  NoWindow = NoWindow
INVARIANTS TypeOK OneHolder ClaimsAreHeld DrainedBeforeExit
PROPERTIES AcceptedIsProcessed StopTerminates LifeSpec
CHECK_DEADLOCK FALSE
