CONSTANTS
  Campaigns = {c1}
  Requests = {r1, r2}
  Workers = {w1, w2}
  MaxRetry = 1
  MaxFound = 2
  Faults = {"request", "redis", "statement", "timeout", "crash"}
  MaxFaults = 2
  MaxStops = 1
  Cascade = TRUE
  None = None
SPECIFICATION Spec
SYMMETRY Symmetry
CHECK_DEADLOCK FALSE
INVARIANTS
  TypeOK
  RunningIsAccounted
  FoundIsBacked
  AckedIsStored
  ReplayNeedsFailure
