CONSTANTS
  Campaigns = {c1}
  Requests = {r1, r2, r3}
  Workers = {w1}
  MaxRetry = 2
  MaxFound = 1
  Faults = {}
  MaxFaults = 0
  MaxStops = 0
  Cascade = TRUE
  None = None
SPECIFICATION Spec
CHECK_DEADLOCK FALSE
INVARIANT SingleJob
