CONSTANTS
  Campaigns = {c1}
  Requests = {r1}
  Workers = {w1}
  MaxRetry = 2
  MaxFound = 1
  Faults = {"redis"}
  MaxFaults = 1
  MaxStops = 0
  Cascade = TRUE
  None = None
SPECIFICATION Spec
CHECK_DEADLOCK FALSE
INVARIANT JobIsQueued
