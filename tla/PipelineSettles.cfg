CONSTANTS
  Campaigns = {c1}
  Requests = {r1, r2}
  Workers = {w1}
  MaxRetry = 1
  MaxFound = 1
  Faults = {"request", "redis", "statement", "timeout", "crash"}
  MaxFaults = 2
  MaxStops = 1
  Cascade = FALSE
  None = None
SPECIFICATION FairSpec
CHECK_DEADLOCK FALSE
PROPERTIES
  RunningSettles
  RetriesSuffice
  ImplementsContract
