CONSTANTS
  Requests = {r1, r2}
  MaxKeys = 2
  MaxFaults = 1
  ProviderKeys = {k1, k2}
  Accepted = {k1}
  Secrets = {s1, s2}
  Garbage = Garbage
  None = None
SPECIFICATION VaultFairSpec
CHECK_DEADLOCK FALSE
INVARIANTS
  TypeOK
  VerdictStands
  
PROPERTIES
  RemovedStaysRemoved
  Answered
