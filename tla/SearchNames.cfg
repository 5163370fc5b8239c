CONSTANTS
  a = a
  A = A
  b = b
  c = c
  Names = {a, A, b, c}
  Lower <- MCLower
  NoName = NoName
  Queries = 3
  PageSize = 2
  Limits <- MCLimits
  PlacesLimit = 3
  RemoteLimit = 3
  MaxJobs = 3
SPECIFICATION NamedFairSpec
CHECK_DEADLOCK FALSE
INVARIANTS
  TypeOK
  NamesDistinct
  OvershootBounded
  FailureStaysInQuery
  AnyJobCounts
PROPERTY Ends
