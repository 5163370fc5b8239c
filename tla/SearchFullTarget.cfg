CONSTANTS
  PageSize <- MCPageSize
  MaxLimit = 6
  MaxTotal = 8
SPECIFICATION Spec
CHECK_DEADLOCK FALSE
INVARIANT FullTarget
