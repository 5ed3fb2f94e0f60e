SPECIFICATION Spec
CONSTANTS
  Scales <- Sizes
  MaxLinks = 3
  MaxRetry = 1
INVARIANT UpIsInited
CHECK_DEADLOCK FALSE
