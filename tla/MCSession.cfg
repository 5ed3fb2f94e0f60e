SPECIFICATION Spec
CONSTANTS
  Scales <- Sizes
  MaxLinks = 3
  MaxRetry = 1
INVARIANTS TypeOK InOrderOnce AckHonest WaitOrdered
CHECK_DEADLOCK FALSE
