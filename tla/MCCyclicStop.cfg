\* What Err reports after Stop.
CONSTANTS
  RetryTimeout = FALSE
  Period = 2
  MaxConsecutiveMisses = 1
  MaxTime = 3
  MaxUpdates = 0
SPECIFICATION Spec
INVARIANT StopReportsNil
CHECK_DEADLOCK FALSE
