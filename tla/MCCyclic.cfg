\* A fixed or a generated frame with retries, one miss permitted, under fair
\* scheduling.
CONSTANTS
  RetryTimeout = TRUE
  Period = 2
  MaxConsecutiveMisses = 1
  MaxTime = 5
  MaxUpdates = 1
SPECIFICATION FairSpec
CHECK_DEADLOCK FALSE
INVARIANTS
  SendDefinite
  NoBurst
  LastSend
  ReportsExact
PROPERTIES
  TaskEnds
