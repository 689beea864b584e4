SPECIFICATION FairSpec
CONSTANTS
  b1 = b1
  b2 = b2
  s1 = s1
  s2 = s2
  Buses = {b1, b2}
  Senders = {s1, s2}
  None = None
  MaxWatchers = 2
  EventBuffer = 1
  QueueSize = 2
  ReceiveBatch = 2
  Scenarios <- MCScenarios
CHECK_DEADLOCK FALSE
INVARIANTS
  SendExact
  ReportExact
  HandlesExact
PROPERTIES
  StopsForGood
