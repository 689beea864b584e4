CONSTANTS
    p1 = p1
    p2 = p2
    Procs = {p1, p2}
    ReadLength = 2
    Scenarios <- MCScenarios
SPECIFICATION FairSpec
CHECK_DEADLOCK FALSE
INVARIANTS
  RepliesExact
  SessionExact
PROPERTIES
  CallsEnd
