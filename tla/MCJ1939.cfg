SPECIFICATION FairSpec
CONSTANTS
    a = a
    b = b
    Nodes = {a, b}
    Scenarios <- MCScenarios
INVARIANTS
  OneOwner
  TransfersExact
PROPERTIES
  NoUseAfterLoss
  CallsEnd
