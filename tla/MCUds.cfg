CONSTANTS
    c1 = c1
    r1 = r1
    s1 = s1
    c2 = c2
    Procs = {c1, r1, s1}
    Clients = {c1}
    Raws = {r1}
    Servers = {s1}
    LinkOf <- MCLinkOf
    BlockSize <- MCBlockSize
    MaximumPayloadLength <- MCMaximumPayloadLength
    SequenceModulus = 2
    WaitFrameLimit = 1
    Scenarios <- MCScenarios
    Services = {"a", "b"}
SPECIFICATION FairSpec
CHECK_DEADLOCK FALSE
INVARIANTS
  TokenAccounting
  TransferExact
  AnswersExact
PROPERTIES
  AllEnd
