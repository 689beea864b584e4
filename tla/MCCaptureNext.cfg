\* Next calls that share waiters, and the plain log every step implements.
CONSTANTS
  Keys = {"k1", "k2"}
  Buses = {1}
  BusSpan = 65536
  KindSpan = 256
  Bytes = {7, 8, 9}
  DLCLength <- MCDLCLength
  MaxDataLength = 2
  InitialRecords = 2
  InitialPayload = 3
  MinRecords = 1
  MinPayload = 2
  NoCaptureRecord = 9
  Frames <- TwoFrames
  Events <- OneEvent
  Readers = {r1}
  Callers = {c1, c2}
  MaxAppends = 3
  MaxEpochs = 2
SPECIFICATION NextSpec
INVARIANT CallersServed
PROPERTIES NextReturns ImplementsLog
CHECK_DEADLOCK FALSE
