\* Readers that prune to each other's cursors, with rotation, Clear and partial
\* writes between a read's snapshot and its end.
CONSTANTS
  Keys = {"k1", "k2"}
  Buses = {1, 2}
  BusSpan = 65536
  KindSpan = 256
  Bytes = {7, 8, 9}
  DLCLength <- MCDLCLength
  MaxDataLength = 2
  InitialRecords = 2
  InitialPayload = 3
  MinRecords = 1
  MinPayload = 2
  NoCaptureRecord = 9
  Frames <- MixedFrames
  Events <- MixedEvents
  Readers = {r1, r2}
  Callers = {}
  MaxAppends = 4
  MaxEpochs = 2
SPECIFICATION ReadsSpec
INVARIANTS TypeOK HistoryExact CursorPlacement ReadsExact
PROPERTY PruneKeepsCursors
SYMMETRY HolderSymmetry
CHECK_DEADLOCK FALSE
