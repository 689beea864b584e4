\* A recorder whose capture others clear and prune, under fair scheduling; and
\* the log writers, each of whose writes may fail; and the codecs.
SPECIFICATION Spec
CONSTANTS
  Keys = {}
  Entries <- MCEntries
  Holders = {rec}
  Rec = rec
  Eras = {1, 2}
  MaxAppends = 4
  GroupKeys <- SomeGroups
  Times = {1, 2}
  BufferSize = 1
  MaxRecords = 3
  AscTimes = {1, 2, 3}
  AscBuffer = 3
  AscRecords = 4
  IDs <- SomeIDs
  Counters <- SomeCounters
  Messages <- SomeMessages
  Payloads <- SomePayloads
  Numbers <- SomeNumbers
  Labels <- SomeLabels
  ExactMagnitude = 3
  ByteBits = 2
  Records <- SomeRecords
  MaxBytes = 4
  Elements <- SomeElements
CHECK_DEADLOCK FALSE
INVARIANTS
  WrittenExact
  CleanStop
  CursorsHonest
  LogsExact
  FramesExact
  SignalsExact
  
PROPERTY
  RecordingEnds
