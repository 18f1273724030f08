\* Records that fit the read buffer; one later handshake at any call.
CONSTANTS
  Request <- TlsRequests
  Base = 3
  MaxUnsigned = 7
  MaxHeader = 3
  MaxBody = 2
  HeadUnits = 3
  Chunk = 2
  TlsFileChunk = 3
  RecordUnits = 2
  FileShrinks = {FALSE}
  Flight <- Handshake
  Script <- SmallRecords
  LaterFlight <- KeyUpdateAndRenegotiation
  MaxLater = 2
SPECIFICATION SafetySpec
INVARIANTS
  TypeOK
  RetryUnchanged
  ResponsesInOrder
  WatchesWhatItWants
\* A connection may end, or wait for its client for ever.
CHECK_DEADLOCK FALSE
