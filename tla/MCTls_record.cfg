\* A record larger than the read buffer.
CONSTANTS
  Request <- TlsRequests
  Base = 3
  MaxUnsigned = 7
  MaxHeader = 3
  MaxBody = 2
  HeadUnits = 3
  Chunk = 2
  TlsFileChunk = 3
  RecordUnits = 2
  FileShrinks = {FALSE}
  Flight <- Handshake
  Script <- LargeRecord
  LaterFlight <- NoLaterFlight
  MaxLater = 0
SPECIFICATION Spec
PROPERTIES
  EveryRecordRead
CHECK_DEADLOCK FALSE
