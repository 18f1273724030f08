CONSTANTS
  Fd = {f1}
  Worker = {w1}
  MaxQueueSize = 1
  Request <- AllRequests
  Script <- RichScripts
  Base = 3
  MaxUnsigned = 7
  MaxHeader = 2
  MaxBody = 2
  Chunk = 2
  HeadUnits = 2
  SendfileBudget = 1
  MaxConnections = 2
  CallOutcome = {TRUE, FALSE}
  FileShrinks = {FALSE}
  NoFd = NoFd
SPECIFICATION SafetySpec
INVARIANTS
  TypeOK
  OneTaskWhilePending
  AnswersOwnRequestInOrder
  KeepsConnectionPromise
  NothingStranded
  BodyFraming
  ReadBufferBounded
  ContentLengthHonoured
