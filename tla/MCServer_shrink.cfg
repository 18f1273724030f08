CONSTANTS
  Fd = {f1}
  Worker = {w1}
  MaxQueueSize = 1
  Request <- AllRequests
  Script <- LiveScripts
  Base = 3
  MaxUnsigned = 7
  MaxHeader = 2
  MaxBody = 2
  Chunk = 2
  HeadUnits = 1
  SendfileBudget = 1
  MaxConnections = 1
  CallOutcome = {TRUE}
  FileShrinks = {TRUE, FALSE}
  NoFd = NoFd
SPECIFICATION SafetySpec
INVARIANT
  ContentLengthHonoured
