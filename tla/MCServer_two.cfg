CONSTANTS
  Fd = {f1, f2}
  Worker = {w1}
  MaxQueueSize = 1
  Request <- AllRequests
  Script <- ShortScripts
  Base = 3
  MaxUnsigned = 7
  MaxHeader = 2
  MaxBody = 2
  Chunk = 2
  HeadUnits = 1
  SendfileBudget = 1
  MaxConnections = 3
  CallOutcome = {TRUE}
  FileShrinks = {FALSE}
  NoFd = NoFd
SYMMETRY FdSymmetry
SPECIFICATION SafetySpec
INVARIANTS
  AnswersOwnRequestInOrder
PROPERTIES
  NotCutOff
