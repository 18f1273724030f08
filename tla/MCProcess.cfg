\* One worker, two signals, one request: a signal on either thread at any point.
CONSTANTS
  MaxPort = 9
  MaxSize = 15
  NanosPerSecond = 2
  Defaults <- DefaultValues
  DefaultPath <- Main
  NoFile = NoFile
  Invocation <- Invocations
  Worker = {w1}
  MaxSignals = 2
  MaxTasks = 1
  NoServer = NoServer
SPECIFICATION Spec
INVARIANTS
  SettingsHonoured
  NothingTouchesClosed
PROPERTIES
  StopHonoured
