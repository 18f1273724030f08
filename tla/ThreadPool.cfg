CONSTANTS
  Worker = {w1, w2, w3}
  Submitter = {s1, s2}
  Task = {t1, t2, t3}
  NoTask = NoTask
  MaxQueueSize = 2
SPECIFICATION Spec
INVARIANTS
  TypeOK
  WorkConserving
  NobodySleepsThroughStop
  FirstInFirstOut
  ExactlyOnce
  DrainedBeforeDestroyed
PROPERTIES
  DestructorReturns
  ImplementsTaskQueue
