\* Three workers hand over four completions.
CONSTANTS
  Worker = {w1, w2, w3}
  Completion = {c1, c2, c3, c4}
SPECIFICATION Spec
INVARIANTS
  TypeOK
  NoLostWakeUp
  DeliveredInOrder
PROPERTIES
  ImplementsMailbox
