SPECIFICATION Spec
CONSTANTS
  Events <- MCEvents
  Workers = {w1, w2}
  BatchSize = 2
  MaxAttempts = 2
  MaxFaults = 1
INVARIANTS
  TypeOK
  CopiesExplained
  DeadIsDeserved
PROPERTIES
  ImplementsAtLeastOnce
  Drained
CHECK_DEADLOCK FALSE
