SPECIFICATION Spec
CONSTANTS
  None = None
  Payouts <- MCPayouts
  TooLate <- MCTooLate
  Callbacks = {c1}
  Limit = 2
  MaxFaults = 1
INVARIANTS
  TypeOK
  EventsTellStatus
  AnswersHold
PROPERTIES
  ImplementsDisbursement
  OverdueEnds
CHECK_DEADLOCK FALSE
