SPECIFICATION Spec
CONSTANTS
  Postings = {p1}
  Manuals = {m1}
  LastDay = 3
  Chunk = 2
  MaxKey = 3
  MaxCuts = 2
  None = None
INVARIANT TypeOK
PROPERTY ImplementsDayBook
CHECK_DEADLOCK FALSE
