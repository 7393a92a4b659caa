SPECIFICATION Spec
CONSTANTS
  Postings = {p1}
  Manuals = {m1}
  LastDay = 2
  Chunk = 2
  MaxKey = 2
  MaxCuts = 1
  None = None
PROPERTY ClosedDayStays
CHECK_DEADLOCK FALSE
