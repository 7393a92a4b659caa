SPECIFICATION Spec
CONSTANTS
  s1 = s1
  s2 = s2
  None = None
  Sessions <- MCSessions
  Accounts <- MCAccounts
  Opening <- RevOpening
  Refs <- RevRefs
  Exts <- RevExts
  Requests <- RevRequests
  Holds <- RevHolds
  Pledged <- RevPledged
  Stem <- RevStem
  MaxVersion = 3
SYMMETRY Symmetry
INVARIANTS
  ToldIsPosted
  BooksTie
  SettledXorRefunded
  CyclesNeedABatch
PROPERTIES
  FrozenMoneyStays
  ImplementsLedger
