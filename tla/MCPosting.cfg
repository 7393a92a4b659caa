SPECIFICATION Spec
CONSTANTS
  s1 = s1
  s2 = s2
  None = None
  Sessions <- MCSessions
  Accounts <- MCAccounts
  Opening <- PostOpening
  Refs <- PostRefs
  Exts <- PostExts
  Requests <- PostRequests
  Holds <- PostHolds
  Pledged <- PostPledged
  Stem <- PostStem
  MaxVersion = 2
SYMMETRY Symmetry
INVARIANTS
  TypeOK
  PostedOnce
  ToldIsPosted
  BooksTie
  HeldFundsSafe
  CyclesNeedABatch
PROPERTIES
  FrozenMoneyStays
  ImplementsLedger
