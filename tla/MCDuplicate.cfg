SPECIFICATION Spec
CONSTANTS
  s1 = s1
  s2 = s2
  None = None
  Sessions <- MCSessions
  Accounts <- MCAccounts
  Opening <- DupOpening
  Refs <- DupRefs
  Exts <- RevExts
  Requests <- DupRequests
  Holds = {}
  Pledged <- DupPledged
  Stem <- DupStem
  MaxVersion = 2
SYMMETRY Symmetry
INVARIANTS
  PostedOnce
