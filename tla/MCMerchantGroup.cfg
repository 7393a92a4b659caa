SPECIFICATION Spec
CONSTANTS
  Sessions = {s1, s2}
  Requests <- MCRequests
  Tiers <- MCTiers
  Buffer = 1
  Pledge = 2
  Opening = 2
  Watched = {0, 1}
  None = None
SYMMETRY Symmetry
INVARIANTS TypeOK CyclesNeedASweep SweepSuffices
PROPERTY ImplementsMerchantBook
