SPECIFICATION Spec
CONSTANTS
  Sessions = {s1, s2}
  Requests <- SweepFirstRequests
  Tiers <- MCTiers
  Buffer = 1
  Pledge = 1
  Opening = 1
  Watched = {0, 1}
  None = None
SYMMETRY Symmetry
INVARIANT PendingIsInProgress
