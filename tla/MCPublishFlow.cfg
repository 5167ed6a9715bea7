SPECIFICATION Spec
CONSTANTS
  dev = dev
  prod = prod
  NoScope = NoScope
  Envs <- MCEnvs
  Seed <- MCSeed
  Keys = {"b"}
  MaxMoves = 2
  MaxReleases = 3
SYMMETRY MCSymmetry
CHECK_DEADLOCK FALSE
INVARIANTS
  AppliedAsShown
  KeptUntilConfirmed
  StoredAsShown
  ListedAsApplied
