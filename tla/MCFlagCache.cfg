SPECIFICATION Spec
CONSTANTS
  Procs = {p1, p2}
  Serving = {p1}
  Lookups = {l1, l2}
  Writers = {w1}
  Names = {n1, n2, n3}
  Ids = {f1, f2}
  Unknown = unknown
  TTL = 1
  ReadFails = {TRUE, FALSE}
  Cap = 2
  MaxTime = 2
SYMMETRY Symmetry
INVARIANTS
  StalenessBounded
  CacheBounded
