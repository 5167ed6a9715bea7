SPECIFICATION Spec
CONSTANTS
  Procs = {p1}
  Serving = {p1}
  Lookups = {l1}
  Writers = {w1}
  Names = {n1}
  Ids = {f1}
  Unknown = unknown
  TTL = 1
  ReadFails = {FALSE}
  Cap = 2
  MaxTime = 1
CHECK_DEADLOCK FALSE
INVARIANTS
  FlipsImmediately
