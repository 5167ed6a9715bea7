SPECIFICATION StreamFairSpec
CONSTANTS
  dev = dev
  pA = pA
  any = any
  Envs = {dev}
  SlugOf <- MCSlugOf
  ProjectOf <- MCProjectOf
  AnyProject = any
  Reqs = {r1, r2}
  Procs = {p1}
  Nobody = nobody
  Bases = {1}
  MaxEdits = 1
  BadRules = {2}
  Seed <- MCSeed
  BootConfig <- MCBootConfig
  Streams = {}
  Notifiers = {r1, r2}
  Clients = {sdk}
  KeyOf <- MCKeyOf
  EnvOf <- MCEnvOf
  ChanCap = 1
  MaxStreamsPerKey = 1
CHECK_DEADLOCK FALSE
PROPERTIES
  ClientsCatchUp
  EveryRequestEnds
  ClientsMonotonic
INVARIANTS
  NotModifiedIsCurrent
