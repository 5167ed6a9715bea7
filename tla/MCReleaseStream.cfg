SPECIFICATION StreamSpec
CONSTANTS
  dev = dev
  pA = pA
  any = any
  Envs = {dev}
  SlugOf <- MCSlugOf
  ProjectOf <- MCProjectOf
  AnyProject = any
  Reqs = {r1, r2}
  Procs = {p1}
  Nobody = nobody
  Bases = {1}
  MaxEdits = 0
  BadRules = {2}
  Seed <- MCSeed
  BootConfig <- MCBootConfig
  Streams = {c1, c2}
  Notifiers = {r1, r2}
  Clients = {}
  KeyOf <- MCKeyOf
  EnvOf <- MCEnvOf
  ChanCap = 1
  MaxStreamsPerKey = 1
SYMMETRY Symmetry
CHECK_DEADLOCK FALSE
INVARIANTS
  UpdatesInOrder
  UpdatesCommitted
  NoSilentGap
