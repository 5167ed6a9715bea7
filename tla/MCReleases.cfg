SPECIFICATION Spec
CONSTANTS
  dev = dev
  prod = prod
  pA = pA
  any = any
  Envs = {dev, prod}
  SlugOf <- MCSlugOf
  ProjectOf <- MCProjectOf
  AnyProject = any
  Reqs = {r1, r2}
  Procs = {p1, p2}
  Nobody = nobody
  Bases = {1, 2}
  MaxEdits = 1
  BadRules = {2}
  BootConfig <- MCBootConfig
  Seed <- MCSeed
SYMMETRY Symmetry
INVARIANTS
  TypeOK
  VersionsContiguous
  AnswersMatchLog
  OneWinnerPerBase
  NoStaleRepublish
  ServedSnapshotsValid
  CopiesVerbatim
PROPERTIES
  ImplementsReleaseLog
