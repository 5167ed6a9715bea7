SPECIFICATION Spec
CONSTANTS
  None = None
  MaxMoves = 4
\* accounts
  Requests = {r1, r2}
  Emails = {"a", "b"}
  Passwords = {"p", "q"}
  Free = Free
  Unread = Unread
  EnvAdmins <- Ops
  MaxSaves = 4
\* scope
  Projects <- TwoProjects
  LastEnv = "p1"
  NewProject = "n"
  NewEnvs = {"n1", "n2"}
  Activity <- EventsOf
  Today = 10
  ScopeMoves = 2
\* transfer
  TransferEnvs = {"ep", "eq"}
  Records <- TwoFlags
  Releases <- OneRelease
  Files <- ThreeFiles
  TransferKeys = {"a", "b", "c"}
  MaxCells = 60
\* backups
  Targets = {"", "a", "b"}
  NoTarget = ""
  Secrets = {"s", "t"}
  Reachable <- OneReachable
  Names = {"x"}
  BadFile = "bad"
\* schedule
  Takes <- Parsed
  Crons <- Typed
  Keeps <- KeepsTyped
  Hours = {0, 23}
  Minutes = {0, 59}
  ScheduleDays = {0, 6, 31, 32}
\* rule
  RuleFlags <- Texts
  Rules <- TwoRules
  Kind <- KindOf
  TypedConds <- Conds
  TypedValues <- GoodAndBad
  MAX_CONDS = 3
\* form
  FormFlags <- NumberAndJson
  Experiments <- InThirds
  Defaults <- ThreeDefaults
  Keys = {"k", "1"}
  FormKeys = {"k"}
  VariantNames = {"", "b"}
  Weights <- SixWeights
  VariantValues <- TwoValues
  MAX_VARIANT_ROWS = 3
\* session
  Admins = {"a", "b"}
  Modes = {"standard", "sso"}
  SetupToken = FALSE
\* limits
  Rates <- RatesTyped
  Lists <- SevenLists
  Headers <- ThreeHeaders
  GoodHeaders = {"h", "std"}
  DefaultHeaders = "std"
  W = 3
  Address <- Own
  MaxAllowed = 2
  Ceiling = 100
\* keys
  KeyEnvs = {"e", "f"}
  KeyRates <- KeyRatesTyped
  GlobalRate = 50
  MaxKeys = 2
\* logs
  Kinds = {"level", "reason"}
  LogValues = {"a", "b"}
  Logs <- TwoLogs
  Switches = {"enabled", "successLogs"}
  LogDays <- DaysTyped
  PER_PAGE = 1
CHECK_DEADLOCK FALSE
INVARIANTS
  SettledPages
  NumbersTrue
  SessionSettles
  OnlyValid
  PasswordEndsSessions
PROPERTIES
  OneFirstAdmin
