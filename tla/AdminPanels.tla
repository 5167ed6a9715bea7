---------------------------- MODULE AdminPanels ----------------------------
(***************************************************************************)
(* The panels of the admin page.  A page shows one panel at a time and     *)
(* panels share no state but the selection of AdminScope, so every         *)
(* behaviour is one of a single panel: `panel` says which, `st` is the     *)
(* variable of its module.  The invariants of the panels are grouped here  *)
(* by what they are about.  The server behind the accounts panel is one    *)
(* more part, with the variables of module Accounts.                       *)
(***************************************************************************)
EXTENDS Accounts, Integers, Sequences, FiniteSets

(* The constants of each panel; those of one name in its module and in     *)
(* that of another have the panel's here.  The admin is patient.           *)
CONSTANTS
    None, MaxMoves,
    Projects, LastEnv, NewProject, NewEnvs, Activity, Today, ScopeMoves,
    TransferEnvs, Records, Releases, Files, TransferKeys, MaxCells,
    Targets, NoTarget, Secrets, Reachable, Names, BadFile,
    Takes, Crons, Keeps, Hours, Minutes, ScheduleDays,
    RuleFlags, Rules, Kind, TypedConds, TypedValues, MAX_CONDS,
    FormFlags, Experiments, Defaults, Keys, FormKeys, VariantNames, Weights, VariantValues, MAX_VARIANT_ROWS,
    Admins, Modes, SetupToken,
    Rates, Lists, Headers, GoodHeaders, DefaultHeaders, W, Address, MaxAllowed, Ceiling,
    KeyEnvs, KeyRates, GlobalRate, MaxKeys,
    Kinds, LogValues, Logs, Switches, LogDays, PER_PAGE

VARIABLES panel, st

-----------------------------------------------------------------------------
Scope == INSTANCE AdminScope WITH scope <- st, Seed <- Projects, MaxMoves <- ScopeMoves

Transfer == INSTANCE AdminTransfer WITH
    transfer <- st, NoScope <- None, Envs <- TransferEnvs, ValidKeys <- TransferKeys

Backups == INSTANCE AdminBackups WITH backups <- st, Patient <- TRUE

Schedule == INSTANCE BackupSchedule WITH schedule <- st, ServerTakes <- Takes, Days <- ScheduleDays

Rule == INSTANCE RuleEditor WITH editor <- st, Flags <- RuleFlags, NoRule <- None

Form == INSTANCE FlagForms WITH
    form <- st, Flags <- FormFlags, ValidKeys <- FormKeys, Values <- VariantValues, NoId <- None

Session == INSTANCE AdminSession WITH session <- st, Accounts <- Admins, Patient <- TRUE

Limits == INSTANCE AdminLimits WITH limits <- st, Blank <- None, Patient <- TRUE

SdkKeys == INSTANCE AdminKeys WITH keys <- st, Envs <- KeyEnvs, Rates <- KeyRates, Patient <- TRUE

ServerLog == INSTANCE AdminLogs WITH logs <- st, Values <- LogValues, Days <- LogDays, Patient <- TRUE

-----------------------------------------------------------------------------
AList(s) == s \in Seq({s[i] : i \in DOMAIN s})

(* None is no verdict or refusal, no setting of the log, no mode of the    *)
(* server and no session.  A flag has one of the types (a select,          *)
(* 1787875200_init_configwire.go:285-299), and conditions are lists.       *)
ASSUME PanelsAssumption ==
    /\ None \notin {"ok", "bad", "denied", "sso"}
    /\ None \notin [on : SUBSET Switches, days : 1 .. 1825]
    /\ None \notin Modes /\ None \notin [who : Admins, key : Nat]
    /\ \A f \in DOMAIN FormFlags : FormFlags[f].type \in Form!Types
    /\ MAX_CONDS \in Nat
    /\ \A t \in TypedConds : AList(t.conds)
    /\ \A r \in DOMAIN Rules : AList(Rules[r].condition.conds)

-----------------------------------------------------------------------------
InitPanel ==
    \/ panel = "scope"    /\ Scope!Init
    \/ panel = "transfer" /\ Transfer!Init
    \/ panel = "backups"  /\ Backups!Init
    \/ panel = "schedule" /\ Schedule!Init
    \/ panel = "rule"     /\ Rule!Init
    \/ panel = "form"     /\ Form!Init
    \/ panel = "session"  /\ Session!Init
    \/ panel = "limits"   /\ Limits!Init
    \/ panel = "keys"     /\ SdkKeys!Init
    \/ panel = "log"      /\ ServerLog!Init

Init ==
    /\ AccountsInit
    /\ \/ InitPanel
       \/ panel = "accounts" /\ st = None

NextPanel ==
    /\ UNCHANGED accountVars
    /\ \/ panel = "scope"    /\ Scope!Next
       \/ panel = "transfer" /\ Transfer!Next
       \/ panel = "backups"  /\ Backups!Next
       \/ panel = "schedule" /\ Schedule!Next
       \/ panel = "rule"     /\ Rule!Next
       \/ panel = "form"     /\ Form!Next
       \/ panel = "session"  /\ Session!Next
       \/ panel = "limits"   /\ Limits!Next
       \/ panel = "keys"     /\ SdkKeys!Next
       \/ panel = "log"      /\ ServerLog!Next

Next ==
    /\ UNCHANGED panel
    /\ \/ NextPanel
       \/ panel = "accounts" /\ AccountsNext /\ UNCHANGED st

Spec == Init /\ [][Next]_<<panel, st, accountVars>>

-----------------------------------------------------------------------------
(* Whatever the order of answers, clicks and edits of a patient admin, who *)
(* waits for the answers of a card before the next click on it, a card at  *)
(* rest says what the server has, unless an edit or a lost answer says     *)
(* otherwise (backups.js, rules.js, limits.js, keys.js, logs.js).  Nor     *)
(* does a card change what passes through it unseen: a schedule survives   *)
(* the controls of its dialog, and saving a bucket keeps the secret the    *)
(* page never saw (backups.js).                                            *)
SettledPages ==
    /\ panel = "backups"  => Backups!CardSettles /\ Backups!SecretKept
    /\ panel = "schedule" => Schedule!ScheduleShown /\ Schedule!HelperRoundTrip
    /\ panel = "rule"     => Rule!BuilderAgrees
    /\ panel = "limits"   => Limits!LimitsShown
    /\ panel = "keys"     => SdkKeys!KeysShown
    /\ panel = "log"      => ServerLog!LogsShown /\ ServerLog!SettingsShown

(* Nor is the page at rest wrong about the session: it shows one surface,  *)
(* the right one for who is signed in, and believes to be signed in only   *)
(* with a cookie, and the accounts it lists are those there are (core.js,  *)
(* auth.js, account.js).  With a setup token a refused setup shows a       *)
(* second form.                                                            *)
SessionSettles == panel = "session" => (~SetupToken => Session!OneSurface) /\ Session!SessionTrue

(* What the page computes is right.  At rest, a reload comes back to what  *)
(* is selected, sidebar and address lead to the selected project, and the  *)
(* releases are those of the selected environment, one of the menu; not    *)
(* claimed is that the menu is the selected project's, as a late list of   *)
(* the project that was left can be in it (AdminScope!ScopeSelected).  The *)
(* cards of the home view count right (router.js, core.js).  The weights   *)
(* of variants are shown as they are saved and make up the whole however   *)
(* they were rounded, unless the page cut an experiment to the rows it has *)
(* (experiments.js).  The admin's own address is not said to be admitted   *)
(* when the allowlist refuses it (limits.js).  And the drafts of an        *)
(* imported file: the export then gives the file, and the view of the      *)
(* drafts shows the difference (transfer.js).                              *)
NumbersTrue ==
    /\ panel = "scope"    => Scope!OneScope /\ Scope!HomeCounts
    /\ panel = "form"     => Form!WeightsShown /\ Form!StagedVariantsValid
    /\ panel = "limits"   => Limits!BadgeTrue
    /\ panel = "transfer" => Transfer!ImportRoundTrip /\ Transfer!ViewTrue

(* However a patient admin clicked and typed it together, what the page    *)
(* writes and sends the server takes: operators their fields have          *)
(* (rules.js); the default a flag's dialog opens with or switches to, not  *)
(* one that is typed after that (flags.js); bucket settings, saved only    *)
(* over fields that were checked (backups.js); and limits, but for a rate  *)
(* above the plan's ceiling and an entry that is no address (limits.js).   *)
OnlyValid ==
    /\ panel = "rule"    => Rule!RowsValid
    /\ panel = "form"    => Form!DefaultOfType
    /\ panel = "backups" => Backups!SaveOnlyChecked
    /\ panel = "limits"  => Limits!SendsTaken
=============================================================================
