------------------------------ MODULE Releases ------------------------------
(***************************************************************************)
(* Publish, rollback and promote (releases/handler.go) over the releases   *)
(* collection, with the main.go hooks that guard it.                       *)
(*                                                                         *)
(* Each request is a goroutine of one server process.  It resolves its     *)
(* environment before it takes the process-wide writeMu, then reads and    *)
(* writes the database in the order of the handler; every database call is *)
(* a step of its own, because requests of another process, environment     *)
(* deletes and flag edits are not under writeMu.  Several processes may    *)
(* share one database file: writeMu does not reach across them, the UNIQUE *)
(* index on (env, version) does.                                           *)
(*                                                                         *)
(* A snapshot is represented by the generations of the two halves it is    *)
(* assembled from: the flags read, and the rules (with the experiments)    *)
(* read after it.                                                          *)
(***************************************************************************)
EXTENDS EnvResolve

CONSTANTS
    Reqs,        \* admin requests
    Procs,       \* server processes on one database file
    Nobody,      \* writeMu is free
    Bases,       \* baseVersion values clients send
    MaxEdits,    \* bound on the edits of one project's flags, and of its rules
    BadRules,    \* rule generations that ValidateSnapshot rejects
    Seed,        \* release rows the database holds at boot
    BootConfig   \* project -> generations of its flags and rules at boot

VARIABLES
    environments,   \* live rows of the environments collection
    config,         \* project -> generations of its live flags and rules
    releases,       \* rows of the releases collection
    writeMu,        \* process -> request holding its releases write mutex
    pc,             \* request -> where its handler stands
    task,           \* request -> what it asks for, once resolved
    built,          \* request -> snapshot it has assembled or copied
    want,           \* request -> version it is about to write
    status          \* request -> HTTP status it answered, 0 before

vars == <<environments, config, releases, writeMu, pc, task, built, want, status>>
local == <<task, built, want>>

Snapshot == [flags : Nat, rules : Nat]
Empty == [flags |-> 0, rules |-> 0]

(* ValidateSnapshot: an env whose project has no flag has nothing to       *)
(* publish, and a bad rule (condition, value or variants) is refused.      *)
ValidSnapshot(s) == s.flags > 0 /\ s.rules \notin BadRules

(* Mutant: the etag is a hash of the bytes alone. *)
EtagOfBytes(version, s) == <<0, s>>

(* A hash over the version and the canonical bytes: it tells two releases  *)
(* apart exactly when version or bytes differ.                             *)
EtagFor(version, s) == <<version, s>>

ReleaseRow(e, v, s, author) ==
    [env |-> e, version |-> v, etag |-> EtagFor(v, s), snapshot |-> s, author |-> author]

RowsOf(e) == {x \in releases : x.env = e}
Versions(e) == {x.version : x \in RowsOf(e)}

(* MaxVersionForEnv: the largest version of e, 0 when it has no release. *)
IsMaxVersion(e, m) ==
    /\ m \in Versions(e) \union {0}
    /\ \A v \in Versions(e) : v <= m

(* What the database and the configuration of a deployment look like at    *)
(* boot: one row per version, no gap, none written by a request to come.   *)
ASSUME SeedAssumption ==
    /\ \A x \in Seed :
         /\ x.env \in Envs /\ x.version \in Nat \ {0} /\ x.snapshot \in Snapshot
         /\ x.author \notin Reqs
         /\ x = ReleaseRow(x.env, x.version, x.snapshot, x.author)
         /\ \A v \in 1..x.version : \E y \in Seed : y.env = x.env /\ y.version = v
    /\ \A x, y \in Seed : x.env = y.env /\ x.version = y.version => x = y
    /\ IsFiniteSet(Seed)

ASSUME BootAssumption ==
    /\ BootConfig \in [Projects -> Snapshot]
    /\ Bases \subseteq Nat
    /\ MaxEdits \in Nat
    /\ Nobody \notin Reqs

(* Mutant: a base that is merely not ahead is accepted. *)
CheckBaseNotAhead(base, m) == base <= m

NextVersion(m) == m + 1
CheckBaseVersion(base, m) == base = m

(* RollbackPick: the rows of (env, version); anything but one is refused. *)
Picked(e, v) == {x \in RowsOf(e) : x.version = v}

(* What a handler knows once it has resolved its environments: the target, *)
(* the environment and version it copies from, and the base it was sent.   *)
Task == [kind : {"publish", "rollback", "promote"}, proc : Procs, env : Envs,
         src : Envs, ver : Nat, base : Nat]
NoTask == [kind |-> "none"]

(* Where a handler holds its process's writeMu. *)
HoldingPCs == {"check", "pick", "destBase", "flags", "rules", "max", "save",
               "insert", "saveErr", "notify", "notifying", "respond"}

Init ==
    /\ environments = Envs
    /\ config = BootConfig
    /\ releases = Seed
    /\ writeMu = [p \in Procs |-> Nobody]
    /\ pc = [r \in Reqs |-> "idle"]
    /\ task = [r \in Reqs |-> NoTask]
    /\ built = [r \in Reqs |-> Empty]
    /\ want = [r \in Reqs |-> 0]
    /\ status = [r \in Reqs |-> 0]

-----------------------------------------------------------------------------
(* Answering before the lock is taken, and under it (deferred Unlock).     *)
Refuse(r, code) ==
    /\ pc' = [pc EXCEPT ![r] = "done"]
    /\ status' = [status EXCEPT ![r] = code]
    /\ UNCHANGED <<local, writeMu, releases, environments, config>>

(* Mutant: an early return that leaves the mutex locked. *)
AnswerKeepsLock(r, code) ==
    /\ pc' = [pc EXCEPT ![r] = "done"]
    /\ status' = [status EXCEPT ![r] = code]
    /\ UNCHANGED <<local, writeMu, releases, environments, config>>

Answer(r, code) ==
    /\ pc' = [pc EXCEPT ![r] = "done"]
    /\ status' = [status EXCEPT ![r] = code]
    /\ writeMu' = [writeMu EXCEPT ![task[r].proc] = Nobody]
    /\ UNCHANGED <<local, releases, environments, config>>

Goto(r, next) ==
    /\ pc' = [pc EXCEPT ![r] = next]
    /\ UNCHANGED <<status, writeMu, releases, environments, config>>

Accept(r, t) ==
    /\ task' = [task EXCEPT ![r] = t]
    /\ Goto(r, "lock")
    /\ UNCHANGED <<built, want>>

(* The three routes up to writeMu.Lock: decode, resolve the environments.  *)
ArriveUnresolved(r) ==
    /\ pc[r] = "idle"
    /\ \E slug \in Slugs, q \in Qualifiers :
         LET code == ResolveStatus(environments, slug, q)
         IN  code # 200 /\ Refuse(r, code)

ArrivePublish(r) ==
    /\ pc[r] = "idle"
    /\ \E p \in Procs, e \in environments, base \in Bases :
         Accept(r, [kind |-> "publish", proc |-> p, env |-> e,
                    src |-> e, ver |-> 0, base |-> base])

ArriveRollback(r) ==
    /\ pc[r] = "idle"
    /\ \E p \in Procs, e \in environments, v \in Bases :
         Accept(r, [kind |-> "rollback", proc |-> p, env |-> e,
                    src |-> e, ver |-> v, base |-> 0])

(* postPromoteEnv refuses srcVersion < 1 before it locks. *)
ArrivePromote(r) ==
    /\ pc[r] = "idle"
    /\ \E p \in Procs, e, src \in environments, v \in Bases, base \in Bases :
         IF v < 1 THEN Refuse(r, 400)
         ELSE Accept(r, [kind |-> "promote", proc |-> p, env |-> e,
                         src |-> src, ver |-> v, base |-> base])

(* Mutant: no mutex around the handlers. *)
AcquireShared(r) ==
    /\ pc[r] = "lock"
    /\ writeMu' = [writeMu EXCEPT ![task[r].proc] = r]
    /\ pc' = [pc EXCEPT ![r] = IF task[r].kind = "publish" THEN "check" ELSE "pick"]
    /\ UNCHANGED <<local, status, releases, environments, config>>

Acquire(r) ==
    /\ pc[r] = "lock"
    /\ writeMu[task[r].proc] = Nobody
    /\ writeMu' = [writeMu EXCEPT ![task[r].proc] = r]
    /\ pc' = [pc EXCEPT ![r] = IF task[r].kind = "publish" THEN "check" ELSE "pick"]
    /\ UNCHANGED <<local, status, releases, environments, config>>

-----------------------------------------------------------------------------
(* postPublish: base check, then BuildSnapshot from the live collections.  *)
PublishCheckBase(r) ==
    /\ pc[r] = "check"
    /\ \E m \in Versions(task[r].env) \union {0} :
         /\ IsMaxVersion(task[r].env, m)
         /\ IF CheckBaseVersion(task[r].base, m)
            THEN /\ want' = [want EXCEPT ![r] = NextVersion(m)]
                 /\ Goto(r, "flags")
                 /\ UNCHANGED <<task, built>>
            ELSE Answer(r, 409)

BuildFlags(r) ==
    /\ pc[r] = "flags"
    /\ built' = [built EXCEPT ![r].flags = config[ProjectOf[task[r].env]].flags]
    /\ Goto(r, "rules")
    /\ UNCHANGED <<task, want>>

(* Mutant: publish reads the version it writes after it built the snapshot. *)
BuildRulesBeforeMax(r) ==
    /\ pc[r] = "rules"
    /\ LET s == [built[r] EXCEPT !.rules = config[ProjectOf[task[r].env]].rules]
       IN  /\ ValidSnapshot(s)
           /\ built' = [built EXCEPT ![r] = s]
           /\ Goto(r, "max")
           /\ UNCHANGED <<task, want>>

BuildRules(r) ==
    /\ pc[r] = "rules"
    /\ LET s == [built[r] EXCEPT !.rules = config[ProjectOf[task[r].env]].rules]
       IN  IF ValidSnapshot(s)
           THEN /\ built' = [built EXCEPT ![r] = s]
                /\ Goto(r, "save")
                /\ UNCHANGED <<task, want>>
           ELSE Answer(r, 400)

-----------------------------------------------------------------------------
(* Rollback and promote: pick the source row, revalidate its bytes, copy   *)
(* them verbatim under the destination's next version.                     *)
CopySource(r, x, next) ==
    /\ built' = [built EXCEPT ![r] = x.snapshot]
    /\ Goto(r, next)
    /\ UNCHANGED <<task, want>>

(* Mutant: a rollback trusts the row it copies. *)
RollbackPickUnchecked(r) ==
    /\ pc[r] = "pick"
    /\ task[r].kind = "rollback"
    /\ \E x \in Picked(task[r].env, task[r].ver) : CopySource(r, x, "max")

RollbackPick(r) ==
    /\ pc[r] = "pick"
    /\ task[r].kind = "rollback"
    /\ LET rows == Picked(task[r].env, task[r].ver)
       IN  \/ rows = {} /\ Answer(r, 404)
           \/ \E x \in rows :
                IF rows = {x} /\ ValidSnapshot(x.snapshot)
                THEN CopySource(r, x, "max")
                ELSE Answer(r, 400)

PromotePick(r) ==
    /\ pc[r] = "pick"
    /\ task[r].kind = "promote"
    /\ LET rows == Picked(task[r].src, task[r].ver)
       IN  \/ rows = {} /\ Answer(r, 404)
           \/ \E x \in rows :
                IF rows = {x} /\ ProjectOf[task[r].src] = ProjectOf[task[r].env]
                THEN CopySource(r, x, "destBase")
                ELSE Answer(r, 400)

(* The check of destBaseVersion, then promoteToNewRow's validation. *)
PromoteCheckBase(r) ==
    /\ pc[r] = "destBase"
    /\ \E m \in Versions(task[r].env) \union {0} :
         /\ IsMaxVersion(task[r].env, m)
         /\ IF ~CheckBaseVersion(task[r].base, m) THEN Answer(r, 409)
            ELSE IF ~ValidSnapshot(built[r]) THEN Answer(r, 400)
            ELSE Goto(r, "max") /\ UNCHANGED local

(* rollbackToNewRow and promoteToNewRow read the destination's max again.  *)
ReadMax(r) ==
    /\ pc[r] = "max"
    /\ \E m \in Versions(task[r].env) \union {0} :
         /\ IsMaxVersion(task[r].env, m)
         /\ want' = [want EXCEPT ![r] = NextVersion(m)]
    /\ Goto(r, "save")
    /\ UNCHANGED <<task, built>>

-----------------------------------------------------------------------------
(* internalSave.  PocketBase validates the env relation, then inserts, and *)
(* holds no transaction around the two.                                    *)
SaveValidate(r) ==
    /\ pc[r] = "save"
    /\ task[r].env \in environments
    /\ Goto(r, "insert")
    /\ UNCHANGED local

(* Mutants: the etag is stamped before the version is known; the UNIQUE    *)
(* index on (env, version) is missing.                                     *)
InsertEarlyEtag(r) ==
    /\ pc[r] = "insert"
    /\ want[r] \notin Versions(task[r].env)
    /\ releases' = releases \union
         {[ReleaseRow(task[r].env, want[r], built[r], r) EXCEPT !.etag = EtagFor(0, built[r])]}
    /\ pc' = [pc EXCEPT ![r] = "notify"]
    /\ UNCHANGED <<local, status, writeMu, environments, config>>

InsertNoIndex(r) ==
    /\ pc[r] = "insert"
    /\ releases' = releases \union {ReleaseRow(task[r].env, want[r], built[r], r)}
    /\ pc' = [pc EXCEPT ![r] = "notify"]
    /\ UNCHANGED <<local, status, writeMu, environments, config>>

Insert(r) ==
    /\ pc[r] = "insert"
    /\ want[r] \notin Versions(task[r].env)       \* idx_releases_env_version
    /\ releases' = releases \union {ReleaseRow(task[r].env, want[r], built[r], r)}
    /\ pc' = [pc EXCEPT ![r] = "notify"]
    /\ UNCHANGED <<local, status, writeMu, environments, config>>

(* Mutants: a failing hook fails a save that is committed; the hook runs   *)
(* for a save that failed.                                                 *)
SaveFailsCommitted(r) ==
    /\ pc[r] \in {"save", "insert", "notify"}
    /\ Goto(r, "saveErr")
    /\ UNCHANGED local

SaveFailsNotifies(r) ==
    /\ pc[r] \in {"save", "insert"}
    /\ Goto(r, "notify")
    /\ UNCHANGED local

(* A missing environment, a version taken by another process, or a storage *)
(* error: the row is not written.                                          *)
SaveFails(r) ==
    /\ pc[r] \in {"save", "insert"}
    /\ Goto(r, "saveErr")
    /\ UNCHANGED local

(* An error the handler just returns (500 stands for whatever PocketBase's *)
(* error handler makes of it); rollback and promote answer 400 to those of *)
(* the function that writes the copy.                                      *)
PassOn(r) ==
    Answer(r, IF task[r].kind # "publish" /\ pc[r] \in {"max", "saveErr"} THEN 400 ELSE 500)

(* A read of the database fails. *)
ReadFails(r) ==
    /\ pc[r] \in {"check", "flags", "rules", "pick", "destBase", "max", "saveErr"}
    /\ PassOn(r)

(* mapVersionConflict: a version lost to another writer is the stale-base  *)
(* 409; any other failure is passed on.                                    *)
MapVersionConflict(r) ==
    /\ pc[r] = "saveErr"
    /\ \E m \in Versions(task[r].env) \union {0} :
         /\ IsMaxVersion(task[r].env, m)
         /\ IF m >= want[r] THEN Answer(r, 409) ELSE PassOn(r)

(* The after-create hook of stream.RegisterHook runs inside the save, so   *)
(* under writeMu: it starts the fan-out, and the save returns after it.    *)
NotifyStart(r) ==
    /\ pc[r] = "notify"
    /\ Goto(r, "notifying")
    /\ UNCHANGED local

NotifyEnd(r) ==
    /\ pc[r] = "notifying"
    /\ Goto(r, "respond")
    /\ UNCHANGED local

Respond(r) ==
    /\ pc[r] = "respond"
    /\ Answer(r, 200)

-----------------------------------------------------------------------------
(* What runs beside the handlers.                                          *)

(* Admins edit flags, and rules or experiments, through the data API.      *)
Edit(p, half) ==
    /\ \E e \in environments : ProjectOf[e] = p
    /\ config[p][half] < MaxEdits
    /\ config' = [config EXCEPT ![p][half] = @ + 1]
    /\ UNCHANGED <<environments, releases, writeMu, pc, status, local>>

(* Deleting environments cascades to their releases in one transaction.    *)
Remove(gone) ==
    /\ environments' = environments \ gone
    /\ releases' = {x \in releases : x.env \notin gone}
    /\ UNCHANGED <<writeMu, pc, status, local>>

(* A project's last environment stays, unless the project itself goes.     *)
DeleteEnv(e) ==
    /\ e \in environments
    /\ \E d \in environments \ {e} : ProjectOf[d] = ProjectOf[e]
    /\ Remove({e})
    /\ UNCHANGED config

DeleteProject(p) ==
    /\ \E e \in environments : ProjectOf[e] = p
    /\ Remove({e \in environments : ProjectOf[e] = p})
    /\ config' = [config EXCEPT ![p] = Empty]

(* Mutant: any release can be deleted through the data API. *)
DirectDeleteAny(x) ==
    /\ releases' = releases \ {x}
    /\ UNCHANGED <<environments, config, writeMu, pc, status, local>>

(* A direct write to releases: creates and updates are always denied, a    *)
(* delete passes only for a row whose environment is gone.                 *)
DirectDelete(x) ==
    /\ x.env \notin environments
    /\ releases' = releases \ {x}
    /\ UNCHANGED <<environments, config, writeMu, pc, status, local>>

(* The process dies and restarts: its requests end with no answer.         *)
InFlight(p) == {r \in Reqs : pc[r] \notin {"idle", "done"} /\ task[r].proc = p}

Crash(p) ==
    /\ InFlight(p) # {}
    /\ pc' = [r \in Reqs |-> IF r \in InFlight(p) THEN "done" ELSE pc[r]]
    /\ writeMu' = [writeMu EXCEPT ![p] = Nobody]
    /\ UNCHANGED <<local, status, releases, environments, config>>

AllAnswered == (\A r \in Reqs : pc[r] = "done") /\ UNCHANGED vars

-----------------------------------------------------------------------------
Arrive(r) ==
    \/ ArriveUnresolved(r) \/ ArrivePublish(r)
    \/ ArriveRollback(r) \/ ArrivePromote(r)

Handle(r) ==
    \/ Acquire(r)
    \/ PublishCheckBase(r) \/ BuildFlags(r) \/ BuildRules(r)
    \/ RollbackPick(r) \/ PromotePick(r) \/ PromoteCheckBase(r) \/ ReadMax(r)
    \/ SaveValidate(r) \/ Insert(r) \/ SaveFails(r) \/ MapVersionConflict(r)
    \/ ReadFails(r) \/ Respond(r)

Notify(r) == NotifyStart(r) \/ NotifyEnd(r)

Environment ==
    \/ \E p \in Projects : DeleteProject(p) \/ Edit(p, "flags") \/ Edit(p, "rules")
    \/ \E e \in Envs : DeleteEnv(e)
    \/ \E x \in releases : DirectDelete(x)

Next ==
    \/ \E r \in Reqs : Arrive(r) \/ Handle(r) \/ Notify(r)
    \/ \E p \in Procs : Crash(p)
    \/ Environment
    \/ AllAnswered

Spec == Init /\ [][Next]_vars

(* A handler keeps running once its request has arrived, and sync.Mutex    *)
(* hands the lock to every waiter.                                         *)
FairSpec == Spec /\ \A r \in Reqs : WF_vars(Handle(r) \/ Notify(r))

-----------------------------------------------------------------------------
(* Every variable has its type, and a request that passed resolution knows *)
(* what it asks for.                                                       *)
TypeOK ==
    /\ environments \subseteq Envs
    /\ config \in [Projects -> Snapshot]
    /\ \A x \in releases :
         /\ x.env \in Envs /\ x.version \in Nat \ {0} /\ x.snapshot \in Snapshot
         /\ x = ReleaseRow(x.env, x.version, x.snapshot, x.author)
    /\ writeMu \in [Procs -> Reqs \union {Nobody}]
    /\ pc \in [Reqs -> {"idle", "lock", "done"} \union HoldingPCs]
    /\ task \in [Reqs -> Task \union {NoTask}]
    /\ \A r \in Reqs : pc[r] \notin {"idle", "done"} => task[r] \in Task
    /\ built \in [Reqs -> Snapshot]
    /\ want \in [Reqs -> Nat]
    /\ status \in [Reqs -> {0, 200, 400, 404, 409, 500}]

(* writeMu is a mutex: a handler past the lock of its process holds it, so *)
(* two requests of one process are never both inside.                      *)
LockHeld ==
    \A r \in Reqs : pc[r] \in HoldingPCs => writeMu[task[r].proc] = r

(* The versions of a live environment are exactly 1..n, each with one row: *)
(* no version is reused, skipped, or written twice, whoever publishes      *)
(* (handler.go:28-33: "versions are never oversold").                      *)
VersionsUnique ==
    \A x, y \in releases : x.env = y.env /\ x.version = y.version => x = y

VersionsGapFree ==
    \A x \in releases : x.env \in environments =>
        \A v \in 1..x.version : v \in Versions(x.env)

VersionsContiguous == VersionsUnique /\ VersionsGapFree

(* A 200 names a row that is in the collection as answered, while its      *)
(* environment lives; any refusal wrote nothing ("409 (stale baseVersion,  *)
(* NO write)", handler.go:116-117).                                        *)
AnswersMatchLog ==
    \A r \in Reqs :
        LET mine == {x \in releases : x.author = r}
        IN  /\ status[r] = 200 /\ task[r].env \in environments =>
                 mine = {ReleaseRow(task[r].env, want[r], built[r], r)}
            /\ status[r] \in {400, 404, 409, 500} => mine = {}

(* Of several requests sent with one base version of one live environment, *)
(* one wins: publishes always, and promotes too within a single process.   *)
(* (promoteToNewRow reads the max again after the base check, and writeMu  *)
(* keeps the two reads equal only inside one process.)                     *)
Based(r) == status[r] = 200 /\ task[r].kind \in {"publish", "promote"}

OneWinnerPerBase ==
    \A r, s \in Reqs :
        /\ Based(r) /\ Based(s)
        /\ task[r].env = task[s].env /\ task[r].env \in environments /\ task[r].base = task[s].base
        /\ \/ task[r].proc = task[s].proc
           \/ task[r].kind = "publish" /\ task[s].kind = "publish"
        => r = s

(* A newer publish never carries an older configuration: neither half of a *)
(* later release was read before the same half of an earlier one, although *)
(* the flags change while handlers run and the build is no transaction.    *)
Published(x) == x.author \in Reqs /\ task[x.author].kind = "publish"

NoStaleRepublish ==
    \A x, y \in releases :
        /\ x.env = y.env /\ x.env \in environments
        /\ Published(x) /\ Published(y) /\ x.version < y.version
        => x.snapshot.flags <= y.snapshot.flags /\ x.snapshot.rules <= y.snapshot.rules

(* No route writes a snapshot that fails validation, even when an older    *)
(* server left such a row to copy from (handler.go:306-315).               *)
ServedSnapshotsValid ==
    \A x \in releases \ Seed : ValidSnapshot(x.snapshot)

(* A rollback or promote row is the source row byte for byte, while the    *)
(* source environment lives, under an etag of its own in its environment.  *)
CopiesVerbatim ==
    \A x \in releases : x.author \in Reqs /\ ~Published(x) =>
        LET t == task[x.author]
        IN  /\ t.src \in environments =>
                 \E y \in Picked(t.src, t.ver) : y.snapshot = x.snapshot
            /\ \A y \in RowsOf(x.env) \ {x} : y.etag # x.etag

(* The collection implements the per-environment append-only log.  A gap   *)
(* in the versions would show as an element no log may hold.               *)
Gap == [flags |-> MaxEdits + 1, rules |-> MaxEdits + 1]

SomeRow(rows) == CHOOSE x \in rows : TRUE
Logged(e, v) == IF Picked(e, v) = {} THEN Gap ELSE SomeRow(Picked(e, v)).snapshot
Log == [e \in environments |-> [v \in 1..Cardinality(RowsOf(e)) |-> Logged(e, v)]]

(* What a snapshot may be assembled from, and what the seed holds already. *)
Generations ==
    0..MaxEdits \union {BootConfig[p].flags : p \in Projects}
                \union {BootConfig[p].rules : p \in Projects}
LogSnapshots ==
    [flags : Generations, rules : Generations] \union {x.snapshot : x \in Seed}

Abstract == INSTANCE ReleaseLog WITH Snapshots <- LogSnapshots, log <- Log

ImplementsReleaseLog == Abstract!Spec

(* Every request that has arrived ends: it is answered, or its process     *)
(* died under it.  No path leaves writeMu locked.                          *)
EveryRequestEnds == \A r \in Reqs : pc[r] = "lock" ~> pc[r] = "done"
=============================================================================
