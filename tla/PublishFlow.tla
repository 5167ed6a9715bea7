---------------------------- MODULE PublishFlow -----------------------------
(***************************************************************************)
(* From a staged change to a release: the admin page (flags.js, rules.js,  *)
(* experiments.js, releases.js and the publish card of boot.js) over the   *)
(* draft store of module Drafts and the server's records.                  *)
(*                                                                         *)
(* Publishing first applies the drafts, one request at a time, and removes *)
(* each draft when its request is confirmed; then it asks for a release.   *)
(* Lists are loaded in the background and their answers come in any order; *)
(* a request or its answer may be lost; the page may be reloaded or show   *)
(* another environment at any moment.                                      *)
(***************************************************************************)
EXTENDS FlagTables, Sequences

CONSTANTS
    Envs,          \* environments of the one project
    Seed,          \* the server's records at first: kind -> id -> record
    Keys,          \* flag keys the admin types
    MaxMoves,      \* bound: staged changes, environment switches, reloads, faults, ...
    MaxReleases    \* bound: releases of one environment

(* No environment has the name of none: lastRestoreScope is null or a key. *)
ASSUME ScopeAssumption == NoScope \notin Envs

(* The server's records at first have ids that it gave out, and relations  *)
(* that exist: a flag is in a group or in none, a rule or an experiment    *)
(* hangs on a flag.                                                        *)
FirstId == 10
Issued(kind, next) == {Live(kind, n) : n \in 0..next - 1}

Relates(rec, groups, flags) ==
    /\ "group" \in DOMAIN rec => rec.group \in groups \union {NoRef}
    /\ "flag" \in DOMAIN rec => rec.flag \in flags

HasRelation(kind, rec) ==
    /\ kind = "flag" => "group" \in DOMAIN rec
    /\ kind \in {"rule", "experiment"} => "flag" \in DOMAIN rec

(* A record is a function on its fields and nothing besides. *)
Record(rec) == rec = [f \in DOMAIN rec |-> rec[f]]

ASSUME SeedAssumption ==
    /\ DOMAIN Seed = DraftKinds
    /\ \A k \in DraftKinds :
          /\ DOMAIN Seed[k] \subseteq Issued(k, FirstId)
          /\ \A id \in DOMAIN Seed[k] : /\ Record(Seed[k][id]) /\ HasRelation(k, Seed[k][id])
                                        /\ Relates(Seed[k][id], DOMAIN Seed.group, DOMAIN Seed.flag)

VARIABLES
    b,             \* the browser: memory, loaded lists, localStorage
    page,          \* what is on screen and in flight from this page
    run,           \* the apply run
    inbox,         \* list answers that have not been delivered
    live,          \* the server's records
    nextId,        \* the server's next record id
    released,      \* environment -> the snapshots released in it, oldest first
    moves          \* how much of the first bound is used up

vars == <<b, page, run, inbox, live, nextId, released, moves>>

Nothing == <<>>
Dangling == <<"dangling">>
Version(e) == Len(released[e])

IdleRun == [phase |-> "idle", todo |-> {}, sent |-> Nothing, map |-> <<>>, born |-> <<>>,
            calm |-> FALSE, goal |-> <<>>, env |-> NoScope, shared |-> FALSE, moot |-> {}]

NoDialog == <<>>
EmptyPage == [dirty |-> FALSE, button |-> FALSE, rows |-> {}, applying |-> FALSE, gen |-> 0,
              shownEnv |-> NoScope, versions |-> [x \in Envs |-> 0], promote |-> NoDialog]

Init ==
    /\ live = Seed
    /\ nextId = FirstId
    /\ released = [e \in Envs |-> <<Seed, Seed>>]
    /\ \E e \in Envs :
          /\ b = [env |-> e, last |-> e, drafts |-> ensureDraftShape, seq |-> 0,
                  lists |-> Seed, store |-> [x \in Envs |-> NothingSaved]]
          /\ page = [EmptyPage EXCEPT !.shownEnv = e, !.versions = [x \in Envs |-> 2]]
    /\ run = IdleRun
    /\ inbox = {}
    /\ moves = 0

Move == moves < MaxMoves /\ moves' = moves + 1

(* The publish card for browser c: buttons and list of unpublished changes. *)
ButtonOnly(p, c, dirty) == [p EXCEPT !.dirty = dirty, !.button = dirty]    \* mutant: the list is not drawn anew
setPublishState(p, c, dirty) ==
    [p EXCEPT !.dirty = dirty, !.button = dirty, !.rows = renderUnpublishedList(c)]

setApplying(p, applying) ==
    [p EXCEPT !.applying = applying, !.button = ~applying /\ p.dirty]

(* The card is open exactly if there are drafts. *)
refreshDraftChrome(p, c) == setPublishState(p, ensureScope(c), hasDrafts(c))

-----------------------------------------------------------------------------
(* Staging from the dialogs and menus: no request is made.                 *)

(* A step of a running apply holds the entry itself: merging into it       *)
(* changes the step, unless the buckets were read anew from the store by a *)
(* list or by a look at another scope.                                     *)
StillShared == run.shared /\ b.last = scopeKey(b)

Follow(kind, op, id, c) ==
    LET merged == /\ op = "update" /\ StillShared
                  /\ OpOf(b.drafts[kind], id) \in {"create", "update"}
                  /\ id \in DOMAIN c.drafts[kind]
    IN [run EXCEPT !.calm = FALSE, !.shared = StillShared,
          !.todo = {IF merged /\ s.kind = kind /\ s.id = id
                    THEN [s EXCEPT !.body = c.drafts[kind][id].body] ELSE s : s \in @}]

Staged(kind, op, id, c) ==
    /\ Move
    /\ b' = c
    /\ page' = refreshDraftChrome(page, c)
    /\ run' = IF run.phase \in {"applying", "publishing"} THEN Follow(kind, op, id, c) ELSE IdleRun
    /\ UNCHANGED <<inbox, live, nextId, released>>

Stage(kind, op, id, body, members) ==
    Staged(kind, op, id, draftStage(b, kind, op, id, body, members))

(* The dialog sends every field; a changed default value stands for all.   *)
saveFlag ==
    \/ \E k \in Keys, g \in renderFlagGroupSelect(b) :
          Stage("flag", "create", NoRef, [key |-> k, group |-> g, value |-> 0], {})
    \/ \E f \in DOMAIN mergedFlags(b), v \in {0, 1} :
          Stage("flag", "update", f, [mergedFlags(b)[f].rec EXCEPT !.value = v], {})

moveFlag ==
    \E fold \in renderFlagFolders(b) : \E row \in fold.rows : \E g \in row.moves \ {fold.group} :
        Stage("flag", "update", row.flag, [group |-> g], {})

deleteFlag == \E f \in DOMAIN mergedFlags(b) : Stage("flag", "delete", f, <<>>, {})

promptCreateGroup == Stage("group", "create", NoRef, [name |-> "new"], {})

renameGroup ==
    \E g \in DOMAIN mergedGroups(b), n \in {"old", "renamed"} :
        /\ mergedGroups(b)[g].rec.name # n
        /\ Stage("group", "update", g, [name |-> n], {})

(* The members shown are noted with the delete. *)
deleteGroup ==
    \E g \in DOMAIN mergedGroups(b) :
        Stage("group", "delete", g, <<>>, flagsInGroup(b, g) \intersect ValidFlags(b))

saveFlagRule ==
    \/ \E f \in DOMAIN mergedFlags(b), v \in {0, 1} :
          Stage("rule", "create", NoRef, [flag |-> f, value |-> v], {})
    \/ \E r \in DOMAIN mergedRules(b), v \in {0, 1} :
          Stage("rule", "update", r, [mergedRules(b)[r].rec EXCEPT !.value = v], {})

deleteRule ==
    \E f \in DOMAIN mergedFlags(b) : \E row \in renderFlagRulesList(b, f) :
        Stage("rule", "delete", row.rule, <<>>, {})

saveExperiment ==
    \E f \in renderFlagSelects(b) :
        Stage("experiment", "create", NoRef, [flag |-> f, status |-> "draft"], {})

setExperimentStatus ==
    \E f \in DOMAIN mergedFlags(b), s \in {"draft", "running"} :
        \E row \in renderFlagExperimentsList(b, f) :
            /\ row.status # s
            /\ Stage("experiment", "update", row.experiment, [status |-> s], {})

deleteExperiment ==
    \E f \in DOMAIN mergedFlags(b) : \E x \in flagExperimentsForActive(b, f) :
        Stage("experiment", "delete", x, <<>>, {})

(* The publish card empties the buckets in memory, after a question. *)
discardUnpublished ==
    LET c == draftClearAll(b)
    IN /\ page.button /\ ~page.applying
       /\ b' = ensureScope(c)
       /\ page' = refreshDraftChrome(page, c)
       /\ run' = IdleRun
       /\ UNCHANGED <<inbox, live, nextId, released, moves>>

-----------------------------------------------------------------------------
(* Applying the drafts. *)

(* Groups, then flags, rules and experiments; in a kind creates, updates,  *)
(* deletes; entries of one phase in the order they were staged, which the  *)
(* model leaves open.                                                      *)
Phase(s) ==
    LET At(x, seq) == CHOOSE i \in DOMAIN seq : seq[i] = x
    IN 3 * At(s.kind, <<"group", "flag", "rule", "experiment">>)
         + At(s.op, <<"create", "update", "delete">>)

AllSteps ==
    UNION {{[kind |-> k, id |-> x[1], op |-> x[2].op, body |-> x[2].body] :
               x \in draftBucketEntries(b, k)} : k \in DraftKinds}
NoDeletes == {s \in AllSteps : s.op # "delete"}    \* mutant: what is deleted stays on the server
buildApplySteps == AllSteps

NextSteps(todo) == {s \in todo : \A t \in todo : Phase(s) <= Phase(t)}

(* A temp id of a flag this run created is that flag; any other temp id    *)
(* dangles.  A group that is not in the map is sent as it stands.          *)
resolveFlagRef(ref, map) ==
    IF ref \in DOMAIN map THEN map[ref] ELSE IF isDraftTempId(ref) THEN Dangling ELSE ref
remapGroupRef(ref, map) == IF ref \in DOMAIN map THEN map[ref] ELSE ref

liveGroupMembers(g) == {f \in DOMAIN b.lists.flag : b.lists.flag[f].group = g}

Remapped(s, map) ==
    [f \in DOMAIN s.body |->
        CASE f = "group" -> remapGroupRef(s.body.group, map)
          [] f = "flag" -> resolveFlagRef(s.body.flag, map)
          [] OTHER -> s.body[f]]

Dangles(s, map) == "flag" \in DOMAIN s.body /\ resolveFlagRef(s.body.flag, map) = Dangling

(* The server: keys are unique, relations must exist, a flag takes its     *)
(* rules and experiments with it, a group leaves its flags ungrouped.      *)
Accepts(s, body) ==
    LET id == s.id
    IN /\ s.op # "create" => id \in DOMAIN live[s.kind]
       /\ "key" \in DOMAIN body =>
             \A f \in DOMAIN live.flag : live.flag[f].key = body.key => s.op = "update" /\ f = id
       /\ "group" \in DOMAIN body => body.group \in DOMAIN live.group \union {NoRef}
       /\ "flag" \in DOMAIN body => body.flag \in DOMAIN live.flag

Written(s, body) ==
    LET id == IF s.op = "create" THEN Live(s.kind, nextId) ELSE s.id
        keep == Without(live[s.kind], {id})
        On(kind) == {x \in DOMAIN live[kind] : live[kind][x].flag = id}
    IN CASE s.op = "create" -> [live EXCEPT ![s.kind] = Put(@, id, body)]
         [] s.op = "update" -> [live EXCEPT ![s.kind][id] = applyBody(@, body)]
         [] s.op = "delete" /\ s.kind = "flag" ->
              [live EXCEPT !.flag = keep, !.rule = Without(@, On("rule")),
                           !.experiment = Without(@, On("experiment"))]
         [] s.op = "delete" /\ s.kind = "group" ->
              [live EXCEPT !.group = keep,
                  !.flag = [f \in DOMAIN @ |-> IF @[f].group = id \/ f \in liveGroupMembers(id)
                                               THEN [@[f] EXCEPT !.group = NoRef] ELSE @[f]]]
         [] OTHER -> [live EXCEPT ![s.kind] = keep]

(* The request of a step: it reaches the server or is lost on the way, and *)
(* its answer may be lost on the way back.                                 *)
runApplyStep ==
    /\ run.phase = "applying" /\ run.sent = Nothing
    /\ \E s \in NextSteps(run.todo) :
          LET body == Remapped(s, run.map)
              Outcome(o) == run' = [run EXCEPT !.sent = [step |-> s, outcome |-> o, id |-> nextId]]
          IN \/ /\ Dangles(s, run.map)
                /\ Outcome("refused")
                /\ UNCHANGED <<live, nextId, moves>>
             \/ /\ ~Dangles(s, run.map) /\ ~Accepts(s, body)
                /\ Outcome("refused")
                /\ UNCHANGED <<live, nextId, moves>>
             \/ /\ ~Dangles(s, run.map) /\ Accepts(s, body)
                /\ live' = Written(s, body)
                /\ nextId' = nextId + 1
                /\ \/ Outcome("ok") /\ UNCHANGED moves
                   \/ Outcome("lost") /\ Move
             \/ /\ ~Dangles(s, run.map)
                /\ Outcome("lost") /\ Move
                /\ UNCHANGED <<live, nextId>>
    /\ UNCHANGED <<b, page, inbox, released>>

(* A confirmed step leaves the drafts; a group or flag it created is known *)
(* to the steps after it.                                                  *)
consumeDraft ==
    LET s == run.sent.step
        id == Live(s.kind, run.sent.id)
        Named(map) == Put(map, s.id, id)
    IN /\ run.phase = "applying" /\ run.sent # Nothing /\ run.sent.outcome = "ok"
       /\ b' = draftDiscard(b, s.kind, s.id)
       /\ run' = [run EXCEPT !.todo = @ \ {t \in @ : t.kind = s.kind /\ t.id = s.id},
                             !.sent = Nothing, !.shared = StillShared,
                             !.born = IF s.op = "create" THEN Named(@) ELSE @,
                             !.map = IF s.op = "create" /\ s.kind \in {"group", "flag"}
                                     THEN Named(@) ELSE @]
       /\ UNCHANGED <<page, inbox, live, nextId, released, moves>>

(* The run stops at the first step that is not confirmed; the rest of the  *)
(* drafts are kept, and saved without another look at the scope.           *)
applyFailed ==
    LET c == ensureScope(persistDrafts(b))
    IN /\ run.phase = "applying" /\ run.sent # Nothing /\ run.sent.outcome # "ok"
       /\ b' = c
       /\ page' = setApplying(refreshDraftChrome(page, c), FALSE)
       /\ run' = [run EXCEPT !.phase = "failed", !.sent = Nothing]
       /\ UNCHANGED <<inbox, live, nextId, released, moves>>

-----------------------------------------------------------------------------
(* The lists. *)

Lists(what) ==
    CASE what = "flags" -> {"flag", "group"} [] what = "rules" -> {"rule"}
      [] what = "experiments" -> {"experiment"} [] what = "releases" -> {}

(* A request: its answer may show the server as it is now, or later. *)
Ask(what, gen, then) ==
    [what |-> what, gen |-> gen, then |-> then,
     data |-> [k \in Lists(what) |-> live[k]],
     versions |-> IF what = "releases" THEN [e \in Envs |-> Version(e)] ELSE <<>>]

Now(m) == Ask(m.what, m.gen, m.then)

Loaded(c, m) == [c EXCEPT !.lists = [k \in DraftKinds |-> IF k \in DOMAIN m.data THEN m.data[k] ELSE @[k]]]

(* Records first, then the drafts of the scope over them.  The answers for *)
(* flags and groups come without a look at the generation; rules and       *)
(* experiments are asked for when the flags are there.                     *)
Shown(c) == b' = c /\ page' = refreshDraftChrome(page, c)

loadFlags ==
    \E m \in {x \in inbox : x.what = "flags"} : \E data \in {m, Now(m)} :
        /\ Shown(restoreDrafts(Loaded(b, data)))
        /\ run' = [run EXCEPT !.shared = FALSE]
        /\ inbox' = (inbox \ {m}) \union {Ask("rules", page.gen, ""), Ask("experiments", page.gen, "")}
        /\ UNCHANGED <<live, nextId, released, moves>>

Stale(m) == m.gen # page.gen
Fresh(what) == {m \in inbox : m.what = what /\ ~Stale(m)}

loadRules ==
    \E m \in Fresh("rules") : \E data \in {m, Now(m)} :
        /\ Shown(restoreDrafts(Loaded(b, data)))
        /\ run' = [run EXCEPT !.shared = FALSE]
        /\ inbox' = inbox \ {m}
        /\ UNCHANGED <<live, nextId, released, moves>>

(* Experiments of flags that are not loaded belong to other projects. *)
Mine(exps) == {x \in DOMAIN exps : exps[x].flag \in DOMAIN b.lists.flag}

loadExperiments ==
    \E m \in Fresh("experiments") : \E exps \in {m.data.experiment, Now(m).data.experiment} :
        /\ Shown(restoreDrafts([b EXCEPT !.lists.experiment = [x \in Mine(exps) |-> exps[x]]]))
        /\ run' = [run EXCEPT !.shared = FALSE]
        /\ inbox' = inbox \ {m}
        /\ UNCHANGED <<live, nextId, released, moves>>

latestVersion == page.versions[page.shownEnv]

(* The rows of the list, latest first; all of them once it is expanded.    *)
renderReleases(expanded) ==
    {v \in 1..latestVersion : expanded \/ v > latestVersion - 3}

destEnvs == Envs \ {b.env}

(* The base of a promotion: the latest version of the destination that was *)
(* loaded.                                                                 *)
destLatestVersion(p, d) == p.versions[d]

refreshPromoteDialog(p) ==
    IF p.promote = NoDialog THEN p
    ELSE [p EXCEPT !.promote.base = destLatestVersion(p, p.promote.dest)]

(* The card is open if memory holds drafts, whichever scope they are of;   *)
(* after a release that failed it is opened all the same.                  *)
Versions(p, data) == [p EXCEPT !.shownEnv = b.env, !.versions = data.versions]

loadReleases ==
    \E m \in Fresh("releases") : \E data \in {m, Now(m)} :
        /\ page' = IF m.then = "promote"
                   THEN refreshPromoteDialog(setPublishState(Versions(page, data), b, draftSummary(b) > 0))
                   ELSE setPublishState(Versions(page, data), b, draftSummary(b) > 0 \/ m.then = "mark")
        /\ inbox' = inbox \ {m}
        /\ UNCHANGED <<b, run, live, nextId, released, moves>>

(* An answer for a scope that was left. *)
Dropped ==
    \E m \in inbox :
        /\ m.what # "flags" /\ Stale(m)
        /\ inbox' = inbox \ {m}
        /\ page' = IF m.then = "mark" THEN setPublishState(page, b, TRUE)
                    ELSE IF m.then = "promote" THEN refreshPromoteDialog(page) ELSE page
        /\ UNCHANGED <<b, run, live, nextId, released, moves>>

-----------------------------------------------------------------------------
(* The publish card. *)

(* What the page promises: the records as the tables show them. *)
Kept(f) == {id \in DOMAIN f : ~f[id].deleted}
Promised ==
    LET groups == Kept(mergedGroups(b))
        Home(r) == IF r.group \in groups \union {NoRef} THEN r ELSE [r EXCEPT !.group = NoRef]
    IN [group |-> [g \in groups |-> mergedGroups(b)[g].rec],
        flag |-> [f \in ValidFlags(b) |-> Home(mergedFlags(b)[f].rec)],
        rule |-> [r \in Kept(mergedRules(b)) |-> mergedRules(b)[r].rec],
        experiment |-> [x \in {y \in Kept(mergedExperiments(b)) :
                                  mergedExperiments(b)[y].rec.flag \in ValidFlags(b)}
                           |-> mergedExperiments(b)[x].rec]]

(* The click on Publish.  A run is calm until the admin stages something   *)
(* more or looks at another environment, if the lists, those on their way  *)
(* included, were up to date.  Moot are the drafts that change nothing as  *)
(* they stand at the click, which a list may drop: updates to what is      *)
(* there, and rule creates with the deletes of rules equal to them.        *)
Same(rec, body) == bodiesEqual(applyBody(rec, body), rec)

Moot ==
    LET updates(k) == {id \in DOMAIN b.drafts[k] \intersect DOMAIN b.lists[k] :
                          /\ b.drafts[k][id].op = "update"
                          /\ Same(b.lists[k][id], b.drafts[k][id].body)}
        creates == {id \in DOMAIN b.drafts.rule : b.drafts.rule[id].op = "create"}
        undone(c) == Undone(b, b.drafts.rule, b.drafts.rule[c].body)
        idle == UNION {{k} \X updates(k) : k \in DraftKinds}
        paired == UNION {{"rule"} \X ({c} \union undone(c)) : c \in {x \in creates : undone(x) # {}}}
    IN idle \union paired

UpToDate ==
    /\ b.lists = live
    /\ \A m \in inbox : \A k \in DOMAIN m.data : m.data[k] = live[k]

publishSubmit ==
    /\ page.button /\ ~page.applying
    /\ page' = setApplying(page, TRUE)
    /\ run' = [IdleRun EXCEPT !.phase = "applying", !.todo = buildApplySteps,
                 !.calm = UpToDate /\ b.last = b.env, !.shared = TRUE,
                 !.goal = Promised, !.env = b.env,
                 !.moot = Moot]
    /\ UNCHANGED <<b, inbox, live, nextId, released, moves>>

(* All drafts applied: a release of the environment selected now, on the   *)
(* base of the releases loaded last.  An older base writes nothing.        *)
publish ==
    LET e == b.env
    IN /\ run.phase = "applying" /\ run.todo = {} /\ run.sent = Nothing
       /\ \/ /\ Version(e) = latestVersion
             /\ Version(e) < MaxReleases
             /\ released' = [released EXCEPT ![e] = Append(@, live)]
             /\ \/ run' = [run EXCEPT !.phase = "publishing", !.sent = [outcome |-> "ok"]] /\ UNCHANGED moves
                \/ run' = [run EXCEPT !.phase = "publishing", !.sent = [outcome |-> "lost"]]
                   /\ Move
          \/ /\ Version(e) # latestVersion
             /\ run' = [run EXCEPT !.phase = "publishing", !.sent = [outcome |-> "stale"]]
             /\ UNCHANGED <<released, moves>>
       /\ UNCHANGED <<b, page, inbox, live, nextId>>

(* The answer: only a release clears the drafts; a stale base asks for the *)
(* releases and marks the card again behind them; the records are loaded   *)
(* anew whatever the answer.                                               *)
markPublished ==
    LET c == IF run.sent.outcome = "ok" THEN ensureScope(draftClearAll(b)) ELSE b
    IN /\ run.phase = "publishing"
       /\ b' = c
       /\ LET p == setApplying(page, FALSE)
          IN page' = IF run.sent.outcome = "ok" THEN refreshDraftChrome(p, c) ELSE p
       /\ run' = [run EXCEPT !.phase = IF run.sent.outcome = "stale" THEN "stale" ELSE "idle",
                             !.sent = Nothing]
       /\ inbox' = inbox \union {Ask("flags", page.gen, "")}
                     \union (IF run.sent.outcome = "lost" THEN {}
                             ELSE {Ask("releases", page.gen, IF run.sent.outcome = "stale" THEN "mark" ELSE "")})
       /\ UNCHANGED <<live, nextId, released, moves>>

(* Rolling back is refused while there are drafts.  A version picked in    *)
(* the list shown is released again in the environment selected, where it  *)
(* may not exist.                                                          *)
rollback ==
    /\ ~page.applying /\ ~hasDrafts(b)
    /\ Move
    /\ Version(b.env) < MaxReleases
    /\ \E expanded \in BOOLEAN :
          \E v \in (renderReleases(expanded) \ {latestVersion}) \intersect 1..Version(b.env) :
             released' = [released EXCEPT ![b.env] = Append(@, @[v])]
    /\ inbox' = inbox \union {Ask("releases", page.gen, "")}
    /\ UNCHANGED <<b, page, run, live, nextId>>

(* The promote dialog, for a row of the list: its source is the            *)
(* environment selected now.                                               *)
openPromoteDialog ==
    /\ ~page.applying
    /\ Move
    /\ \E expanded \in BOOLEAN : \E v \in renderReleases(expanded), d \in destEnvs :
          page' = [page EXCEPT !.promote = [version |-> v, dest |-> d,
                                            base |-> destLatestVersion(page, d)]]
    /\ UNCHANGED <<b, run, inbox, live, nextId, released>>

(* The release goes to the destination as it is, if nothing was released   *)
(* there since the base was read; the lists and the base are read again.   *)
submitPromote ==
    LET sel == page.promote
        found == sel.version \in 1..Version(b.env)
    IN /\ sel # NoDialog /\ ~page.applying
       /\ Version(sel.dest) < MaxReleases
       /\ released' = IF found /\ Version(sel.dest) = sel.base
                      THEN [released EXCEPT ![sel.dest] = Append(@, released[b.env][sel.version])]
                      ELSE released
       /\ inbox' = IF found THEN inbox \union {Ask("releases", page.gen, "promote")} ELSE inbox
       /\ page' = setApplying(page, FALSE)
       /\ UNCHANGED <<b, run, live, nextId, moves>>

closePromoteDialog ==
    /\ page.promote # NoDialog
    /\ page' = [page EXCEPT !.promote = NoDialog]
    /\ UNCHANGED <<b, run, inbox, live, nextId, released, moves>>

-----------------------------------------------------------------------------
(* Around the page. *)

(* The environment menu: releases are loaded for it; lists and drafts stay *)
(* until something looks at the scope.                                     *)
envSelectChange ==
    \E e \in Envs \ {b.env} :
        /\ Move
        /\ b' = [b EXCEPT !.env = e]
        /\ page' = [page EXCEPT !.gen = @ + 1]
        /\ inbox' = inbox \union {Ask("releases", page.gen + 1, "")}
        /\ run' = [run EXCEPT !.calm = FALSE]
        /\ UNCHANGED <<live, nextId, released>>

(* A reload keeps the selected environment and the store, nothing else.    *)
Reload ==
    /\ Move
    /\ b' = [b EXCEPT !.last = NoScope, !.drafts = ensureDraftShape, !.seq = 0,
                      !.lists = [k \in DraftKinds |-> <<>>]]
    /\ page' = [EmptyPage EXCEPT !.shownEnv = b.env]
    /\ run' = IdleRun
    /\ inbox' = {Ask("flags", 0, ""), Ask("releases", 0, "")}
    /\ UNCHANGED <<live, nextId, released>>

(* Another admin publishes. *)
OtherPublishes ==
    /\ Move
    /\ Version(b.env) < MaxReleases
    /\ released' = [released EXCEPT ![b.env] = Append(@, live)]
    /\ UNCHANGED <<b, page, run, inbox, live, nextId>>

StageSomething ==
    /\ moves < MaxMoves
    /\ \/ saveFlag \/ moveFlag \/ deleteFlag
       \/ promptCreateGroup \/ renameGroup \/ deleteGroup
       \/ saveFlagRule \/ deleteRule
       \/ saveExperiment \/ setExperimentStatus \/ deleteExperiment

Next ==
    \/ StageSomething \/ discardUnpublished
    \/ publishSubmit \/ runApplyStep \/ consumeDraft \/ applyFailed \/ publish \/ markPublished
    \/ rollback \/ openPromoteDialog \/ submitPromote \/ closePromoteDialog
    \/ loadFlags \/ loadRules \/ loadExperiments \/ loadReleases \/ Dropped
    \/ envSelectChange \/ Reload \/ OtherPublishes

Spec == Init /\ [][Next]_vars

-----------------------------------------------------------------------------
(* What is published is what was shown: when a run that nobody disturbed   *)
(* has applied all its drafts, the server's records are the ones the       *)
(* tables showed at the click, temp ids replaced by the ids of the records *)
(* created for them.                                                       *)
AppliedAsShown ==
    LET Id(x) == IF x \in DOMAIN run.born THEN run.born[x] ELSE x
        Ref(f, x) == IF f \in {"group", "flag"} THEN Id(x) ELSE x
    IN run.calm /\ run.phase = "publishing" =>
         \A k \in DraftKinds :
            /\ DOMAIN live[k] = {Id(x) : x \in DOMAIN run.goal[k]}
            /\ \A x \in DOMAIN run.goal[k] :
                  live[k][Id(x)] = [f \in DOMAIN run.goal[k][x] |-> Ref(f, run.goal[k][x][f])]

(* A draft leaves the browser only when the server has it: while a run     *)
(* that nobody disturbed goes on, and after it has failed, every draft     *)
(* whose change is not among the server's records is in the store,         *)
(* whatever lists arrive meanwhile.  A list may drop drafts that change    *)
(* nothing as they stand at the click, although their requests go on       *)
(* (README, disagreements).                                                *)
OnServer(s) ==
    /\ s.op = "update" /\ s.id \in DOMAIN live[s.kind]
    /\ Same(live[s.kind][s.id], Remapped(s, run.map))

KeptUntilConfirmed ==
    run.calm /\ run.phase \in {"applying", "failed"} =>
        \A s \in run.todo :
            \/ OnServer(s)
            \/ <<s.kind, s.id>> \in run.moot
            \/ /\ b.store[run.env] # NothingSaved
               /\ s.id \in DOMAIN b.store[run.env].drafts[s.kind]

(* A reload loses nothing: the buckets in memory are the saved ones of the *)
(* environment they were read for.                                         *)
StoredAsShown ==
    b.last # NoScope =>
        b.drafts = IF b.store[b.last] = NothingSaved THEN ensureDraftShape
                   ELSE b.store[b.last].drafts

(* Drafts of the selected environment open the publish card as soon as     *)
(* they are read, and what the card would publish is what it lists.        *)
ListedAsApplied ==
    /\ b.last = b.env /\ inbox = {} /\ hasDrafts(b) /\ ~page.applying => page.button
    /\ page.button /\ ~page.applying /\ inbox = {} => page.rows = renderUnpublishedList(b)

(* Discard is final for the drafts it was asked about, and touches no      *)
(* others: whatever was in memory at the click is in no saved bucket       *)
(* afterwards, and drafts of other environments are.  drafts.js:19-21      *)
(* promises it; it does not hold after a switch (README, disagreements),   *)
(* so no run checks it.                                                    *)
DiscardIsFinal ==
    LET after == draftClearAll(b).store
    IN page.button /\ ~page.applying /\ b.last # NoScope =>
         /\ after[b.last] # NothingSaved => after[b.last].drafts = ensureDraftShape
         /\ \A e \in Envs \ {b.last} : after[e] = b.store[e]

(* Deleting a group ungroups its flags (flags.js:369): at rest every flag  *)
(* of the tables is in a folder.  It does not hold while the drafts are    *)
(* staged (README, disagreements), so no run checks it.                    *)
DeletedGroupUngroups ==
    ~page.applying /\ inbox = {} /\ b.last = b.env =>
        \A f \in ValidFlags(b) : \E g \in renderFlagFolders(b) : folderRow(b, f) \in g.rows
=============================================================================
