---------------------------- MODULE AdminTransfer ----------------------------
(***************************************************************************)
(* Flags in and out of a project as text (transfer.js and its dialogs in   *)
(* boot.js), over the draft store of module Drafts.                        *)
(*                                                                         *)
(* A snapshot holds flags with their rules and experiments and the names   *)
(* of their groups, no ids, so that it can be staged in another project.   *)
(* An import makes drafts; nothing of it reaches the server here.          *)
(*                                                                         *)
(* Texts are records: good if they are JSON of the right shape.  Seeds and *)
(* experiment names are numbers, 0 when missing; a value is a pair of its  *)
(* type and something, NoRef when null; a group name is a tuple, NoRef     *)
(* when there is none.                                                     *)
(***************************************************************************)
EXTENDS Drafts, Integers, Sequences, SequencesExt

CONSTANTS
    Envs,        \* environments, each of a project of its own
    Records,     \* environment -> the records loaded for its project
    Releases,    \* environment -> snapshots of its releases
    Files,       \* texts on the admin's disk
    ValidKeys,   \* flag keys that match the pattern and are short enough
    MaxCells,    \* bound of the code: table size up to which hunks are aligned
    MaxMoves     \* bound: edits, switches, dialogs, files

VARIABLE transfer

NoText == [good |-> FALSE, flags |-> <<>>, top |-> <<>>]
Nothing == <<>>

FlagTypes == {"number", "string", "bool", "json"}
ExpStatus == {"draft", "running", "stopped"}
CONDITION_OPS ==
    [platform   |-> {"==", "!=", "contains", "regex"},
     appVersion |-> {"<", "<=", "==", "!=", ">=", ">", "contains", "regex"},
     locale     |-> {"==", "!=", "contains", "regex"},
     country    |-> {"==", "!=", "contains", "regex"},
     percentile |-> {"<=", "between"},
     custom     |-> {"==", "!=", "<", "<=", ">", ">=", "contains", "regex"}]

With(f, x, v) == [y \in DOMAIN f \union {x} |-> IF y = x THEN v ELSE f[y]]

Field(rec, f, otherwise) == IF f \in DOMAIN rec THEN rec[f] ELSE otherwise

(* The first of the entries that have the same identity. *)
Firsts(s, Id(_)) ==
    FoldLeft(LAMBDA kept, x : IF \E i \in DOMAIN kept : Id(kept[i]) = Id(x) THEN kept ELSE Append(kept, x),
             <<>>, s)

(* Listing order: loaded records first, then drafts, each by number. *)
Rank(id) == id[Len(id)] + (IF Len(id) = 3 THEN 1000 ELSE 0)
ById(ids) == SetToSortSeq(ids, LAMBDA i, j : Rank(i) < Rank(j))
BySeed(x, y) == x.seed < y.seed \/ (x.seed = y.seed /\ x.name < y.name)
Mapped(s, F(_)) == [i \in DOMAIN s |-> F(s[i])]

-----------------------------------------------------------------------------
(* buildTransferSnapshot *)

(* Also a loaded record counts as deleted when its delete is staged. *)
isDeletedRecord(b, kind, id) == draftOp(b, kind, id) = "delete"

Listed(recs) == [id \in DOMAIN recs |-> [rec |-> recs[id], deleted |-> FALSE]]

(* The four lists, of records alone or with the drafts. *)
mergedLists(b, from) ==
    IF from = "live" THEN [k \in DraftKinds |-> Listed(b.lists[k])]
    ELSE [flag |-> mergedFlags(b), group |-> mergedGroups(b), rule |-> mergedRules(b),
          experiment |-> mergedExperiments(b)]

RuleRow(rec) == [priority |-> rec.priority, condition |-> rec.condition, value |-> rec.value]

ExpRow(rec) ==
    [id |-> NoRef, name |-> Field(rec, "name", 0), seed |-> rec.seed, variants |-> rec.variants,
     status |-> rec.status]

(* A delete that is staged leaves a record out, whichever list it is in.   *)
FlagEntry(b, lists, f) ==
    LET rules == lists.rule
        exps  == lists.experiment
        rec   == lists.flag[f].rec
        ruleIds == {r \in DOMAIN rules : rules[r].rec.flag = f /\ ~rules[r].deleted}
        expIds  == {x \in DOMAIN exps : exps[x].rec.flag = f /\ ~isDeletedRecord(b, "experiment", x)}
    IN [key |-> rec.key, type |-> rec.type, default |-> rec.default,
        group |-> IF rec.group \in DOMAIN lists.group THEN lists.group[rec.group].rec.name ELSE rec.group,
        description |-> Field(rec, "description", ""),
        rules |-> SortSeq(Mapped(ById(ruleIds), LAMBDA r : RuleRow(rules[r].rec)),
                          LAMBDA r, q : r.priority < q.priority),
        experiments |-> SortSeq(Mapped(ById(expIds), LAMBDA x : ExpRow(exps[x].rec)), BySeed)]

snapshotOf(b, lists) ==
    LET kept == {f \in DOMAIN lists.flag : ~isDeletedRecord(b, "flag", f)}
    IN [good |-> TRUE, flags |-> Mapped(ById(kept), LAMBDA f : FlagEntry(b, lists, f)), top |-> <<>>]

buildTransferSnapshot(b, from) == snapshotOf(b, mergedLists(b, from))

-----------------------------------------------------------------------------
(* Reading a snapshot of any shape: experiments nested in their flags, or  *)
(* in a list of their own with the key of the flag, or both.               *)

expIdentity(x) ==
    IF x.exp.id # NoRef THEN <<"id", x.exp.id>>
    ELSE <<"seed", x.flag, IF x.exp.seed # 0 THEN x.exp.seed ELSE x.exp.name>>

HasKey(flags, k) == \E i \in DOMAIN flags : flags[i].key = k

getAllExperiments(snap) ==
    LET stamped(f) == Mapped(f.experiments, LAMBDA e : [flag |-> f.key, exp |-> e])
        nested == FlattenSeq(Mapped(snap.flags, stamped))
        known  == SelectSeq(snap.top, LAMBDA x : HasKey(snap.flags, x.flag))
    IN Firsts(nested \o known, expIdentity)

isLegacyTopLevelSnap(text) ==
    text.good /\ text.top # <<>> /\ \A i \in DOMAIN text.flags : text.flags[i].experiments = <<>>

canonParseRow(e) == IF e.status = "" THEN [e EXCEPT !.status = "draft"] ELSE e

RowsOf(all, k) == Mapped(SelectSeq(all, LAMBDA x : x.flag = k), LAMBDA x : canonParseRow(x.exp))

Nested(text, all) ==
    [text EXCEPT !.top = <<>>,
                 !.flags = Mapped(@, LAMBDA f : [f EXCEPT !.experiments = SortSeq(RowsOf(all, f.key), BySeed)])]

parseTransferSnapshot(text) == Nested(text, getAllExperiments(text))

-----------------------------------------------------------------------------
(* validateTransferSnapshot *)

defaultMatchesType(v, t) == v = NoRef \/ v[1] = t

conditionOk(c) == c.field \in DOMAIN CONDITION_OPS /\ c.op \in CONDITION_OPS[c.field]

expVariantOk(e) ==
    /\ e.variants # <<>>
    /\ \A i, j \in DOMAIN e.variants :
          i # j => e.variants[i].name # e.variants[j].name
    /\ \A i \in DOMAIN e.variants : e.variants[i].name # "" /\ e.variants[i].weightBps >= 0
    /\ FoldLeft(LAMBDA sum, v : sum + v.weightBps, 0, e.variants) = 10000
    /\ e.status \in ExpStatus \union {""}

validateTransferSnapshot(snap) ==
    /\ snap.flags # <<>>
    /\ \A i \in DOMAIN snap.flags :
          LET f == snap.flags[i]
          IN /\ f.key \in ValidKeys /\ f.type \in FlagTypes
             /\ defaultMatchesType(f.default, f.type)
             /\ \A j \in DOMAIN f.rules :
                   defaultMatchesType(f.rules[j].value, f.type) /\ conditionOk(f.rules[j].condition)
             /\ \A j \in DOMAIN f.experiments : expVariantOk(f.experiments[j])
    /\ \A i \in DOMAIN snap.top : expVariantOk(snap.top[i].exp)

-----------------------------------------------------------------------------
(* importTransferSnapshot: the work carries the browser, the ids of groups *)
(* by name, those of flags by key, and the counts.                         *)

emptyCounts ==
    [k \in {"groupsCreated", "flagsCreated", "flagsUpdated", "rulesCreated", "rulesDeleted",
            "experimentsCreated", "experimentsUpdated", "skipped"} |-> 0]

Count(w, what) == [w EXCEPT !.counts[what] = @ + 1]

stage(w, kind, op, id, body) == [w EXCEPT !.b = draftStage(@, kind, op, id, body, {})]
Made(w, kind) == Temp(kind, w.b.seq)

(* (a) *)
CountGroup(w, f) ==
    Count([w EXCEPT !.groupMap = With(@, f.group, Made(w, "group"))], "groupsCreated")

stageGroup(w, f) ==
    IF f.group = NoRef \/ f.group \in DOMAIN w.groupMap THEN w
    ELSE CountGroup(stage(w, "group", "create", NoRef, [name |-> f.group]), f)

groupMap(groups) ==
    LET named(n) == {g \in DOMAIN groups : groups[g].rec.name = n}
    IN [n \in {groups[g].rec.name : g \in DOMAIN groups} |-> Last(ById(named(n)))]

(* (b) The first flag of a key that is not deleted. *)
IdAndText(flags, f) == [id |-> f, description |-> Field(flags[f].rec, "description", "")]

byKey(b, flags) ==
    LET kept == {f \in DOMAIN flags : ~isDeletedRecord(b, "flag", f)}
    IN [k \in {flags[f].rec.key : f \in kept} |-> IdAndText(flags, Head(ById({f \in kept : flags[f].rec.key = k})))]

FlagBody(w, f, known) ==
    LET old == IF f.key \in DOMAIN known THEN known[f.key].description ELSE ""
        description == IF f.description # "" THEN f.description ELSE old
        body == [key |-> f.key, type |-> f.type, default |-> f.default,
                 group |-> IF f.group = NoRef THEN NoRef ELSE w.groupMap[f.group]]
    IN IF description = "" THEN body ELSE With(body, "description", description)

(* An update that changes nothing stages nothing and is not counted. *)
CountUpdate(w, kind, id, what) == IF isDraft(w.b, kind, id) THEN Count(w, what) ELSE w
CountFlag(w, f) == Count([w EXCEPT !.keyToId = With(@, f.key, Made(w, "flag"))], "flagsCreated")

stageFlag(w, f, known) ==
    IF f.key \in DOMAIN known
    THEN CountUpdate(stage(w, "flag", "update", known[f.key].id, FlagBody(w, f, known)),
                     "flag", known[f.key].id, "flagsUpdated")
    ELSE CountFlag(stage(w, "flag", "create", NoRef, FlagBody(w, f, known)), f)

(* (c) The rules of a flag are replaced unless they are the same, in any order. *)
sameRuleSet(all, existing, rules) ==
    ToBag(Mapped(existing, LAMBDA r : RuleRow(all[r].rec))) = ToBag(rules)

KeepRules(w, existing) == w    \* mutant: rules that are there stay
deleteRules(w, existing) ==
    FoldLeft(LAMBDA v, r : Count(stage(v, "rule", "delete", r, <<>>), "rulesDeleted"), w, existing)

createRules(w, fid, rules) ==
    FoldLeft(LAMBDA v, r : Count(stage(v, "rule", "create", NoRef, With(r, "flag", fid)), "rulesCreated"), w, rules)

stageRules(w, f, all) ==
    LET fid == w.keyToId[f.key]
        existing == ById({r \in DOMAIN all : all[r].rec.flag = fid /\ ~all[r].deleted})
    IN IF sameRuleSet(all, existing, f.rules) THEN w
       ELSE createRules(deleteRules(w, existing), fid, f.rules)

(* (d) Experiments are matched by flag and seed; a list of their own is    *)
(* added to those nested in the flag, which win.                           *)
importExps(snap) ==
    LET extras(f) == SelectSeq(snap.top, LAMBDA x : /\ x.flag = f.key
                                                    /\ \A i \in DOMAIN f.experiments : f.experiments[i].seed # x.exp.seed)
        rows(f) == SortSeq(f.experiments \o Mapped(extras(f), LAMBDA x : x.exp), BySeed)
    IN FlattenSeq(Mapped(snap.flags, LAMBDA f : Mapped(rows(f), LAMBDA e : [flag |-> f.key, exp |-> e])))

expIndex(b, exps, known) ==
    LET listed == {x \in DOMAIN exps : ~isDeletedRecord(b, "experiment", x)}
        of(k, seed) == {x \in listed : exps[x].rec.flag = known[k].id /\ exps[x].rec.seed = seed}
    IN [m \in {<<k, exps[x].rec.seed>> : k \in DOMAIN known, x \in listed} |->
            IF of(m[1], m[2]) = {} THEN NoRef ELSE Head(ById(of(m[1], m[2])))]

ExpBody(fid, e) ==
    LET body == [flag |-> fid, seed |-> e.seed, variants |-> e.variants,
                 status |-> IF e.status = "" THEN "draft" ELSE e.status]
    IN IF e.name = 0 THEN body ELSE With(body, "name", e.name)

stageExperiment(w, x, index) ==
    LET body  == ExpBody(w.keyToId[x.flag], x.exp)
        match == <<x.flag, x.exp.seed>>
    IN IF match \in DOMAIN index /\ index[match] # NoRef
       THEN CountUpdate(stage(w, "experiment", "update", index[match], body), "experiment", index[match], "experimentsUpdated")
       ELSE Count(stage(w, "experiment", "create", NoRef, body), "experimentsCreated")

importGroups(w, snap) == FoldLeft(stageGroup, w, snap.flags)

importFlags(w, snap, known) == FoldLeft(LAMBDA v, f : stageFlag(v, f, known), w, snap.flags)

importRules(w, snap, all) == FoldLeft(LAMBDA v, f : stageRules(v, f, all), w, snap.flags)

importExperiments(w, snap, index) ==
    FoldLeft(LAMBDA v, x : stageExperiment(v, x, index), w, importExps(snap))

(* The rules, and the index of the experiments, are those after the step   *)
(* before; the ids of flags in the index are those from before the import. *)
finishImport(w, snap, known) ==
    LET ruled(v) == importExperiments(v, snap, expIndex(v.b, mergedExperiments(v.b), known))
    IN ruled(importRules(w, snap, mergedRules(w.b)))

importOnto(b, snap, known) ==
    LET orphans == SelectSeq(snap.top, LAMBDA x : ~HasKey(snap.flags, x.flag))
        start == [b |-> b, groupMap |-> groupMap(mergedGroups(b)), keyToId |-> [k \in DOMAIN known |-> known[k].id],
                  counts |-> [emptyCounts EXCEPT !.skipped = Len(orphans)]]
    IN finishImport(importFlags(importGroups(start, snap), snap, known), snap, known)

importTransferSnapshot(b, snap) == importOnto(b, snap, byKey(b, mergedFlags(b)))

summarizeCounts(c) == {k \in DOMAIN c : c[k] > 0}

-----------------------------------------------------------------------------
(* diffTransferSnapshots *)

expDiffId(x) == <<x.flag, IF x.exp.seed # 0 THEN x.exp.seed ELSE x.exp.name>>

collectExps(snap) == Firsts(getAllExperiments(snap), expDiffId)

flagWithoutExps(f) == [f EXCEPT !.experiments = <<>>]

RowStatus(old, new) ==
    CASE old = Nothing -> "added"
      [] new = Nothing -> "removed"
      [] old # Nothing /\ new # Nothing /\ old # new -> "modified"
      [] OTHER -> "unchanged"

Found(s, Id(_), id) ==
    LET i == SelectInSeq(s, LAMBDA x : Id(x) = id) IN IF i = 0 THEN Nothing ELSE s[i]

(* A row for every identity on either side. *)
DiffRows(olds, news, Id(_)) ==
    {[id |-> id, old |-> Found(olds, Id, id), new |-> Found(news, Id, id),
      status |-> RowStatus(Found(olds, Id, id), Found(news, Id, id))] :
        id \in {Id(x) : x \in ToSet(olds \o news)}}

diffTransferSnapshots(old, new) ==
    [flags |-> DiffRows(Mapped(old.flags, flagWithoutExps), Mapped(new.flags, flagWithoutExps), LAMBDA f : f.key),
     experiments |-> DiffRows(collectExps(old), collectExps(new), expDiffId)]

changedRows(rows) == {r \in rows : r.status # "unchanged"}

(* Lines of a body, and the hunk that turns one into the other: line by    *)
(* line along the longest common subsequence, unless the table is too big. *)
prettyJsonLines(f) ==
    Mapped(<<"key", "type", "default", "group", "description">>, LAMBDA x : <<x, f[x]>>)
      \o Mapped(f.rules, LAMBDA r : <<"rule", r>>)

Line(op, text) == [op |-> op, text |-> text]
All(op, lines) == Mapped(lines, LAMBDA l : Line(op, l))

(* The table is filled from the ends. *)
Common(a, c) ==
    LET n == Len(a)
        m == Len(c)
        dp[i \in 1..n+1, j \in 1..m+1] ==
            IF i > n \/ j > m THEN 0
            ELSE IF a[i] = c[j] THEN dp[i+1, j+1] + 1
            ELSE IF dp[i+1, j] >= dp[i, j+1] THEN dp[i+1, j] ELSE dp[i, j+1]
    IN dp

diffJsonLines(a, c) ==
    LET dp == Common(a, c)
        hunk[i \in 1..Len(a)+1, j \in 1..Len(c)+1] ==
            CASE i > Len(a) -> All("+", SubSeq(c, j, Len(c)))
              [] j > Len(c) /\ i <= Len(a) -> All("-", SubSeq(a, i, Len(a)))
              [] i <= Len(a) /\ j <= Len(c) /\ a[i] = c[j] -> <<Line(" ", a[i])>> \o hunk[i+1, j+1]
              [] i <= Len(a) /\ j <= Len(c) /\ a[i] # c[j] /\ dp[i+1, j] >= dp[i, j+1] ->
                    <<Line("-", a[i])>> \o hunk[i+1, j]
              [] OTHER -> <<Line("+", c[j])>> \o hunk[i, j+1]
    IN IF Len(a) * Len(c) > MaxCells THEN All("-", a) \o All("+", c) ELSE hunk[1, 1]

opsForRow(row) ==
    CASE row.status = "added"   -> All("+", prettyJsonLines(row.new))
      [] row.status = "removed" -> All("-", prettyJsonLines(row.old))
      [] OTHER -> diffJsonLines(prettyJsonLines(row.old), prettyJsonLines(row.new))

flagChangedFields(row) ==
    IF row.status # "modified" THEN {}
    ELSE {x \in {"type", "default", "group", "description", "rules"} : row.old[x] # row.new[x]}

expFlagKey(row) == IF row.new # Nothing THEN row.new.flag ELSE row.old.flag

(* A block of the view: a changed flag, or one with changed experiments.   *)
diffFlagBlock(d, k) ==
    LET rows == {r \in changedRows(d.flags) : r.id = k}
    IN [path |-> k,
        hunk |-> IF rows = {} THEN <<>> ELSE opsForRow(CHOOSE r \in rows : TRUE),
        badges |-> UNION {flagChangedFields(r) : r \in rows},
        nest |-> {[id |-> r.id, status |-> r.status] : r \in {x \in changedRows(d.experiments) : expFlagKey(x) = k}}]

stagedBucketList(b, kind) == {<<kind, id, b.drafts[kind][id].op>> : id \in DOMAIN b.drafts[kind]}
stagedDraftsHTML(b) == UNION {stagedBucketList(b, k) : k \in DraftKinds}

diffStatText(d) ==
    [s \in {"added", "modified", "removed"} |->
        Cardinality({r \in d.flags : r.status = s}) + Cardinality({r \in d.experiments : r.status = s})]

ViewOf(b, d) ==
    LET paths == {r.id : r \in changedRows(d.flags)} \union {expFlagKey(r) : r \in changedRows(d.experiments)}
    IN [stat |-> diffStatText(d), blocks |-> {diffFlagBlock(d, k) : k \in paths}, staged |-> stagedDraftsHTML(b)]

DraftView(b) ==
    ViewOf(b, diffTransferSnapshots(buildTransferSnapshot(b, "live"), buildTransferSnapshot(b, "merged")))

-----------------------------------------------------------------------------
(* Releases: a stored snapshot has group ids, which become names.          *)

transferGroupName(b, g) == IF g \in DOMAIN b.lists.group THEN b.lists.group[g].name ELSE g

releaseSnapshotToTransfer(b, snap) ==
    LET all == collectExps(snap)
        entry(f) == [f EXCEPT !.group = transferGroupName(b, @),
                              !.experiments = Mapped(SelectSeq(all, LAMBDA x : x.flag = f.key), LAMBDA x : x.exp)]
    IN [good |-> TRUE, flags |-> Mapped(snap.flags, entry), top |-> <<>>]

-----------------------------------------------------------------------------
(* The dialogs.                                                            *)

Click(t) == transfer.moves < MaxMoves /\ transfer' = [t EXCEPT !.moves = @ + 1]
Closed == transfer.dialog = "none"
close(t) == [t EXCEPT !.dialog = "none"]

openExportDialog(t, snap) == [t EXCEPT !.dialog = "export", !.text = snap]

exportClick == Closed /\ Click(openExportDialog(transfer, buildTransferSnapshot(transfer.b, "merged")))

exportReleaseSnapshot ==
    \E snap \in Releases[transfer.b.env] :
        Closed /\ Click(openExportDialog(transfer, releaseSnapshotToTransfer(transfer.b, snap)))

(* To the clipboard, or to the disk; names of files are left out. *)
copyExportText ==
    /\ transfer.dialog = "export"
    /\ transfer' = [close(transfer) EXCEPT !.clipboard = transfer.text]
downloadExport ==
    /\ transfer.dialog = "export" /\ transfer.text \notin transfer.files
    /\ transfer' = [close(transfer) EXCEPT !.files = @ \union {transfer.text}]
closeExportDialog == transfer.dialog = "export" /\ transfer' = close(transfer)

openImportDialog ==
    Closed /\ Click([transfer EXCEPT !.dialog = "import", !.text = NoText, !.result = "", !.staged = Nothing])
closeImportDialog == transfer.dialog = "import" /\ transfer' = close(transfer)

pasteText ==
    /\ transfer.dialog = "import" /\ transfer.clipboard # transfer.text
    /\ transfer' = [transfer EXCEPT !.text = transfer.clipboard]

(* A file is read in the background; it may be there when the dialog is    *)
(* closed, or has been opened again.                                       *)
importFileChange ==
    /\ transfer.dialog = "import"
    /\ \E f \in transfer.files : Click([transfer EXCEPT !.reading = @ \union {f}])
importFileRead ==
    \E f \in transfer.reading :
        LET t == [transfer EXCEPT !.reading = @ \ {f}]
        IN transfer' = t \/ transfer' = [t EXCEPT !.text = f]

(* The handler of boot.js validates a field that parsing does not return,  *)
(* so it refuses what it could parse; the dialog's own handler follows.    *)
bootImportStage(t) ==
    [t EXCEPT !.result = "refused"]

Imported(t, snap, work) ==
    [close(t) EXCEPT !.b = work.b,
                     !.result = IF isLegacyTopLevelSnap(t.text) THEN "deprecated" ELSE "staged",
                     !.staged = [snap |-> snap, counts |-> summarizeCounts(work.counts),
                                 before |-> buildTransferSnapshot(t.b, "merged")]]

importParsed(t, snap) ==
    IF ~validateTransferSnapshot(snap) THEN [t EXCEPT !.result = "invalid"]
    ELSE Imported(t, snap, importTransferSnapshot(t.b, snap))

stageImportFromDialog(t) ==
    IF ~t.text.good THEN [t EXCEPT !.result = "not a snapshot"]
    ELSE importParsed(t, parseTransferSnapshot(t.text))

importStageClick ==
    /\ transfer.dialog = "import" /\ transfer.result = ""
    /\ transfer' = stageImportFromDialog(bootImportStage(transfer))

openDraftSnapshotDialog ==
    /\ Closed /\ hasDrafts(transfer.b)
    /\ Click([transfer EXCEPT !.dialog = "diff", !.view = DraftView(transfer.b)])
closeDraftSnapshotDialog ==
    transfer.dialog = "diff" /\ transfer' = [close(transfer) EXCEPT !.view = Nothing]

(* Edits in the other dialogs, and another environment with its records.   *)
Edited(b) == [transfer EXCEPT !.b = b, !.staged = Nothing]
Edit ==
    /\ Closed
    /\ \/ \E kind \in DraftKinds : \E id \in DOMAIN mergedLists(transfer.b, "merged")[kind] :
             Click(Edited(draftStage(transfer.b, kind, "delete", id, <<>>, {})))
       \/ \E f \in DOMAIN mergedFlags(transfer.b), k \in ValidKeys :
             Click(Edited(draftStage(transfer.b, "flag", "update", f, [key |-> k, group |-> NoRef], {})))
       \/ \E g \in DOMAIN mergedGroups(transfer.b) :
             Click(Edited(draftStage(transfer.b, "group", "update", g, [name |-> <<"renamed">>], {})))
       \/ \E x \in DOMAIN mergedExperiments(transfer.b) :
             Click(Edited(draftStage(transfer.b, "experiment", "update", x, [status |-> "stopped"], {})))

(* No two flags have a key in common, which the server refuses. *)
Switch ==
    /\ Closed
    /\ \E e \in Envs \ {transfer.b.env} :
          Click(Edited(restoreDrafts([transfer.b EXCEPT !.env = e, !.lists = Records[e]])))

Init ==
    \E e \in Envs :
        transfer = [b |-> [env |-> e, last |-> e, drafts |-> ensureDraftShape, seq |-> 0, lists |-> Records[e],
                           store |-> [x \in Envs |-> NothingSaved]],
                    dialog |-> "none", text |-> NoText, result |-> "", clipboard |-> NoText,
                    files |-> Files, reading |-> {}, view |-> Nothing, staged |-> Nothing, moves |-> 0]

Next ==
    \/ exportClick \/ exportReleaseSnapshot \/ copyExportText \/ downloadExport \/ closeExportDialog
    \/ openImportDialog \/ closeImportDialog \/ pasteText \/ importFileChange \/ importFileRead
    \/ importStageClick
    \/ openDraftSnapshotDialog \/ closeDraftSnapshotDialog
    \/ Edit \/ Switch

Spec == Init /\ [][Next]_transfer

-----------------------------------------------------------------------------
Keyed(snap, k) == snap.flags[SelectInSeq(snap.flags, LAMBDA f : f.key = k)]
KeysOf(snap) == {snap.flags[i].key : i \in DOMAIN snap.flags}
OneOfEach(snap) ==
    /\ \A i, j \in DOMAIN snap.flags : snap.flags[i].key = snap.flags[j].key => i = j
    /\ \A i \in DOMAIN snap.flags : \A x, y \in ToSet(snap.flags[i].experiments) : x.seed = y.seed => x = y

(* What was imported is what an export would give: every flag of the file  *)
(* with its fields, group, rules and experiments, whatever drafts were     *)
(* there and however the file was made; and other flags, and experiments   *)
(* of other seeds, are as they were.                                       *)
KeepsBoth(snap, before, now) ==
    LET Plain(e) == [seed |-> e.seed, variants |-> e.variants, status |-> e.status]
        Rows(f, seeds) == {Plain(e) : e \in {x \in ToSet(f.experiments) : x.seed \in seeds}}
        Seeds(f) == {e.seed : e \in ToSet(f.experiments)}
    IN /\ KeysOf(now) = KeysOf(before) \union KeysOf(snap)
       /\ \A k \in KeysOf(snap) :
             LET f == Keyed(snap, k)
                 g == Keyed(now, k)
             IN /\ <<g.type, g.default, g.group>> = <<f.type, f.default, f.group>>
                /\ f.description # "" => g.description = f.description
                /\ ToBag(g.rules) = ToBag(f.rules)
                /\ Rows(g, Seeds(f)) = Rows(f, Seeds(f))
                /\ k \in KeysOf(before) =>
                      LET old == Keyed(before, k)
                      IN Rows(g, Seeds(old) \ Seeds(f)) = Rows(old, Seeds(old) \ Seeds(f))
       /\ \A k \in KeysOf(before) \ KeysOf(snap) : Keyed(now, k) = Keyed(before, k)

ImportRoundTrip ==
    LET s == transfer.staged
    IN s # Nothing /\ OneOfEach(s.snap) /\ OneOfEach(s.before) =>
         KeepsBoth(s.snap, s.before, buildTransferSnapshot(transfer.b, "merged"))

(* The drafts view: a block for every flag that the drafts change, and     *)
(* hunks that keep as many lines as can be kept; only what was deleted is  *)
(* missing from it (see RemovalsShown).                                    *)
Without0(lines, op) == Mapped(SelectSeq(lines, LAMBDA l : l.op # op), LAMBDA l : l.text)
LongestCommon(a, c) ==
    LET lcs[i \in 0..Len(a), j \in 0..Len(c)] ==
            IF i = 0 \/ j = 0 THEN 0
            ELSE IF a[i] = c[j] THEN 1 + lcs[i-1, j-1]
            ELSE IF lcs[i-1, j] > lcs[i, j-1] THEN lcs[i-1, j] ELSE lcs[i, j-1]
    IN lcs[Len(a), Len(c)]
Kept(lines) == Len(SelectSeq(lines, LAMBDA l : l.op = " "))

ShowsDifference(view, live, now) ==
    LET both == KeysOf(live) \intersect KeysOf(now)
        block(k) == CHOOSE c \in view.blocks : c.path = k
        Hunked(hunk, old, new) ==
            /\ Without0(hunk, "+") = old /\ Without0(hunk, "-") = new
            /\ Len(old) * Len(new) <= MaxCells => Kept(hunk) = LongestCommon(old, new)
    IN OneOfEach(live) /\ OneOfEach(now) =>
         /\ {c.path : c \in view.blocks} =
               (KeysOf(now) \ KeysOf(live)) \union {k \in both : Keyed(live, k) # Keyed(now, k)}
                 \union (KeysOf(live) \ KeysOf(now))
         /\ \A k \in {x \in both : flagWithoutExps(Keyed(live, x)) # flagWithoutExps(Keyed(now, x))} :
               Hunked(block(k).hunk, prettyJsonLines(flagWithoutExps(Keyed(live, k))),
                      prettyJsonLines(flagWithoutExps(Keyed(now, k))))

ViewTrue ==
    transfer.dialog = "diff" =>
        ShowsDifference(transfer.view, buildTransferSnapshot(transfer.b, "live"),
                        buildTransferSnapshot(transfer.b, "merged"))

(* The view shows what the drafts remove: a loaded flag whose delete is    *)
(* staged has a block (CHANGELOG.md: "green added / red removed").  Not so *)
(* in the code (README, disagreements), so no run checks it.               *)
RemovalsShown ==
    transfer.dialog = "diff" =>
        \A f \in DOMAIN transfer.b.lists.flag :
            draftOp(transfer.b, "flag", f) = "delete" =>
                transfer.b.lists.flag[f].key \in {c.path : c \in transfer.view.blocks}
=============================================================================
