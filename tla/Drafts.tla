------------------------------- MODULE Drafts -------------------------------
(***************************************************************************)
(* The draft store of the admin UI (src/pb_public/js/drafts.js).           *)
(*                                                                         *)
(* A browser b keeps in memory the drafts of one environment, the counter  *)
(* of temp ids and the environment they were read for (last), the record   *)
(* lists loaded from the server, the environment selected in the header,   *)
(* and, in localStorage, one saved bucket per environment.  Every operator *)
(* takes the browser and gives back the browser, or what a caller reads.   *)
(*                                                                         *)
(* A record is a function from field names to values, a draft body such a  *)
(* function on some of the fields; a missing relation, "" or null in the   *)
(* code, is NoRef.                                                         *)
(***************************************************************************)
EXTENDS Naturals, FiniteSets, TLC

CONSTANT NoScope      \* no environment

NoRef == <<>>
NothingSaved == <<>>

DraftKinds == {"group", "flag", "rule", "experiment"}

Live(kind, n) == <<kind, n>>
Temp(kind, n) == <<"draft", kind, n>>

(* The empty buckets, and those of CW.state.drafts on a fresh page. *)
ensureDraftShape == [k \in DraftKinds |-> <<>>]

Without(f, ids) == [id \in DOMAIN f \ ids |-> f[id]]
Put(f, id, x) == [i \in DOMAIN f \union {id} |-> IF i = id THEN x ELSE f[i]]
OpOf(bucket, id) == IF id \in DOMAIN bucket THEN bucket[id].op ELSE "none"

-----------------------------------------------------------------------------
(* Scope and persistence. *)

scopeKey(b) == b.env

readScopeBucket(b, key) == b.store[key]

(* Another environment was selected: its saved drafts replace those in     *)
(* memory; the counter never goes back, so temp ids stay unique.           *)
ensureScope(b) ==
    LET parsed == readScopeBucket(b, scopeKey(b))
        found  == parsed # NothingSaved
    IN IF b.last = scopeKey(b) THEN b
       ELSE [b EXCEPT !.last = scopeKey(b),
                      !.drafts = IF found THEN parsed.drafts ELSE ensureDraftShape,
                      !.seq = IF found /\ parsed.seq > @ THEN parsed.seq ELSE @]

(* Whatever is in memory is saved for the environment selected now. *)
persistDrafts(b) ==
    [b EXCEPT !.last = scopeKey(b),
              !.store[scopeKey(b)] = [seq |-> b.seq, drafts |-> b.drafts]]

-----------------------------------------------------------------------------
(* Comparing drafts with the loaded records. *)

applyBody(base, body) ==
    [f \in DOMAIN base \union DOMAIN body |-> IF f \in DOMAIN body THEN body[f] ELSE base[f]]

bodiesEqual(x, y) == DOMAIN x = DOMAIN y /\ \A f \in DOMAIN x : x[f] = y[f]

liveBaseFor(b, kind, id) == IF id \in DOMAIN b.lists[kind] THEN b.lists[kind][id] ELSE <<>>

netZeroUpdate(b, kind, id, body) ==
    LET base == liveBaseFor(b, kind, id)
    IN base # <<>> /\ bodiesEqual(applyBody(base, body), base)

ruleCreateMatchesDelete(b, body, id) ==
    LET base == liveBaseFor(b, "rule", id)
    IN DOMAIN body # {} /\ \A f \in DOMAIN body : f \in DOMAIN base /\ body[f] = base[f]

(* The pending rule deletes that a rule create would undo. *)
Undone(b, bucket, body) ==
    {id \in DOMAIN bucket :
        bucket[id].op = "delete" /\ ruleCreateMatchesDelete(b, body, id)}

(* At most one of them is dropped with the create. *)
coalesceRuleRecreate(b, bucket, body) ==
    LET undone == Undone(b, bucket, body)
    IN IF undone = {} THEN bucket ELSE Without(bucket, {CHOOSE id \in undone : TRUE})

(* Updates that change nothing, and rule creates paired with an equal      *)
(* delete, are dropped; the result is saved only if something was dropped. *)
(* Each create takes a delete that no other has taken, if there is one.    *)
pruneNoopDrafts(b) ==
    LET Idle(k) == {id \in DOMAIN b.drafts[k] :
                       /\ b.drafts[k][id].op = "update"
                       /\ netZeroUpdate(b, k, id, b.drafts[k][id].body)}
        live == [k \in DraftKinds |-> Without(b.drafts[k], Idle(k))]
        creates == {id \in DOMAIN live.rule : live.rule[id].op = "create"}
        pairs == {p \in creates \X DOMAIN live.rule :
                     p[2] \in Undone(b, live.rule, live.rule[p[1]].body)}
        Meet(p, q) == p[1] = q[1] \/ p[2] = q[2]
        taken == CHOOSE P \in SUBSET pairs :
                    /\ \A p, q \in P : Meet(p, q) => p = q
                    /\ \A p \in pairs : \E q \in P : Meet(p, q)
        pruned == [live EXCEPT !.rule = Without(@, UNION {{p[1], p[2]} : p \in taken})]
    IN IF pruned = b.drafts THEN b ELSE persistDrafts([b EXCEPT !.drafts = pruned])

(* Tail of every list load: memory is read again from the store. *)
restoreDrafts(b) == pruneNoopDrafts(ensureScope([b EXCEPT !.last = NoScope]))

-----------------------------------------------------------------------------
(* Staging.  A create is stored under a temp id of its own. *)

newStoredEntry(op, body, members) == [op |-> op, body |-> body, members |-> members]

(* The bucket after op on the entry id, which had the operation prev; sum  *)
(* is its body with the new fields laid over it.                           *)
stagedBucket(b, kind, op, id, prev, sum, entry) ==
    LET bucket == b.drafts[kind]
    IN CASE op = "delete" /\ prev = "create" -> Without(bucket, {id})
         [] op = "update" /\ prev = "create" -> [bucket EXCEPT ![id].body = sum]
         [] op = "update" /\ prev # "create" ->
              IF netZeroUpdate(b, kind, id, sum) THEN Without(bucket, {id})
              ELSE IF prev = "update" THEN [bucket EXCEPT ![id].body = sum] ELSE Put(bucket, id, entry)
         [] op = "create" /\ kind = "rule" /\ Undone(b, bucket, entry.body) # {} ->
              coalesceRuleRecreate(b, bucket, entry.body)
         [] OTHER -> Put(bucket, id, entry)

stageIn(b, kind, op, id, body, members) ==
    LET bucket == b.drafts[kind]
        prev == OpOf(bucket, id)
        sum == IF prev \in {"create", "update"} THEN applyBody(bucket[id].body, body) ELSE body
        entry == newStoredEntry(op, body, members)
    IN persistDrafts([b EXCEPT !.drafts[kind] = stagedBucket(b, kind, op, id, prev, sum, entry)])

numbered(b) == [b EXCEPT !.seq = @ + 1]
createIn(b, kind, body, members) == stageIn(b, kind, "create", Temp(kind, b.seq), body, members)

draftStage(b, kind, op, baseId, body, members) ==
    IF op = "create" THEN createIn(numbered(ensureScope(b)), kind, body, members)
    ELSE stageIn(ensureScope(b), kind, op, baseId, body, members)

(* Mutants: the entry leaves memory and stays in the store; the others of  *)
(* its kind go with it.                                                    *)
discardUnsaved(b, kind, id) == [b EXCEPT !.drafts[kind] = Without(@, {id})]
discardOfKind(b, kind, id) ==
    IF id \notin DOMAIN b.drafts[kind] THEN b ELSE persistDrafts([b EXCEPT !.drafts[kind] = <<>>])

discardIn(b, kind, id) ==
    IF id \notin DOMAIN b.drafts[kind] THEN b
    ELSE persistDrafts([b EXCEPT !.drafts[kind] = Without(@, {id})])

draftDiscard(b, kind, id) == discardIn(ensureScope(b), kind, id)

(* No ensureScope here: it is the bucket in memory that is emptied. *)
draftClearAll(b) == persistDrafts([b EXCEPT !.drafts = ensureDraftShape])

isDraft(b, kind, id) == id \in DOMAIN ensureScope(b).drafts[kind]
draftOp(b, kind, id) == OpOf(ensureScope(b).drafts[kind], id)
hasDrafts(b) == \E k \in DraftKinds : DOMAIN ensureScope(b).drafts[k] # {}

-----------------------------------------------------------------------------
(* The merged lists: what the tables show of records and drafts together.  *)

overlayById(server, bucket) ==
    LET created == {id \in DOMAIN bucket : bucket[id].op = "create"}
        all == [id \in created \union DOMAIN server |->
                   IF id \in created THEN bucket[id].body ELSE server[id]]
    IN [id \in DOMAIN all |->
           [rec |-> IF OpOf(bucket, id) = "update" THEN applyBody(all[id], bucket[id].body)
                    ELSE all[id],
            deleted |-> OpOf(bucket, id) = "delete"]]

Merged(b, kind) == overlayById(b.lists[kind], ensureScope(b).drafts[kind])

mergedFlags(b) == Merged(b, "flag")
mergedGroups(b) == Merged(b, "group")

(* Flags that rules and experiments may hang on: merged and not deleted. *)
NotDeleted(list) == {id \in DOMAIN list : ~list[id].deleted}
ValidFlags(b) == NotDeleted(mergedFlags(b))

ListedOf(list, flags, always) ==
    [id \in {x \in DOMAIN list : x \in always \/ list[x].rec.flag \in flags} |-> list[id]]

mergedRules(b) == ListedOf(Merged(b, "rule"), ValidFlags(b), {})

(* Loaded experiments are listed whatever became of their flag. *)
mergedExperiments(b) ==
    ListedOf(Merged(b, "experiment"), ValidFlags(b) \union {NoRef}, DOMAIN b.lists.experiment)
=============================================================================
