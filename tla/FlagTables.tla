----------------------------- MODULE FlagTables -----------------------------
(***************************************************************************)
(* What the admin page shows of a browser's records and drafts: the flag   *)
(* folders of flags.js, the lists of the rules and experiments dialogs and *)
(* the list of unpublished changes of releases.js.  A table is the set of  *)
(* its rows, a row a record of what tells it from another.                 *)
(***************************************************************************)
EXTENDS Drafts

isUnpub(b, kind, id) == isDraft(b, kind, id)

draftOpOf(b, kind, id) == draftOp(b, kind, id)

isDeleted(b, kind, id) == draftOpOf(b, kind, id) = "delete"

Mark(b, kind, id) ==
    IF isDeleted(b, kind, id) THEN "deleted" ELSE IF isUnpub(b, kind, id) THEN "unpublished" ELSE ""

-----------------------------------------------------------------------------
(* Flags in their folders. *)

With(list, field, x) == {id \in DOMAIN list : list[id].rec[field] = x}

flagsInGroup(b, g) == With(mergedFlags(b), "group", g)

sortedGroupIds(b) == DOMAIN mergedGroups(b)

(* Groups a flag may be put in: those whose delete is not staged. *)
selectableGroupIds(b) == {g \in sortedGroupIds(b) : draftOpOf(b, "group", g) # "delete"}

CountOn(list, f) == Cardinality(With(list, "flag", f) \intersect NotDeleted(list))
ruleCountFor(b, f) == CountOn(mergedRules(b), f)
expCountFor(b, f) == CountOn(mergedExperiments(b), f)

(* The kinds of drafts that hang on a flag. *)
flagChildDrafts(b, f) ==
    LET drafted(k, list) == \E id \in With(list, "flag", f) : isUnpub(b, k, id)
    IN {k \in {"rule", "experiment"} :
           drafted(k, IF k = "rule" THEN mergedRules(b) ELSE mergedExperiments(b))}

folderRow(b, f) ==
    LET MarkOf(dots, own) == IF dots # {} /\ own = "" THEN "unpublished" ELSE own
    IN [flag |-> f, rules |-> ruleCountFor(b, f), experiments |-> expCountFor(b, f),
        dots |-> flagChildDrafts(b, f),
        mark |-> MarkOf(flagChildDrafts(b, f), Mark(b, "flag", f)),
        moves |-> IF isDeleted(b, "flag", f) THEN {} ELSE selectableGroupIds(b) \union {NoRef}]

FolderOf(g, rows, own) ==
    [group |-> g, rows |-> rows,
     mark |-> IF own = "" /\ \E r \in rows : r.mark # "" THEN "unpublished" ELSE own]

folder(b, g) ==
    FolderOf(g, {folderRow(b, f) : f \in flagsInGroup(b, g)}, IF g = NoRef THEN "" ELSE Mark(b, "group", g))

(* A folder for each group, and Default for flags without one. *)
renderFlagFolders(b) ==
    {folder(b, g) : g \in sortedGroupIds(b) \union
        (IF flagsInGroup(b, NoRef) # {} \/ sortedGroupIds(b) = {} THEN {NoRef} ELSE {})}

(* The flags an experiment may be given, the groups of the flag dialog. *)
renderFlagSelects(b) == ValidFlags(b)
renderFlagGroupSelect(b) == selectableGroupIds(b) \union {NoRef}

-----------------------------------------------------------------------------
(* The dialogs of one flag. *)

flagRulesForActive(b, f) == With(mergedRules(b), "flag", f)

renderFlagRulesList(b, f) ==
    {[rule |-> r, mark |-> Mark(b, "rule", r)] : r \in flagRulesForActive(b, f)}

flagExperimentsForActive(b, f) == With(mergedExperiments(b), "flag", f)

renderFlagExperimentsList(b, f) ==
    {[experiment |-> x, mark |-> Mark(b, "experiment", x),
      status |-> mergedExperiments(b)[x].rec.status] : x \in flagExperimentsForActive(b, f)}

-----------------------------------------------------------------------------
(* The publish card: the drafts in memory, whichever scope they are of.    *)

isDraftTempId(id) == id # NoRef /\ id[1] = "draft"

draftBucketEntries(b, kind) == {<<id, b.drafts[kind][id]>> : id \in DOMAIN b.drafts[kind]}

NoExperiments(b) ==     \* mutant: a kind is not counted
    LET n == [k \in DraftKinds |-> Cardinality(draftBucketEntries(b, k))] IN n.group + n.flag + n.rule
draftSummary(b) ==
    LET n == [k \in DraftKinds |-> Cardinality(draftBucketEntries(b, k))]
    IN n.group + n.flag + n.rule + n.experiment

renderUnpublishedList(b) ==
    UNION {{[kind |-> k, id |-> x[1],
             note |-> IF isDraftTempId(x[1]) THEN "new"
                      ELSE IF x[2].op = "delete" THEN "deleted" ELSE ""] :
               x \in draftBucketEntries(b, k)} : k \in DraftKinds}
=============================================================================
