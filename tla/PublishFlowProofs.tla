------------------------- MODULE PublishFlowProofs --------------------------
(***************************************************************************)
(* Theorems about the admin page, for any environments, records, keys and  *)
(* bounds: memory and store agree (StoredAsShown), the publish card shows  *)
(* what it would publish (ListedAsApplied), a draft stays in the store     *)
(* until the server has its change (KeptUntilConfirmed), and what a run    *)
(* publishes is what the tables showed at the click (AppliedAsShown).      *)
(***************************************************************************)
EXTENDS PublishFlow, FiniteSetTheorems, TLAPS

-----------------------------------------------------------------------------
(* The shape of the browser: what its operators take apart.  Records and   *)
(* bodies are opaque; of a bucket only its finite domain is known.         *)
Shape(drafts) ==
    /\ DOMAIN drafts = DraftKinds
    /\ \A k \in DraftKinds : IsFiniteSet(DOMAIN drafts[k])

Browser(c) ==
    /\ DOMAIN c = {"env", "last", "drafts", "seq", "lists", "store"}
    /\ c.env \in Envs
    /\ c.last \in Envs \union {NoScope}
    /\ Shape(c.drafts)
    /\ DOMAIN c.store = Envs
    /\ \A e \in Envs : c.store[e] # NothingSaved => Shape(c.store[e].drafts)

Bucket(saved) == IF saved = NothingSaved THEN ensureDraftShape ELSE saved.drafts

(* The browser in order; and in order with the drafts of the environment   *)
(* selected now in memory.                                                 *)
Agrees(c) == Browser(c) /\ (c.last # NoScope => c.drafts = Bucket(c.store[c.last]))
InScope(c) == Agrees(c) /\ c.last = c.env

-----------------------------------------------------------------------------
(* The operators of the draft store keep the browser in order.             *)

(* Empty buckets have a finite, empty domain. *)
LEMMA EmptyShape == Shape(ensureDraftShape)
  BY FS_EmptySet DEF Shape, ensureDraftShape

(* A bucket without some of its entries is as finite as it was. *)
LEMMA WithoutDomain ==
    ASSUME NEW f, NEW ids, IsFiniteSet(DOMAIN f)
    PROVE  IsFiniteSet(DOMAIN Without(f, ids))
  BY FS_Subset, DOMAIN Without(f, ids) \subseteq DOMAIN f DEF Without

(* One more entry, or one replaced. *)
LEMMA WithDomain ==
    ASSUME NEW f, NEW id, NEW entry, IsFiniteSet(DOMAIN f)
    PROVE  IsFiniteSet(DOMAIN Put(f, id, entry))
  <1>1. DOMAIN Put(f, id, entry) = DOMAIN f \union {id}
    BY DEF Put
  <1> QED
    BY <1>1, FS_AddElement

(* What is saved is not nothing. *)
LEMMA SavedIsSomething ==
    ASSUME NEW n, NEW d
    PROVE  [seq |-> n, drafts |-> d] # NothingSaved
  <1>1. DOMAIN [seq |-> n, drafts |-> d] = {"seq", "drafts"}
    OBVIOUS
  <1>2. DOMAIN NothingSaved = {}
    BY DEF NothingSaved
  <1> QED
    BY <1>1, <1>2

(* Saving takes any browser and leaves one that is in scope. *)
LEMMA PersistInScope ==
    ASSUME NEW c, Browser(c)
    PROVE  /\ InScope(persistDrafts(c))
           /\ persistDrafts(c).env = c.env
           /\ persistDrafts(c).drafts = c.drafts
  BY ScopeAssumption, SavedIsSomething
  DEF Browser, InScope, Agrees, Bucket, persistDrafts, scopeKey

(* Looking at the scope leaves a browser that is in scope; one that is     *)
(* already is left alone.                                                  *)
LEMMA EnsureInScope ==
    ASSUME NEW c, Agrees(c)
    PROVE  InScope(ensureScope(c)) /\ ensureScope(c).env = c.env
  BY ScopeAssumption, EmptyShape
  DEF Browser, InScope, Agrees, Bucket, ensureScope, scopeKey, readScopeBucket

LEMMA EnsureAgain ==
    ASSUME NEW c, c.last = c.env
    PROVE  ensureScope(c) = c
  BY DEF ensureScope, scopeKey

(* Browsers that differ in nothing the shape looks at. *)
LEMMA OtherDrafts ==
    ASSUME NEW c, NEW drafts, Browser(c), Shape(drafts)
    PROVE  /\ Browser([c EXCEPT !.drafts = drafts])
           /\ [c EXCEPT !.drafts = drafts].env = c.env
  BY DEF Browser

LEMMA OneBucket ==
    ASSUME NEW drafts, Shape(drafts), NEW kind \in DraftKinds, NEW bucket,
           IsFiniteSet(DOMAIN bucket)
    PROVE  Shape([drafts EXCEPT ![kind] = bucket])
  BY DEF Shape

LEMMA OneBucketOf ==
    ASSUME NEW c, Browser(c), NEW kind \in DraftKinds, NEW bucket, IsFiniteSet(DOMAIN bucket)
    PROVE  /\ Browser([c EXCEPT !.drafts[kind] = bucket])
           /\ [c EXCEPT !.drafts[kind] = bucket].env = c.env
  <1>1. Shape([c.drafts EXCEPT ![kind] = bucket])
    BY OneBucket DEF Browser
  <1>2. [c EXCEPT !.drafts[kind] = bucket] = [c EXCEPT !.drafts = [c.drafts EXCEPT ![kind] = bucket]]
    BY DEF Browser
  <1> QED
    BY <1>1, <1>2, OtherDrafts

(* Dropping drafts that change nothing only removes entries, whichever     *)
(* pairs are taken, and saves what is left.                                *)
LEMMA PruneInScope ==
    ASSUME NEW c, InScope(c)
    PROVE  InScope(pruneNoopDrafts(c)) /\ pruneNoopDrafts(c).env = c.env
  <1> DEFINE Idle(k) == {id \in DOMAIN c.drafts[k] :
                            /\ c.drafts[k][id].op = "update"
                            /\ netZeroUpdate(c, k, id, c.drafts[k][id].body)}
             kept == [k \in DraftKinds |-> Without(c.drafts[k], Idle(k))]
             creates == {id \in DOMAIN kept.rule : kept.rule[id].op = "create"}
             pairs == {p \in creates \X DOMAIN kept.rule :
                          p[2] \in Undone(c, kept.rule, kept.rule[p[1]].body)}
             Meet(p, q) == p[1] = q[1] \/ p[2] = q[2]
             taken == CHOOSE P \in SUBSET pairs :
                         /\ \A p, q \in P : Meet(p, q) => p = q
                         /\ \A p \in pairs : \E q \in P : Meet(p, q)
             dropped == UNION {{p[1], p[2]} : p \in taken}
             pruned == [kept EXCEPT !.rule = Without(@, dropped)]
  <1>1. pruneNoopDrafts(c) = IF pruned = c.drafts THEN c
                             ELSE persistDrafts([c EXCEPT !.drafts = pruned])
    BY DEF pruneNoopDrafts
  <1> HIDE DEF dropped
  <1>2. Shape(kept)
    <2>1. ASSUME NEW k \in DraftKinds
          PROVE  IsFiniteSet(DOMAIN kept[k])
      <3>1. IsFiniteSet(DOMAIN c.drafts[k])
        BY DEF InScope, Agrees, Browser, Shape
      <3> QED
        BY <3>1, WithoutDomain
    <2> QED
      BY <2>1 DEF Shape
  <1> HIDE DEF kept
  <1>3. Shape(pruned)
    <2>1. IsFiniteSet(DOMAIN Without(kept.rule, dropped))
      BY <1>2, WithoutDomain DEF Shape, DraftKinds
    <2>2. pruned = [kept EXCEPT !["rule"] = Without(kept.rule, dropped)]
      BY <1>2 DEF Shape, DraftKinds
    <2> QED
      BY <1>2, <2>1, <2>2, OneBucket DEF DraftKinds
  <1> HIDE DEF pruned
  <1>4. CASE pruned = c.drafts
    BY <1>1, <1>4
  <1>5. CASE pruned # c.drafts
    <2> DEFINE other == [c EXCEPT !.drafts = pruned]
    <2>1. Browser(c)
      BY DEF InScope, Agrees
    <2>2. Browser(other) /\ other.env = c.env
      BY <1>3, <2>1, OtherDrafts
    <2>3. pruneNoopDrafts(c) = persistDrafts(other)
      BY <1>1, <1>5
    <2> HIDE DEF other
    <2> QED
      BY <2>2, <2>3, PersistInScope
  <1> QED
    BY <1>4, <1>5

(* The tail of every list load: whatever was in memory, the drafts of the  *)
(* environment selected now are there afterwards.                          *)
LEMMA RestoreInScope ==
    ASSUME NEW c, Browser(c)
    PROVE  InScope(restoreDrafts(c)) /\ restoreDrafts(c).env = c.env
  <1> DEFINE forgot == [c EXCEPT !.last = NoScope]
  <1>1. Agrees(forgot) /\ forgot.env = c.env
    BY DEF Browser, Agrees
  <1>2. restoreDrafts(c) = pruneNoopDrafts(ensureScope(forgot))
    BY DEF restoreDrafts
  <1> HIDE DEF forgot
  <1> QED
    BY <1>1, <1>2, EnsureInScope, PruneInScope

(* Staging touches one bucket and adds at most one entry. *)
LEMMA StagedDomain ==
    ASSUME NEW c, NEW kind, NEW op, NEW id, NEW prev, NEW sum, NEW entry,
           IsFiniteSet(DOMAIN c.drafts[kind])
    PROVE  IsFiniteSet(DOMAIN stagedBucket(c, kind, op, id, prev, sum, entry))
  <1> DEFINE bucket == c.drafts[kind]
             result == stagedBucket(c, kind, op, id, prev, sum, entry)
  <1>1. \/ result = bucket
        \/ \E ids : result = Without(bucket, ids)
        \/ result = Put(bucket, id, entry)
        \/ result = [bucket EXCEPT ![id].body = sum]
    BY Zenon DEF stagedBucket, coalesceRuleRecreate
  <1>2. IsFiniteSet(DOMAIN [bucket EXCEPT ![id].body = sum])
    OBVIOUS
  <1>3. IsFiniteSet(DOMAIN Put(bucket, id, entry))
    BY WithDomain
  <1>4. \A ids : IsFiniteSet(DOMAIN Without(bucket, ids))
    BY WithoutDomain
  <1> QED
    BY <1>1, <1>2, <1>3, <1>4

LEMMA StageInScope ==
    ASSUME NEW c, Agrees(c), NEW kind \in DraftKinds, NEW op, NEW id, NEW body, NEW members
    PROVE  /\ InScope(draftStage(c, kind, op, id, body, members))
           /\ draftStage(c, kind, op, id, body, members).env = c.env
  <1>1. ASSUME NEW d, Browser(d), d.env = c.env, NEW x
        PROVE  InScope(stageIn(d, kind, op, x, body, members)) /\ stageIn(d, kind, op, x, body, members).env = c.env
    <2> DEFINE bucket == d.drafts[kind]
               prev == OpOf(bucket, x)
               sum == IF prev \in {"create", "update"} THEN applyBody(bucket[x].body, body) ELSE body
               entry == newStoredEntry(op, body, members)
               staged == stagedBucket(d, kind, op, x, prev, sum, entry)
    <2>1. stageIn(d, kind, op, x, body, members) = persistDrafts([d EXCEPT !.drafts[kind] = staged])
      BY DEF stageIn
    <2>2. IsFiniteSet(DOMAIN staged)
      BY <1>1, StagedDomain DEF Browser, Shape
    <2> HIDE DEF staged
    <2> DEFINE other == [d EXCEPT !.drafts[kind] = staged]
    <2>3. Browser(other) /\ other.env = c.env
      BY <1>1, <2>2, OneBucketOf
    <2>4. stageIn(d, kind, op, x, body, members) = persistDrafts(other)
      BY <2>1
    <2> HIDE DEF other
    <2> QED
      BY <2>3, <2>4, PersistInScope
  <1>2. Browser(ensureScope(c)) /\ ensureScope(c).env = c.env
    BY EnsureInScope DEF InScope, Agrees
  <1>3. Browser(numbered(ensureScope(c))) /\ numbered(ensureScope(c)).env = c.env
    BY <1>2 DEF numbered, Browser
  <1>4. CASE op = "create"
    BY <1>1, <1>3, <1>4 DEF draftStage, createIn
  <1>5. CASE op # "create"
    BY <1>1, <1>2, <1>5 DEF draftStage
  <1> QED
    BY <1>4, <1>5

(* A draft that is discarded, or all of them. *)
LEMMA DiscardInScope ==
    ASSUME NEW c, Agrees(c), NEW kind \in DraftKinds, NEW id
    PROVE  InScope(draftDiscard(c, kind, id))
  <1> DEFINE d == ensureScope(c)
  <1>1. InScope(d) /\ Browser(d)
    BY EnsureInScope DEF InScope, Agrees
  <1> HIDE DEF d
  <1>2. IsFiniteSet(DOMAIN Without(d.drafts[kind], {id}))
    BY <1>1, WithoutDomain DEF Browser, Shape
  <1>3. [d EXCEPT !.drafts[kind] = Without(@, {id})] = [d EXCEPT !.drafts[kind] = Without(d.drafts[kind], {id})]
    BY <1>1 DEF Browser, Shape
  <1>4. InScope(persistDrafts([d EXCEPT !.drafts[kind] = Without(@, {id})]))
    BY <1>1, <1>2, <1>3, OneBucketOf, PersistInScope
  <1> QED
    BY <1>1, <1>4 DEF d, draftDiscard, discardIn

LEMMA ClearInScope ==
    ASSUME NEW c, Browser(c)
    PROVE  InScope(draftClearAll(c)) /\ draftClearAll(c).env = c.env
  BY EmptyShape, OtherDrafts, PersistInScope DEF draftClearAll

-----------------------------------------------------------------------------
(* The inductive invariant.  The browser is in order; a run that applies   *)
(* drafts shows it; and the card is true, unless a run is under way or an  *)
(* answer is that will draw it anew.                                       *)
PageShape(p) ==
    /\ DOMAIN p = {"dirty", "button", "rows", "applying", "gen", "shownEnv", "versions", "promote"}
    /\ p.dirty \in BOOLEAN /\ p.button \in BOOLEAN /\ p.applying \in BOOLEAN

RunShape ==
    DOMAIN run = {"phase", "todo", "sent", "map", "born", "calm", "goal", "env", "shared", "moot"}

(* What is left to send, and what is sent, is of the four kinds. *)
Kind(s) == "kind" \in DOMAIN s /\ s.kind \in DraftKinds
StepKinds ==
    /\ \A s \in run.todo : Kind(s)
    /\ run.phase = "applying" /\ run.sent # Nothing => Kind(run.sent.step)

ApplyingShown == run.phase = "applying" => page.applying

Redraws(m) == m.what = "flags" \/ (m.what = "releases" /\ m.gen = page.gen)

CardTrue ==
    /\ page.button = page.dirty
    /\ b.last = b.env /\ hasDrafts(b) => page.dirty
    /\ page.dirty => page.rows = renderUnpublishedList(b)

CardInv == page.applying \/ (\E m \in inbox : Redraws(m)) \/ CardTrue

PageInv == Agrees(b) /\ PageShape(page) /\ RunShape /\ StepKinds /\ ApplyingShown /\ CardInv

(* Drawing the card anew makes it true of the browser it is drawn for.     *)
LEMMA Refreshed ==
    ASSUME NEW p, PageShape(p), NEW c, c.last = c.env
    PROVE  /\ PageShape(refreshDraftChrome(p, c))
           /\ refreshDraftChrome(p, c).dirty = hasDrafts(c)
           /\ refreshDraftChrome(p, c).button = hasDrafts(c)
           /\ refreshDraftChrome(p, c).rows = renderUnpublishedList(c)
           /\ refreshDraftChrome(p, c).applying = p.applying
           /\ refreshDraftChrome(p, c).gen = p.gen
  <1>1. ensureScope(c) = c
    BY EnsureAgain
  <1>2. hasDrafts(c) \in BOOLEAN
    BY DEF hasDrafts
  <1> QED
    BY <1>1, <1>2 DEF refreshDraftChrome, setPublishState, PageShape

LEMMA NotApplying ==
    ASSUME NEW p, PageShape(p), NEW on \in BOOLEAN
    PROVE  /\ PageShape(setApplying(p, on))
           /\ setApplying(p, on).dirty = p.dirty
           /\ setApplying(p, on).button = (~on /\ p.dirty)
           /\ setApplying(p, on).rows = p.rows
           /\ setApplying(p, on).applying = on
           /\ setApplying(p, on).gen = p.gen
  BY DEF setApplying, PageShape

(* Drafts in memory are counted. *)
LEMMA SummaryCounts ==
    ASSUME NEW c, InScope(c), hasDrafts(c)
    PROVE  draftSummary(c) > 0
  <1> DEFINE N(k) == Cardinality(draftBucketEntries(c, k))
  <1>1. ensureScope(c) = c
    BY EnsureAgain DEF InScope
  <1>2. PICK kind \in DraftKinds : DOMAIN c.drafts[kind] # {}
    BY <1>1 DEF hasDrafts
  <1>3. \A k \in DraftKinds : IsFiniteSet(draftBucketEntries(c, k))
    <2> SUFFICES ASSUME NEW k \in DraftKinds
                 PROVE  IsFiniteSet(draftBucketEntries(c, k))
      OBVIOUS
    <2> DEFINE D == DOMAIN c.drafts[k]
               entry == [id \in D |-> <<id, c.drafts[k][id]>>]
    <2>1. IsFiniteSet(D)
      BY DEF InScope, Agrees, Browser, Shape
    <2>2. draftBucketEntries(c, k) = {entry[id] : id \in D}
      BY DEF draftBucketEntries
    <2>3. entry \in Surjection(D, draftBucketEntries(c, k))
      BY <2>2 DEF Surjection
    <2> HIDE DEF D, entry
    <2> QED
      BY <2>1, <2>3, FS_Surjection
  <1>4. \A k \in DraftKinds : N(k) \in Nat
    BY <1>3, FS_CardinalityType
  <1>5. draftBucketEntries(c, kind) # {}
    BY <1>2 DEF draftBucketEntries
  <1>6. N(kind) # 0
    BY <1>3, <1>5, FS_EmptySet
  <1>7. draftSummary(c) = N("group") + N("flag") + N("rule") + N("experiment")
    BY DEF draftSummary, DraftKinds
  <1> HIDE DEF N
  <1> QED
    BY <1>4, <1>6, <1>7 DEF DraftKinds

(* Steps that draw the card for the browser they leave. *)
LEMMA DrawnStep ==
    ASSUME PageInv, InScope(b'), page' = refreshDraftChrome(page, b')
    PROVE  PageShape(page') /\ page'.applying = page.applying /\ CardTrue'
  <1>1. b'.last = b'.env
    BY DEF InScope
  <1>2. PageShape(page)
    BY DEF PageInv
  <1> QED
    BY <1>1, <1>2, Refreshed DEF CardTrue

(* Steps that leave browser and card alone and take no answer that would   *)
(* have drawn it anew.                                                     *)
LEMMA QuietStep ==
    ASSUME PageInv, b' = b,
           page'.dirty = page.dirty, page'.button = page.button, page'.rows = page.rows,
           page'.applying = page.applying, page'.gen = page.gen,
           \A m \in inbox : Redraws(m) => m \in inbox'
    PROVE  CardInv'
  <1>1. CASE page.applying
    BY <1>1 DEF CardInv
  <1>2. CASE \E m \in inbox : Redraws(m)
    BY <1>2 DEF CardInv, Redraws
  <1>3. CASE CardTrue
    BY <1>3 DEF CardInv, CardTrue
  <1> QED
    BY <1>1, <1>2, <1>3 DEF PageInv, CardInv

-----------------------------------------------------------------------------
(* Each action keeps the invariant. *)

LEMMA StageKeeps ==
    ASSUME PageInv, NEW kind \in DraftKinds, NEW op, NEW id, NEW body, NEW members,
           Stage(kind, op, id, body, members)
    PROVE  PageInv'
  <1> DEFINE c == draftStage(b, kind, op, id, body, members)
  <1>1. InScope(c)
    BY StageInScope DEF PageInv
  <1>2. Staged(kind, op, id, c)
    BY DEF Stage
  <1> HIDE DEF c
  <1>3. b' = c /\ page' = refreshDraftChrome(page, b')
    BY <1>2 DEF Staged
  <1>4. InScope(b')
    BY <1>1, <1>3
  <1>5. PageShape(page') /\ page'.applying = page.applying /\ CardTrue'
    BY <1>3, <1>4, DrawnStep
  <1>6. RunShape' /\ StepKinds' /\ (run'.phase = "applying" => run.phase = "applying")
    <2>1. CASE run.phase \in {"applying", "publishing"}
      <3>1. /\ DOMAIN Follow(kind, op, id, c) = DOMAIN run
            /\ Follow(kind, op, id, c).phase = run.phase
            /\ Follow(kind, op, id, c).sent = run.sent
        BY DEF Follow, PageInv, RunShape
      <3>2. \A s \in Follow(kind, op, id, c).todo : Kind(s)
        BY DEF Follow, PageInv, RunShape, StepKinds, Kind
      <3> QED
        BY <1>2, <2>1, <3>1, <3>2 DEF Staged, PageInv, RunShape, StepKinds
    <2>2. CASE run.phase \notin {"applying", "publishing"}
      BY <1>2, <2>2 DEF Staged, IdleRun, RunShape, StepKinds
    <2> QED
      BY <2>1, <2>2
  <1> QED
    BY <1>4, <1>5, <1>6 DEF PageInv, InScope, ApplyingShown, CardInv

LEMMA StageSomethingKeeps ==
    ASSUME PageInv, StageSomething
    PROVE  PageInv'
  <1> USE DEF DraftKinds
  <1>1. CASE saveFlag \/ moveFlag \/ deleteFlag
    BY <1>1, StageKeeps DEF saveFlag, moveFlag, deleteFlag
  <1>2. CASE promptCreateGroup \/ renameGroup \/ deleteGroup
    BY <1>2, StageKeeps DEF promptCreateGroup, renameGroup, deleteGroup
  <1>3. CASE saveFlagRule \/ deleteRule
    BY <1>3, StageKeeps DEF saveFlagRule, deleteRule
  <1>4. CASE saveExperiment \/ setExperimentStatus \/ deleteExperiment
    BY <1>4, StageKeeps DEF saveExperiment, setExperimentStatus, deleteExperiment
  <1> QED
    BY <1>1, <1>2, <1>3, <1>4 DEF StageSomething

LEMMA DiscardKeeps ==
    ASSUME PageInv, discardUnpublished
    PROVE  PageInv'
  <1>1. InScope(draftClearAll(b))
    BY ClearInScope DEF PageInv, Agrees
  <1>2. b' = draftClearAll(b) /\ page' = refreshDraftChrome(page, b') /\ run' = IdleRun
    BY <1>1, EnsureAgain DEF discardUnpublished, InScope
  <1>3. PageShape(page') /\ CardTrue'
    BY <1>1, <1>2, DrawnStep
  <1> QED
    BY <1>1, <1>2, <1>3
    DEF PageInv, InScope, RunShape, IdleRun, StepKinds, ApplyingShown, CardInv

(* Steps of the run. *)
LEMMA PublishKeeps ==
    ASSUME PageInv, publishSubmit \/ runApplyStep \/ publish
    PROVE  PageInv'
  <1>1. Agrees(b')
    BY DEF PageInv, publishSubmit, runApplyStep, publish
  <1>2. CASE publishSubmit
    <2>1. PageShape(page') /\ page'.applying
      BY <1>2, NotApplying DEF publishSubmit, PageInv
    <2>2. RunShape' /\ run'.todo = buildApplySteps /\ run'.sent = Nothing
      BY <1>2 DEF publishSubmit, RunShape, IdleRun
    <2>3. \A s \in buildApplySteps : Kind(s)
      BY DEF buildApplySteps, AllSteps, Kind
    <2> QED
      BY <1>1, <2>1, <2>2, <2>3 DEF PageInv, StepKinds, ApplyingShown, CardInv
  <1>3. CASE runApplyStep
    <2>1. UNCHANGED <<b, page, inbox>> /\ run.phase = "applying"
      BY <1>3 DEF runApplyStep
    <2>2. PICK s \in NextSteps(run.todo) :
               \E o : run' = [run EXCEPT !.sent = [step |-> s, outcome |-> o, id |-> nextId]]
      BY <1>3 DEF runApplyStep
    <2>3. CardInv'
      BY <2>1, QuietStep
    <2>4. RunShape' /\ run'.todo = run.todo /\ run'.sent.step = s
      BY <2>2 DEF RunShape, PageInv
    <2>5. Kind(s)
      BY <2>2 DEF NextSteps, PageInv, StepKinds
    <2> QED
      BY <1>1, <2>1, <2>3, <2>4, <2>5 DEF PageInv, StepKinds, ApplyingShown
  <1>4. CASE publish
    <2>1. UNCHANGED <<b, page, inbox>>
      BY <1>4 DEF publish
    <2>2. PICK sent : run' = [run EXCEPT !.phase = "publishing", !.sent = sent]
      BY <1>4 DEF publish
    <2>3. CardInv'
      BY <2>1, QuietStep
    <2>4. RunShape' /\ run'.phase = "publishing" /\ run'.todo = run.todo
      BY <2>2 DEF RunShape, PageInv
    <2> QED
      BY <1>1, <2>1, <2>3, <2>4 DEF PageInv, StepKinds, ApplyingShown
  <1> QED
    BY <1>2, <1>3, <1>4

LEMMA ConsumeKeeps ==
    ASSUME PageInv, consumeDraft
    PROVE  PageInv'
  <1>1. Agrees(b')
    BY DiscardInScope DEF consumeDraft, PageInv, InScope, StepKinds, Kind
  <1>2. page' = page /\ page.applying
    BY DEF consumeDraft, PageInv, ApplyingShown
  <1>3. RunShape' /\ run'.todo \subseteq run.todo /\ run'.sent = Nothing
    BY DEF consumeDraft, PageInv, RunShape
  <1> QED
    BY <1>1, <1>2, <1>3 DEF PageInv, StepKinds, ApplyingShown, CardInv

LEMMA FailedKeeps ==
    ASSUME PageInv, applyFailed
    PROVE  PageInv'
  <1> DEFINE c == ensureScope(persistDrafts(b))
  <1>1. InScope(c)
    BY PersistInScope, EnsureInScope DEF PageInv, Agrees, InScope
  <1>2. /\ b' = c
        /\ page' = setApplying(refreshDraftChrome(page, c), FALSE)
        /\ run' = [run EXCEPT !.phase = "failed", !.sent = Nothing]
    BY DEF applyFailed
  <1> HIDE DEF c
  <1>3. CardTrue' /\ PageShape(page')
    <2> DEFINE p == refreshDraftChrome(page, c)
    <2>1. PageShape(p) /\ p.dirty = hasDrafts(c) /\ p.rows = renderUnpublishedList(c)
      BY <1>1, Refreshed DEF PageInv, InScope
    <2> HIDE DEF p
    <2>2. page' = setApplying(p, FALSE)
      BY <1>2 DEF p
    <2>3. /\ PageShape(page')
          /\ page'.dirty = p.dirty /\ page'.button = p.dirty /\ page'.rows = p.rows
      BY <2>1, <2>2, NotApplying DEF PageShape
    <2> QED
      BY <1>2, <2>1, <2>3 DEF CardTrue
  <1>4. RunShape' /\ run'.phase = "failed" /\ run'.todo = run.todo
    BY <1>2 DEF RunShape, PageInv
  <1> QED
    BY <1>1, <1>2, <1>3, <1>4 DEF PageInv, InScope, StepKinds, ApplyingShown, CardInv

LEMMA MarkKeeps ==
    ASSUME PageInv, markPublished
    PROVE  PageInv'
  <1>1. Agrees(b')
    BY ClearInScope, EnsureInScope DEF markPublished, PageInv, InScope, Agrees
  <1>2. PageShape(page')
    <2> DEFINE c == ensureScope(draftClearAll(b))
               p == setApplying(page, FALSE)
    <2>1. InScope(c)
      BY ClearInScope, EnsureInScope DEF PageInv, InScope, Agrees
    <2>2. PageShape(p)
      BY NotApplying DEF PageInv
    <2>3. PageShape(refreshDraftChrome(p, c))
      BY <2>1, <2>2, Refreshed DEF InScope
    <2> QED
      BY <2>2, <2>3 DEF markPublished
  <1>3. \E m \in inbox' : m.what = "flags"
    <2> DEFINE asked == Ask("flags", page.gen, "")
    <2>1. asked \in inbox'
      BY DEF markPublished
    <2>2. asked.what = "flags"
      BY DEF Ask
    <2> HIDE DEF asked
    <2> QED
      BY <2>1, <2>2
  <1>4. RunShape' /\ run'.phase # "applying" /\ run'.todo = run.todo
    BY DEF markPublished, RunShape, PageInv
  <1> QED
    BY <1>1, <1>2, <1>3, <1>4 DEF PageInv, StepKinds, ApplyingShown, CardInv, Redraws

(* The dialogs of a release, and the other admin. *)
LEMMA DialogKeeps ==
    ASSUME PageInv, rollback \/ openPromoteDialog \/ closePromoteDialog \/ OtherPublishes
    PROVE  PageInv'
  <1>1. b' = b /\ run' = run /\ inbox \subseteq inbox'
    BY DEF rollback, openPromoteDialog, closePromoteDialog, OtherPublishes
  <1>2. \/ page' = page
        \/ \E promote : page' = [page EXCEPT !.promote = promote]
    BY DEF rollback, openPromoteDialog, closePromoteDialog, OtherPublishes
  <1>3. /\ PageShape(page')
        /\ page'.dirty = page.dirty /\ page'.button = page.button /\ page'.rows = page.rows
        /\ page'.applying = page.applying /\ page'.gen = page.gen
    BY <1>2 DEF PageInv, PageShape
  <1>4. CardInv'
    BY <1>1, <1>3, QuietStep
  <1> QED
    BY <1>1, <1>3, <1>4 DEF PageInv, RunShape, StepKinds, ApplyingShown

LEMMA PromoteKeeps ==
    ASSUME PageInv, submitPromote
    PROVE  PageInv'
  <1>1. b' = b /\ run' = run /\ inbox \subseteq inbox' /\ ~page.applying
        /\ page' = setApplying(page, FALSE)
    BY DEF submitPromote
  <1>2. /\ PageShape(page')
        /\ page'.dirty = page.dirty /\ page'.button = page.dirty /\ page'.rows = page.rows
        /\ ~page'.applying /\ page'.gen = page.gen
    BY <1>1, NotApplying DEF PageInv, PageShape
  <1>3. CASE \E m \in inbox : Redraws(m)
    BY <1>1, <1>2, <1>3 DEF PageInv, RunShape, StepKinds, ApplyingShown, CardInv, Redraws
  <1>4. CASE CardTrue
    BY <1>1, <1>2, <1>4 DEF PageInv, RunShape, StepKinds, ApplyingShown, CardInv, CardTrue
  <1> QED
    BY <1>1, <1>3, <1>4 DEF PageInv, CardInv

(* A list that is shown: drafts are read again, and the card is drawn. *)
LEMMA ShownKeeps ==
    ASSUME PageInv, NEW c, Browser(c), Shown(restoreDrafts(c)), run' = [run EXCEPT !.shared = FALSE]
    PROVE  PageInv'
  <1>1. InScope(restoreDrafts(c))
    BY RestoreInScope
  <1>2. InScope(b') /\ page' = refreshDraftChrome(page, b')
    BY <1>1 DEF Shown
  <1>3. PageShape(page') /\ page'.applying = page.applying /\ CardTrue'
    BY <1>2, DrawnStep
  <1>4. RunShape' /\ run'.phase = run.phase /\ run'.todo = run.todo /\ run'.sent = run.sent
    BY DEF RunShape, PageInv
  <1> QED
    BY <1>2, <1>3, <1>4 DEF PageInv, InScope, StepKinds, ApplyingShown, CardInv

LEMMA ListKeeps ==
    ASSUME PageInv, loadFlags \/ loadRules \/ loadExperiments
    PROVE  PageInv'
  <1>1. ASSUME NEW data PROVE Browser(Loaded(b, data))
    BY DEF Loaded, PageInv, Agrees, Browser
  <1>2. CASE loadFlags \/ loadRules
    BY <1>1, <1>2, ShownKeeps DEF loadFlags, loadRules
  <1>3. CASE loadExperiments
    <2>1. PICK exps : Shown(restoreDrafts([b EXCEPT !.lists.experiment = [x \in Mine(exps) |-> exps[x]]]))
      BY <1>3 DEF loadExperiments
    <2>2. Browser([b EXCEPT !.lists.experiment = [x \in Mine(exps) |-> exps[x]]])
      BY DEF PageInv, Agrees, Browser
    <2>3. run' = [run EXCEPT !.shared = FALSE]
      BY <1>3 DEF loadExperiments
    <2> QED
      BY <2>1, <2>2, <2>3, ShownKeeps
  <1> QED
    BY <1>2, <1>3

(* Releases, shown or dropped. *)
LEMMA ReleasesKeep ==
    ASSUME PageInv, loadReleases
    PROVE  PageInv'
  <1>1. b' = b /\ run' = run
    BY DEF loadReleases
  <1>2. PICK m, data :
           page' = IF m.then = "promote"
                   THEN refreshPromoteDialog(setPublishState(Versions(page, data), b, draftSummary(b) > 0))
                   ELSE setPublishState(Versions(page, data), b, draftSummary(b) > 0 \/ m.then = "mark")
    BY DEF loadReleases
  <1> DEFINE dirty == draftSummary(b) > 0 \/ (m.then # "promote" /\ m.then = "mark")
  <1>3. /\ PageShape(page') /\ page'.applying = page.applying
        /\ page'.dirty = dirty /\ page'.button = dirty /\ page'.rows = renderUnpublishedList(b)
    <2> DEFINE shown == Versions(page, data)
               p == setPublishState(shown, b, dirty)
    <2>1. PageShape(shown) /\ shown.applying = page.applying
      BY DEF Versions, PageShape, PageInv
    <2> HIDE DEF shown
    <2>2. /\ PageShape(p) /\ p.applying = page.applying
          /\ p.dirty = dirty /\ p.button = dirty /\ p.rows = renderUnpublishedList(b)
      BY <2>1 DEF setPublishState, PageShape
    <2>3. page' = p \/ page' = refreshPromoteDialog(p)
      BY <1>2 DEF shown
    <2> HIDE DEF p, dirty
    <2> QED
      BY <2>2, <2>3 DEF refreshPromoteDialog, PageShape
  <1>4. b.last = b.env /\ hasDrafts(b) => dirty
    BY <1>2, SummaryCounts DEF PageInv, InScope
  <1>5. CardTrue'
    BY <1>1, <1>3, <1>4 DEF CardTrue
  <1> QED
    BY <1>1, <1>3, <1>5 DEF PageInv, RunShape, StepKinds, ApplyingShown, CardInv

LEMMA DroppedKeeps ==
    ASSUME PageInv, Dropped
    PROVE  PageInv'
  <1>1. b' = b /\ run' = run
    BY DEF Dropped
  <1>2. PICK m \in inbox :
           /\ m.what # "flags" /\ Stale(m)
           /\ inbox' = inbox \ {m}
           /\ page' = IF m.then = "mark" THEN setPublishState(page, b, TRUE)
                      ELSE IF m.then = "promote" THEN refreshPromoteDialog(page) ELSE page
    BY DEF Dropped
  <1>3. CASE m.then = "mark"
    <2>1. /\ PageShape(page') /\ page'.applying = page.applying
          /\ page'.dirty /\ page'.button /\ page'.rows = renderUnpublishedList(b)
      BY <1>2, <1>3 DEF PageInv, PageShape, setPublishState
    <2>2. CardTrue'
      BY <1>1, <2>1 DEF CardTrue, PageShape
    <2> QED
      BY <1>1, <2>1, <2>2 DEF PageInv, RunShape, StepKinds, ApplyingShown, CardInv
  <1>4. CASE m.then # "mark"
    <2>1. /\ PageShape(page')
          /\ page'.dirty = page.dirty /\ page'.button = page.button /\ page'.rows = page.rows
          /\ page'.applying = page.applying /\ page'.gen = page.gen
      BY <1>2, <1>4 DEF PageInv, PageShape, refreshPromoteDialog
    <2>2. \A x \in inbox : Redraws(x) => x \in inbox'
      BY <1>2 DEF Redraws, Stale
    <2>3. CardInv'
      BY <1>1, <2>1, <2>2, QuietStep
    <2> QED
      BY <1>1, <2>1, <2>3 DEF PageInv, RunShape, StepKinds, ApplyingShown
  <1> QED
    BY <1>3, <1>4

(* Around the page: what was shown is stale, and what replaces it is asked *)
(* for in the same step.                                                   *)
LEMMA SwitchKeeps ==
    ASSUME PageInv, envSelectChange
    PROVE  PageInv'
  <1>1. Agrees(b')
    BY DEF envSelectChange, PageInv, Agrees, Browser
  <1>2. PageShape(page') /\ page'.applying = page.applying /\ page'.gen = page.gen + 1
    BY DEF envSelectChange, PageInv, PageShape
  <1>3. \E m \in inbox' : m.what = "releases" /\ m.gen = page.gen + 1
    <2> DEFINE asked == Ask("releases", page.gen + 1, "")
    <2>1. asked \in inbox'
      BY DEF envSelectChange
    <2>2. asked.what = "releases" /\ asked.gen = page.gen + 1
      BY DEF Ask
    <2> HIDE DEF asked
    <2> QED
      BY <2>1, <2>2
  <1>4. RunShape' /\ run'.phase = run.phase /\ run'.todo = run.todo /\ run'.sent = run.sent
    BY DEF envSelectChange, RunShape, PageInv
  <1> QED
    BY <1>1, <1>2, <1>3, <1>4 DEF PageInv, StepKinds, ApplyingShown, CardInv, Redraws

LEMMA ReloadKeeps ==
    ASSUME PageInv, Reload
    PROVE  PageInv'
  <1>1. Agrees(b')
    BY EmptyShape DEF Reload, PageInv, Agrees, Browser
  <1>2. PageShape(page')
    BY DEF Reload, PageShape, EmptyPage
  <1>3. \E m \in inbox' : m.what = "flags"
    BY DEF Reload, Ask
  <1>4. RunShape' /\ StepKinds' /\ run'.phase = "idle"
    BY DEF Reload, RunShape, IdleRun, StepKinds
  <1> QED
    BY <1>1, <1>2, <1>3, <1>4 DEF PageInv, ApplyingShown, CardInv, Redraws

-----------------------------------------------------------------------------
(* The theorems. *)

LEMMA InitPage == Init => PageInv
  <1> SUFFICES ASSUME Init PROVE PageInv
    OBVIOUS
  <1>1. PICK e \in Envs :
           /\ b = [env |-> e, last |-> e, drafts |-> ensureDraftShape, seq |-> 0,
                   lists |-> Seed, store |-> [x \in Envs |-> NothingSaved]]
           /\ page = [EmptyPage EXCEPT !.shownEnv = e, !.versions = [x \in Envs |-> 2]]
    BY DEF Init
  <1>2. Agrees(b) /\ b.last = b.env
    BY <1>1, EmptyShape DEF Agrees, Browser, Bucket
  <1>3. PageShape(page) /\ ~page.dirty /\ ~page.button /\ ~page.applying
    BY <1>1 DEF PageShape, EmptyPage
  <1>4. ~hasDrafts(b)
    BY <1>1, <1>2, EnsureAgain DEF hasDrafts, ensureDraftShape
  <1>5. RunShape /\ StepKinds /\ ApplyingShown
    BY DEF Init, IdleRun, RunShape, StepKinds, ApplyingShown
  <1>6. CardTrue
    BY <1>3, <1>4 DEF CardTrue, PageShape
  <1> QED
    BY <1>2, <1>3, <1>5, <1>6 DEF PageInv, CardInv

LEMMA StepKeepsPage == PageInv /\ [Next]_vars => PageInv'
  <1> SUFFICES ASSUME PageInv, [Next]_vars PROVE PageInv'
    OBVIOUS
  <1>1. CASE StageSomething \/ discardUnpublished
    BY <1>1, StageSomethingKeeps, DiscardKeeps
  <1>2. CASE publishSubmit \/ runApplyStep \/ publish
    BY <1>2, PublishKeeps
  <1>3. CASE consumeDraft \/ applyFailed \/ markPublished
    BY <1>3, ConsumeKeeps, FailedKeeps, MarkKeeps
  <1>4. CASE rollback \/ openPromoteDialog \/ closePromoteDialog \/ OtherPublishes
    BY <1>4, DialogKeeps
  <1>5. CASE submitPromote
    BY <1>5, PromoteKeeps
  <1>6. CASE loadFlags \/ loadRules \/ loadExperiments
    BY <1>6, ListKeeps
  <1>7. CASE loadReleases \/ Dropped
    BY <1>7, ReleasesKeep, DroppedKeeps
  <1>8. CASE envSelectChange \/ Reload
    BY <1>8, SwitchKeeps, ReloadKeeps
  <1>9. CASE UNCHANGED vars
    BY <1>9 DEF vars, PageInv, RunShape, StepKinds, ApplyingShown, CardInv, CardTrue, Redraws
  <1> QED
    BY <1>1, <1>2, <1>3, <1>4, <1>5, <1>6, <1>7, <1>8, <1>9 DEF Next

(* A reload loses nothing: the buckets in memory are always the saved ones *)
(* of the environment they were read for, whatever is staged, applied,     *)
(* discarded, pruned or loaded, and however often the environment changes. *)
THEOREM MemoryIsStored == Spec => []StoredAsShown
  <1>1. PageInv => StoredAsShown
    BY DEF PageInv, Agrees, Bucket, StoredAsShown
  <1> QED
    BY <1>1, InitPage, StepKeepsPage, PTL DEF Spec

(* When no answer is on its way and no run is under way, drafts of the     *)
(* environment selected now have opened the publish card, and an open card *)
(* lists exactly the drafts that a click would apply.                      *)
THEOREM CardIsTrue == Spec => []ListedAsApplied
  <1>1. PageInv => ListedAsApplied
    BY DEF PageInv, CardInv, CardTrue, ListedAsApplied
  <1> QED
    BY <1>1, InitPage, StepKeepsPage, PTL DEF Spec

-----------------------------------------------------------------------------
(* Ids.  The server's are given out in order, and its relations name ids   *)
(* it gave out, those of flags, rules and experiments ids that are there;  *)
(* a create, and nothing else, is drafted under a temp id of its kind;     *)
(* what is drafted or listed otherwise has an id of the server; relations  *)
(* name such ids.                                                          *)
TempOf(kind, id) == isDraftTempId(id) /\ id[2] = kind
KnownId(k, id, next) == TempOf(k, id) \/ id \in Issued(k, next)

KnownRefs(body, next) ==
    /\ "group" \in DOMAIN body => body.group = NoRef \/ KnownId("group", body.group, next)
    /\ "flag" \in DOMAIN body => KnownId("flag", body.flag, next)

EntryOk(k, entry, next) ==
    /\ DOMAIN entry = {"op", "body", "members"}
    /\ entry.op \in {"create", "update", "delete"}
    /\ KnownRefs(entry.body, next)
    /\ entry.op = "create" => HasRelation(k, entry.body)

DraftIds(drafts, next) ==
    \A k \in DraftKinds : \A id \in DOMAIN drafts[k] :
        /\ EntryOk(k, drafts[k][id], next)
        /\ TempOf(k, id) \/ id \in Issued(k, next)
        /\ drafts[k][id].op = "create" <=> TempOf(k, id)

Issues(rec, next) == Relates(rec, Issued("group", next), Issued("flag", next))

ListIds(lists, next) ==
    \A k \in DOMAIN lists :
        /\ DOMAIN lists[k] \subseteq Issued(k, next)
        /\ \A id \in DOMAIN lists[k] : Issues(lists[k][id], next)

Related(records, next) ==
    \A k \in DraftKinds : \A id \in DOMAIN records[k] : Issues(records[k][id], next)

(* No flag is in a group that is gone, no rule hangs on a flag that is.    *)
Hanging(records, k, rec) ==
    /\ Record(rec) /\ HasRelation(k, rec)
    /\ k = "flag" => rec.group \in DOMAIN records.group \union {NoRef}
    /\ k \in {"rule", "experiment"} => rec.flag \in DOMAIN records.flag

BrowserIds(c, next) ==
    /\ DOMAIN c.lists = DraftKinds /\ ListIds(c.lists, next)
    /\ DraftIds(c.drafts, next)
    /\ \A e \in Envs : DraftIds(Bucket(c.store[e]), next)

ServerIds(records, next) ==
    /\ DOMAIN records = DraftKinds /\ ListIds(records, next)
    /\ Related(records, next)
    /\ \A k \in DraftKinds : \A id \in DOMAIN records[k] : Hanging(records, k, records[k][id])

Answers(m, next) ==
    /\ DOMAIN m.data \subseteq DraftKinds /\ ListIds(m.data, next)
    /\ m.what = "experiments" => "experiment" \in DOMAIN m.data

MailIds(mail, next) == \A m \in mail : Answers(m, next)

(* A step creates a record with its relation. *)
StepOf(k, id) == [kind |-> k, id |-> id, op |-> b.drafts[k][id].op, body |-> b.drafts[k][id].body]

StepIds(s, next) ==
    /\ DOMAIN s = {"kind", "id", "op", "body"} /\ s.kind \in DraftKinds
    /\ KnownId(s.kind, s.id, next)
    /\ s.op \in {"create", "update", "delete"} /\ KnownRefs(s.body, next)
    /\ s.op = "create" => TempOf(s.kind, s.id) /\ HasRelation(s.kind, s.body)

TodoIds(todo, next) == \A s \in todo : StepIds(s, next)

IdsInv ==
    /\ nextId \in Nat
    /\ ServerIds(live, nextId)
    /\ BrowserIds(b, nextId)
    /\ MailIds(inbox, nextId)
    /\ TodoIds(run.todo, nextId)

-----------------------------------------------------------------------------
(* What a list drops. *)

(* Pairs that do not meet can be taken until every pair meets a taken one, *)
(* if there are finitely many.                                             *)
LEMMA PairsCanBeTaken ==
    ASSUME NEW pairs, IsFiniteSet(pairs)
    PROVE  \E P \in SUBSET pairs :
              /\ \A p, q \in P : p[1] = q[1] \/ p[2] = q[2] => p = q
              /\ \A p \in pairs : \E q \in P : p[1] = q[1] \/ p[2] = q[2]
  <1> DEFINE Meet(p, q) == p[1] = q[1] \/ p[2] = q[2]
             Apart(P) == \A p, q \in P : Meet(p, q) => p = q
             Rest == {pairs \ P : P \in {Q \in SUBSET pairs : Apart(Q)}}
  <1>1. FiniteSubsetsOf(pairs) = SUBSET pairs
    BY FS_FiniteSubsetsOfFinite
  <1>2. IsWellFoundedOn(StrictSubsetOrdering(pairs), SUBSET pairs)
    BY <1>1, FS_StrictSubsetOrderingWellFounded
  <1>3. Rest \subseteq SUBSET pairs
    OBVIOUS
  <1>4. pairs \ {} \in Rest
    OBVIOUS
  <1>5. PICK rest \in Rest : \A y \in Rest : <<y, rest>> \notin StrictSubsetOrdering(pairs)
    <2> HIDE DEF Rest
    <2> QED
      BY <1>2, <1>3, <1>4, WFMin
  <1>6. PICK P \in SUBSET pairs : Apart(P) /\ rest = pairs \ P
    BY <1>5
  <1>7. ASSUME NEW p \in pairs, \A q \in P : ~Meet(p, q)
        PROVE  FALSE
    <2> DEFINE more == P \union {p}
               less == pairs \ more
    <2>1. Apart(more)
      BY <1>6, <1>7
    <2>2. less \in Rest
      BY <2>1
    <2>3. p \in rest /\ p \notin less /\ less \subseteq rest
      BY <1>6, <1>7
    <2>4. <<less, rest>> \in StrictSubsetOrdering(pairs)
      BY <2>3, <1>6 DEF StrictSubsetOrdering
    <2> QED
      BY <1>5, <2>2, <2>4
  <1> QED
    BY <1>6, <1>7

(* Buckets with some of the entries, as they were. *)
Fewer(some, drafts) ==
    /\ DOMAIN some = DraftKinds
    /\ \A k \in DraftKinds :
          /\ DOMAIN some[k] \subseteq DOMAIN drafts[k]
          /\ \A id \in DOMAIN some[k] : some[k][id] = drafts[k][id]

Pair(c, create, delete) ==
    LET bucket == c.drafts.rule
    IN /\ create \in DOMAIN bucket /\ bucket[create].op = "create"
       /\ delete \in DOMAIN bucket /\ bucket[delete].op = "delete"
       /\ ruleCreateMatchesDelete(c, bucket[create].body, delete)

(* A draft is dropped as an update that changes nothing or as one of a     *)
(* pair, over the lists that are loaded.                                   *)
Droppable(c, k, id) ==
    \/ /\ c.drafts[k][id].op = "update"
       /\ netZeroUpdate(c, k, id, c.drafts[k][id].body)
    \/ k = "rule" /\ \E other : Pair(c, id, other) \/ Pair(c, other, id)

LEMMA PruneDrops ==
    ASSUME NEW c, InScope(c)
    PROVE  \E some :
              /\ Fewer(some, c.drafts)
              /\ \A k \in DraftKinds : \A id \in DOMAIN c.drafts[k] \ DOMAIN some[k] : Droppable(c, k, id)
              /\ \/ pruneNoopDrafts(c) = c /\ some = c.drafts
                 \/ pruneNoopDrafts(c) = persistDrafts([c EXCEPT !.drafts = some])
  <1> DEFINE Idle(k) == {id \in DOMAIN c.drafts[k] :
                            /\ c.drafts[k][id].op = "update"
                            /\ netZeroUpdate(c, k, id, c.drafts[k][id].body)}
             kept == [k \in DraftKinds |-> Without(c.drafts[k], Idle(k))]
             creates == {id \in DOMAIN kept.rule : kept.rule[id].op = "create"}
             pairs == {p \in creates \X DOMAIN kept.rule :
                          p[2] \in Undone(c, kept.rule, kept.rule[p[1]].body)}
             Meet(p, q) == p[1] = q[1] \/ p[2] = q[2]
             taken == CHOOSE P \in SUBSET pairs :
                         /\ \A p, q \in P : Meet(p, q) => p = q
                         /\ \A p \in pairs : \E q \in P : Meet(p, q)
             dropped == UNION {{p[1], p[2]} : p \in taken}
             pruned == [kept EXCEPT !.rule = Without(@, dropped)]
  <1>1. pruneNoopDrafts(c) = IF pruned = c.drafts THEN c
                             ELSE persistDrafts([c EXCEPT !.drafts = pruned])
    BY DEF pruneNoopDrafts
  <1>2. "rule" \in DraftKinds /\ DOMAIN kept = DraftKinds
    BY DEF DraftKinds
  <1>3. ASSUME NEW k \in DraftKinds
        PROVE  /\ DOMAIN kept[k] = DOMAIN c.drafts[k] \ Idle(k)
               /\ \A id \in DOMAIN kept[k] : kept[k][id] = c.drafts[k][id]
    BY DEF Without
  <1>4. IsFiniteSet(pairs)
    <2>1. IsFiniteSet(DOMAIN kept.rule)
      BY <1>2, WithoutDomain DEF InScope, Agrees, Browser, Shape
    <2>2. IsFiniteSet(creates)
      BY <2>1, FS_Subset, creates \subseteq DOMAIN kept.rule
    <2>3. IsFiniteSet(creates \X DOMAIN kept.rule)
      <3> HIDE DEF creates, kept
      <3> QED
        BY <2>1, <2>2, FS_Product
    <2> QED
      BY <2>3, FS_Subset, pairs \subseteq creates \X DOMAIN kept.rule
  <1>5. taken \subseteq pairs
    <2> HIDE DEF pairs
    <2>1. \E P \in SUBSET pairs :
             /\ \A p, q \in P : Meet(p, q) => p = q
             /\ \A p \in pairs : \E q \in P : Meet(p, q)
      BY <1>4, PairsCanBeTaken
    <2> QED
      BY <2>1
  <1> HIDE DEF taken
  <1>6. ASSUME NEW p \in pairs
        PROVE  Pair(c, p[1], p[2])
    <2>1. p[1] \in DOMAIN kept.rule /\ p[2] \in DOMAIN kept.rule
      OBVIOUS
    <2>2. kept.rule[p[1]] = c.drafts.rule[p[1]] /\ kept.rule[p[2]] = c.drafts.rule[p[2]]
      BY <1>2, <1>3, <2>1
    <2>3. p[1] \in DOMAIN c.drafts.rule /\ p[2] \in DOMAIN c.drafts.rule
      BY <1>2, <1>3, <2>1
    <2>4. kept.rule[p[1]].op = "create" /\ kept.rule[p[2]].op = "delete"
      BY DEF Undone
    <2>5. ruleCreateMatchesDelete(c, kept.rule[p[1]].body, p[2])
      BY DEF Undone
    <2> HIDE DEF kept
    <2> QED
      BY <2>2, <2>3, <2>4, <2>5 DEF Pair
  <1>7. ASSUME NEW id \in dropped
        PROVE  \E other : Pair(c, id, other) \/ Pair(c, other, id)
    <2>1. PICK p \in taken : id = p[1] \/ id = p[2]
      OBVIOUS
    <2>2. Pair(c, p[1], p[2])
      <3> HIDE DEF pairs, Pair
      <3> QED
        BY <1>5, <1>6, <2>1
    <2> HIDE DEF Pair
    <2> QED
      BY <2>1, <2>2
  <1> HIDE DEF dropped
  <1>8. /\ DOMAIN pruned = DraftKinds
        /\ \A k \in DraftKinds : pruned[k] = IF k = "rule" THEN Without(kept.rule, dropped) ELSE kept[k]
    BY <1>2
  <1>9. Fewer(pruned, c.drafts)
    <2> HIDE DEF pruned, kept
    <2> QED
      BY <1>2, <1>3, <1>8 DEF Fewer, Without
  <1>10. ASSUME NEW k \in DraftKinds, NEW id \in DOMAIN c.drafts[k] \ DOMAIN pruned[k]
         PROVE  Droppable(c, k, id)
    <2>1. CASE id \in Idle(k)
      BY <2>1 DEF Droppable
    <2>2. CASE id \notin Idle(k)
      <3>1. k = "rule" /\ id \in dropped
        <4>1. id \in DOMAIN kept[k]
          BY <2>2, <1>3, <1>10
        <4> HIDE DEF pruned, kept
        <4> QED
          BY <4>1, <1>8, <1>10 DEF Without
      <3> QED
        BY <3>1, <1>7 DEF Droppable
    <2> QED
      BY <2>1, <2>2
  <1> HIDE DEF pruned, kept
  <1> QED
    BY <1>1, <1>9, <1>10

(* Ids that were given out stay given out, and are no temp ids. *)
LEMMA IssuedGrows ==
    ASSUME NEW k, NEW m \in Nat, NEW n \in Nat, m <= n
    PROVE  Issued(k, m) \subseteq Issued(k, n)
  BY DEF Issued

LEMMA IssuedIsPlain ==
    ASSUME NEW k \in DraftKinds, NEW n, NEW id \in Issued(k, n)
    PROVE  ~isDraftTempId(id) /\ id # NoRef /\ id # Dangling
  <1>1. PICK i \in 0..n - 1 : id = <<k, i>>
    BY DEF Issued, Live
  <1>2. id[1] = k /\ k # "draft"
    BY <1>1 DEF DraftKinds
  <1>3. id # NoRef /\ id # Dangling
    BY <1>1 DEF NoRef, Dangling
  <1> QED
    BY <1>2, <1>3 DEF isDraftTempId

LEMMA NextIsFresh ==
    ASSUME NEW k, NEW n \in Nat, NEW j
    PROVE  Live(k, n) \notin Issued(j, n) /\ Live(k, n) \in Issued(k, n + 1)
  BY DEF Issued, Live

LEMMA TempIsTemp ==
    ASSUME NEW k, NEW n
    PROVE  TempOf(k, Temp(k, n))
  BY DEF TempOf, Temp, isDraftTempId, NoRef

LEMMA IdsGrow ==
    ASSUME NEW m \in Nat, NEW n \in Nat, m <= n
    PROVE  /\ \A drafts : DraftIds(drafts, m) => DraftIds(drafts, n)
           /\ \A lists : DOMAIN lists \subseteq DraftKinds /\ ListIds(lists, m) => ListIds(lists, n)
           /\ \A c : BrowserIds(c, m) => BrowserIds(c, n)
           /\ \A mail : MailIds(mail, m) => MailIds(mail, n)
           /\ \A todo : TodoIds(todo, m) => TodoIds(todo, n)
  <1>1. \A k \in DraftKinds : Issued(k, m) \subseteq Issued(k, n)
    BY IssuedGrows
  <1>2. \A k \in DraftKinds : \A id : KnownId(k, id, m) => KnownId(k, id, n)
    BY <1>1 DEF KnownId
  <1>3. \A body : KnownRefs(body, m) => KnownRefs(body, n)
    BY <1>2 DEF KnownRefs, DraftKinds
  <1>4. \A drafts : DraftIds(drafts, m) => DraftIds(drafts, n)
    BY <1>1, <1>3 DEF DraftIds, EntryOk
  <1>5. \A todo : TodoIds(todo, m) => TodoIds(todo, n)
    BY <1>2, <1>3 DEF TodoIds, StepIds
  <1>6. \A lists : DOMAIN lists \subseteq DraftKinds /\ ListIds(lists, m) => ListIds(lists, n)
    <2>1. \A rec : Issues(rec, m) => Issues(rec, n)
      BY <1>1 DEF Issues, Relates, DraftKinds
    <2> QED
      BY <1>1, <2>1 DEF ListIds
  <1>7. \A c : BrowserIds(c, m) => BrowserIds(c, n)
    BY <1>4, <1>6 DEF BrowserIds
  <1>8. \A mail : MailIds(mail, m) => MailIds(mail, n)
    BY <1>6 DEF MailIds, Answers
  <1> QED
    BY <1>4, <1>5, <1>6, <1>7, <1>8

(* The operators of the draft store. *)
LEMMA EmptyIds == \A n : DraftIds(ensureDraftShape, n)
  BY DEF DraftIds, ensureDraftShape

LEMMA FewerIds ==
    ASSUME NEW some, NEW drafts, NEW n, Fewer(some, drafts), DraftIds(drafts, n)
    PROVE  DraftIds(some, n)
  BY DEF Fewer, DraftIds

LEMMA PersistIds ==
    ASSUME NEW c, Browser(c), NEW n, BrowserIds(c, n)
    PROVE  BrowserIds(persistDrafts(c), n) /\ persistDrafts(c).lists = c.lists
  <1> DEFINE d == persistDrafts(c)
  <1>1. d.drafts = c.drafts /\ d.lists = c.lists
    BY DEF persistDrafts, Browser
  <1>2. \A e \in Envs : d.store[e] = IF e = c.env THEN [seq |-> c.seq, drafts |-> c.drafts] ELSE c.store[e]
    BY DEF persistDrafts, Browser, scopeKey
  <1>3. \A e \in Envs : Bucket(d.store[e]) = IF e = c.env THEN c.drafts ELSE Bucket(c.store[e])
    BY <1>2, SavedIsSomething DEF Bucket
  <1> HIDE DEF d
  <1> QED
    BY <1>1, <1>3 DEF BrowserIds, d

LEMMA EnsureIds ==
    ASSUME NEW c, Browser(c), NEW n, BrowserIds(c, n)
    PROVE  BrowserIds(ensureScope(c), n) /\ ensureScope(c).lists = c.lists
  <1> DEFINE d == ensureScope(c)
  <1>1. d.lists = c.lists /\ d.store = c.store
    BY DEF ensureScope, Browser
  <1>2. d.drafts = c.drafts \/ d.drafts = Bucket(c.store[c.env])
    BY DEF ensureScope, Browser, scopeKey, readScopeBucket, Bucket
  <1> HIDE DEF d
  <1> QED
    BY <1>1, <1>2 DEF BrowserIds, Browser, d

LEMMA OtherDraftIds ==
    ASSUME NEW c, Browser(c), NEW n, BrowserIds(c, n), NEW drafts, DraftIds(drafts, n)
    PROVE  /\ BrowserIds([c EXCEPT !.drafts = drafts], n)
           /\ [c EXCEPT !.drafts = drafts].lists = c.lists
  BY DEF BrowserIds, Browser

LEMMA PruneIds ==
    ASSUME NEW c, InScope(c), NEW n, BrowserIds(c, n)
    PROVE  BrowserIds(pruneNoopDrafts(c), n) /\ pruneNoopDrafts(c).lists = c.lists
  <1>1. PICK some :
           /\ Fewer(some, c.drafts)
           /\ \/ pruneNoopDrafts(c) = c /\ some = c.drafts
              \/ pruneNoopDrafts(c) = persistDrafts([c EXCEPT !.drafts = some])
    BY PruneDrops
  <1>2. DraftIds(some, n)
    BY <1>1, FewerIds DEF BrowserIds
  <1>3. Shape(some)
    <2>1. \A k \in DraftKinds : IsFiniteSet(DOMAIN some[k])
      BY <1>1, FS_Subset DEF InScope, Agrees, Browser, Shape, Fewer
    <2> QED
      BY <1>1, <2>1 DEF Shape, Fewer
  <1> DEFINE d == [c EXCEPT !.drafts = some]
  <1>4. Browser(d) /\ BrowserIds(d, n) /\ d.lists = c.lists
    BY <1>2, <1>3, OtherDrafts, OtherDraftIds DEF InScope, Agrees
  <1> HIDE DEF d
  <1>5. BrowserIds(persistDrafts(d), n) /\ persistDrafts(d).lists = c.lists
    BY <1>4, PersistIds
  <1> QED
    BY <1>1, <1>5 DEF d

LEMMA RestoreIds ==
    ASSUME NEW c, Browser(c), NEW n, BrowserIds(c, n)
    PROVE  BrowserIds(restoreDrafts(c), n) /\ restoreDrafts(c).lists = c.lists
  <1> DEFINE forgot == [c EXCEPT !.last = NoScope]
  <1>1. Agrees(forgot) /\ BrowserIds(forgot, n) /\ forgot.lists = c.lists
    BY DEF Browser, Agrees, BrowserIds
  <1>2. restoreDrafts(c) = pruneNoopDrafts(ensureScope(forgot))
    BY DEF restoreDrafts
  <1> HIDE DEF forgot
  <1> DEFINE d == ensureScope(forgot)
  <1>3. InScope(d) /\ BrowserIds(d, n) /\ d.lists = c.lists
    BY <1>1, EnsureInScope, EnsureIds DEF Agrees
  <1> HIDE DEF d
  <1>4. BrowserIds(pruneNoopDrafts(d), n) /\ pruneNoopDrafts(d).lists = c.lists
    BY <1>3, PruneIds
  <1> QED
    BY <1>2, <1>4 DEF d

LEMMA DiscardIds ==
    ASSUME NEW c, InScope(c), NEW kind \in DraftKinds, NEW id
    PROVE  LET d == draftDiscard(c, kind, id)
           IN /\ InScope(d) /\ d.env = c.env /\ d.lists = c.lists
              /\ Fewer(d.drafts, c.drafts)
              /\ \A k \in DraftKinds : DOMAIN d.drafts[k] = DOMAIN c.drafts[k] \ (IF k = kind THEN {id} ELSE {})
              /\ \A n : BrowserIds(c, n) => BrowserIds(d, n)
  <1> DEFINE d == draftDiscard(c, kind, id)
             some == [c.drafts EXCEPT ![kind] = Without(@, {id})]
  <1>1. ensureScope(c) = c
    BY EnsureAgain DEF InScope
  <1>2. /\ DOMAIN c.drafts = DraftKinds
        /\ Browser(c) /\ Shape(c.drafts)
    BY DEF InScope, Agrees, Browser, Shape
  <1>3. /\ Fewer(some, c.drafts)
        /\ \A k \in DraftKinds : DOMAIN some[k] = DOMAIN c.drafts[k] \ (IF k = kind THEN {id} ELSE {})
    BY <1>2 DEF Fewer, Without
  <1>4. CASE id \notin DOMAIN c.drafts[kind]
    <2>1. d = c
      BY <1>1, <1>4 DEF draftDiscard, discardIn
    <2> QED
      BY <1>2, <1>4, <2>1 DEF Fewer
  <1>5. CASE id \in DOMAIN c.drafts[kind]
    <2> DEFINE x == [c EXCEPT !.drafts = some]
    <2>1. d = persistDrafts(x)
      <3>1. d = persistDrafts([c EXCEPT !.drafts[kind] = Without(@, {id})])
        BY <1>1, <1>5 DEF draftDiscard, discardIn
      <3>2. [c EXCEPT !.drafts[kind] = Without(@, {id})] = x
        BY <1>2 DEF Browser
      <3> QED
        BY <3>1, <3>2
    <2>2. Shape(some)
      BY <1>2, WithoutDomain, OneBucket DEF Shape
    <2>3. Browser(x) /\ x.env = c.env /\ x.lists = c.lists /\ x.drafts = some
      BY <1>2, <2>2, OtherDrafts DEF Browser
    <2>4. \A n : BrowserIds(c, n) => BrowserIds(x, n)
      <3> SUFFICES ASSUME NEW n, BrowserIds(c, n) PROVE BrowserIds(x, n)
        OBVIOUS
      <3>1. DraftIds(some, n)
        BY <1>3, FewerIds DEF BrowserIds
      <3> QED
        BY <1>2, <3>1, OtherDraftIds
    <2> HIDE DEF x, some
    <2>5. InScope(persistDrafts(x)) /\ persistDrafts(x).env = c.env /\ persistDrafts(x).drafts = some
      BY <2>3, PersistInScope
    <2>6. persistDrafts(x).lists = c.lists
      BY <2>3 DEF persistDrafts, Browser
    <2>7. \A n : BrowserIds(c, n) => BrowserIds(persistDrafts(x), n)
      BY <2>3, <2>4, PersistIds
    <2> QED
      BY <1>3, <2>1, <2>5, <2>6, <2>7
  <1> QED
    BY <1>4, <1>5

LEMMA ClearIds ==
    ASSUME NEW c, Browser(c), NEW n, BrowserIds(c, n)
    PROVE  BrowserIds(draftClearAll(c), n)
  <1> DEFINE d == [c EXCEPT !.drafts = ensureDraftShape]
  <1>1. Browser(d) /\ BrowserIds(d, n)
    BY EmptyShape, EmptyIds, OtherDrafts, OtherDraftIds
  <1> HIDE DEF d
  <1> QED
    BY <1>1, PersistIds DEF draftClearAll, d

(* A bucket after one more operation. *)
LEMMA StagedIds ==
    ASSUME NEW c, NEW kind \in DraftKinds, NEW n, DOMAIN c.drafts = DraftKinds, DraftIds(c.drafts, n),
           NEW op \in {"create", "update", "delete"}, NEW id, KnownId(kind, id, n),
           IF op = "create" THEN TempOf(kind, id) ELSE TempOf(kind, id) => id \in DOMAIN c.drafts[kind],
           NEW prev, prev = OpOf(c.drafts[kind], id), NEW sum, KnownRefs(sum, n),
           id \in DOMAIN c.drafts[kind] /\ c.drafts[kind][id].op = "create" => HasRelation(kind, sum),
           NEW body, KnownRefs(body, n), op = "create" => HasRelation(kind, body), NEW members
    PROVE  DraftIds([c.drafts EXCEPT ![kind] =
                        stagedBucket(c, kind, op, id, prev, sum, newStoredEntry(op, body, members))], n)
  <1> DEFINE bucket == c.drafts[kind]
             entry == newStoredEntry(op, body, members)
             result == stagedBucket(c, kind, op, id, prev, sum, entry)
  <1>1. \/ result = bucket
        \/ \E ids : result = Without(bucket, ids)
        \/ result = Put(bucket, id, entry) /\ (op # "create" => prev # "create")
        \/ result = [bucket EXCEPT ![id].body = sum]
    BY Zenon DEF stagedBucket, coalesceRuleRecreate
  <1>2. EntryOk(kind, entry, n) /\ entry.op = op
    BY DEF newStoredEntry, EntryOk
  <1>3. ASSUME NEW i \in DOMAIN result
        PROVE  /\ EntryOk(kind, result[i], n)
               /\ TempOf(kind, i) \/ i \in Issued(kind, n)
               /\ result[i].op = "create" <=> TempOf(kind, i)
    <2> HIDE DEF result, entry
    <2>1. \A j \in DOMAIN bucket :
             /\ EntryOk(kind, bucket[j], n)
             /\ TempOf(kind, j) \/ j \in Issued(kind, n)
             /\ bucket[j].op = "create" <=> TempOf(kind, j)
      BY DEF DraftIds
    <2>2. CASE result = bucket \/ \E ids : result = Without(bucket, ids)
      BY <1>3, <2>1, <2>2 DEF Without
    <2>3. CASE result = Put(bucket, id, entry) /\ (op # "create" => prev # "create")
      <3>1. op = "create" <=> TempOf(kind, id)
        BY <2>1, <2>3 DEF OpOf
      <3> QED
        BY <1>2, <1>3, <2>1, <2>3, <3>1 DEF Put, KnownId
    <2>4. CASE result = [bucket EXCEPT ![id].body = sum]
      <3>1. i \in DOMAIN bucket /\ (i # id => result[i] = bucket[i])
        BY <1>3, <2>4
      <3>2. CASE i = id
        <4>1. result[i] = [bucket[i] EXCEPT !.body = sum]
          BY <2>4, <3>1, <3>2
        <4>2. EntryOk(kind, bucket[i], n)
          BY <2>1, <3>1
        <4>3. DOMAIN result[i] = {"op", "body", "members"} /\ result[i].op = bucket[i].op /\ result[i].body = sum
          BY <4>1, <4>2 DEF EntryOk
        <4>4. EntryOk(kind, result[i], n)
          BY <3>1, <3>2, <4>2, <4>3 DEF EntryOk
        <4> QED
          BY <2>1, <3>1, <4>3, <4>4
      <3> QED
        BY <2>1, <3>1, <3>2
    <2> QED
      BY <1>1, <2>2, <2>3, <2>4
  <1> HIDE DEF result
  <1> DEFINE drafts == [c.drafts EXCEPT ![kind] = result]
  <1>4. \A k \in DraftKinds : drafts[k] = IF k = kind THEN result ELSE c.drafts[k]
    OBVIOUS
  <1>5. DraftIds(drafts, n)
    <2> HIDE DEF drafts
    <2> QED
      BY <1>3, <1>4 DEF DraftIds
  <1> QED
    BY <1>5 DEF result

(* What the tables show is listed or drafted, and hangs on what is. *)
LEMMA MergedIds ==
    ASSUME NEW c, Browser(c), NEW n, BrowserIds(c, n), NEW k \in DraftKinds
    PROVE  \A id \in DOMAIN Merged(c, k) :
              /\ KnownId(k, id, n) /\ KnownRefs(Merged(c, k)[id].rec, n)
              /\ TempOf(k, id) => id \in DOMAIN ensureScope(c).drafts[k]
  <1> DEFINE bucket == ensureScope(c).drafts[k]
             server == c.lists[k]
             created == {id \in DOMAIN bucket : bucket[id].op = "create"}
             all(id) == IF id \in created THEN bucket[id].body ELSE server[id]
  <1>1. BrowserIds(ensureScope(c), n)
    BY EnsureIds
  <1>2. \A id \in DOMAIN bucket : KnownId(k, id, n) /\ KnownRefs(bucket[id].body, n)
    BY <1>1 DEF BrowserIds, DraftIds, KnownId, EntryOk
  <1>3. \A id \in DOMAIN server : KnownId(k, id, n) /\ KnownRefs(server[id], n)
    <2>1. \A rec : Issues(rec, n) => KnownRefs(rec, n)
      BY DEF Issues, Relates, KnownRefs, KnownId
    <2> QED
      BY <2>1 DEF BrowserIds, ListIds, KnownId
  <1>4. DOMAIN Merged(c, k) = created \union DOMAIN server
    BY DEF Merged, overlayById
  <1>5. ASSUME NEW id \in created \union DOMAIN server
        PROVE  Merged(c, k)[id].rec = IF OpOf(bucket, id) = "update" THEN applyBody(all(id), bucket[id].body) ELSE all(id)
    BY DEF Merged, overlayById
  <1> HIDE DEF bucket, server
  <1>6. ASSUME NEW id \in created \union DOMAIN server
        PROVE  KnownId(k, id, n) /\ KnownRefs(all(id), n)
    BY <1>2, <1>3
  <1>7. \A id \in DOMAIN server : ~TempOf(k, id)
    BY IssuedIsPlain DEF BrowserIds, ListIds, TempOf, server
  <1>8. \A id : OpOf(bucket, id) = "update" => id \in DOMAIN bucket
    BY DEF OpOf
  <1>9. ASSUME NEW rec, NEW body, KnownRefs(rec, n), KnownRefs(body, n)
        PROVE  KnownRefs(applyBody(rec, body), n)
    BY <1>9 DEF KnownRefs, applyBody
  <1>10. created \subseteq DOMAIN bucket
    OBVIOUS
  <1> HIDE DEF all, created
  <1> QED
    BY <1>2, <1>4, <1>5, <1>6, <1>7, <1>8, <1>9, <1>10 DEF bucket

LEMMA StageIds ==
    ASSUME NEW c, Agrees(c), NEW n, BrowserIds(c, n),
           NEW kind \in DraftKinds, NEW op, NEW id, op = "create" \/ id \in DOMAIN Merged(c, kind),
           op \in {"create", "update", "delete"},
           NEW body, KnownRefs(body, n), op = "create" => HasRelation(kind, body), NEW members
    PROVE  BrowserIds(draftStage(c, kind, op, id, body, members), n)
  <1>1. ASSUME NEW d, Browser(d), BrowserIds(d, n), NEW x, KnownId(kind, x, n),
               IF op = "create" THEN TempOf(kind, x) ELSE TempOf(kind, x) => x \in DOMAIN d.drafts[kind]
        PROVE  BrowserIds(stageIn(d, kind, op, x, body, members), n)
    <2> DEFINE bucket == d.drafts[kind]
               prev == OpOf(bucket, x)
               sum == IF prev \in {"create", "update"} THEN applyBody(bucket[x].body, body) ELSE body
               entry == newStoredEntry(op, body, members)
               staged == stagedBucket(d, kind, op, x, prev, sum, entry)
               drafts == [d.drafts EXCEPT ![kind] = staged]
    <2>1. stageIn(d, kind, op, x, body, members) = persistDrafts([d EXCEPT !.drafts = drafts])
      <3>1. stageIn(d, kind, op, x, body, members) = persistDrafts([d EXCEPT !.drafts[kind] = staged])
        BY DEF stageIn
      <3> HIDE DEF staged
      <3>2. [d EXCEPT !.drafts[kind] = staged] = [d EXCEPT !.drafts = [d.drafts EXCEPT ![kind] = staged]]
        BY <1>1 DEF Browser
      <3> QED
        BY <3>1, <3>2
    <2>2. DraftIds(drafts, n)
      <3>1. \A i \in DOMAIN bucket : EntryOk(kind, bucket[i], n)
        BY <1>1 DEF BrowserIds, DraftIds
      <3>2. prev \in {"create", "update"} => x \in DOMAIN bucket
        BY DEF OpOf
      <3>3. KnownRefs(sum, n)
        BY <3>1, <3>2 DEF KnownRefs, applyBody, EntryOk
      <3>4. x \in DOMAIN bucket /\ bucket[x].op = "create" => HasRelation(kind, sum)
        BY <3>1 DEF OpOf, HasRelation, applyBody, EntryOk
      <3>5. prev = OpOf(bucket, x)
        OBVIOUS
      <3> HIDE DEF prev, sum
      <3> QED
        BY <1>1, <3>3, <3>4, <3>5, StagedIds DEF Browser, Shape, BrowserIds
    <2>3. Shape(drafts)
      <3>1. IsFiniteSet(DOMAIN staged)
        BY <1>1, StagedDomain DEF Browser, Shape
      <3> HIDE DEF staged
      <3> QED
        BY <1>1, <3>1, OneBucket DEF Browser
    <2> HIDE DEF drafts
    <2> DEFINE e == [d EXCEPT !.drafts = drafts]
    <2>4. Browser(e) /\ BrowserIds(e, n)
      BY <1>1, <2>2, <2>3, OtherDrafts, OtherDraftIds
    <2> HIDE DEF e
    <2> QED
      BY <2>1, <2>4, PersistIds DEF e
  <1>2. Browser(ensureScope(c)) /\ BrowserIds(ensureScope(c), n)
    BY EnsureInScope, EnsureIds DEF InScope, Agrees
  <1>3. Browser(numbered(ensureScope(c))) /\ BrowserIds(numbered(ensureScope(c)), n)
    BY <1>2 DEF numbered, Browser, BrowserIds
  <1>4. CASE op = "create"
    BY <1>1, <1>3, <1>4, TempIsTemp DEF draftStage, createIn, KnownId
  <1>5. CASE op # "create"
    <2>1. KnownId(kind, id, n) /\ (TempOf(kind, id) => id \in DOMAIN ensureScope(c).drafts[kind])
      BY <1>5, MergedIds DEF Agrees
    <2> QED
      BY <1>1, <1>2, <1>5, <2>1 DEF draftStage
  <1> QED
    BY <1>4, <1>5

(* A dialog or menu stages a create, or a change of what a table shows. *)
StagesOne ==
    \E kind \in DraftKinds, op \in {"create", "update", "delete"} : \E id, body, members :
        /\ Stage(kind, op, id, body, members)
        /\ op = "create" \/ id \in DOMAIN Merged(b, kind)
        /\ KnownRefs(body, nextId)
        /\ op = "create" => HasRelation(kind, body)

LEMMA EachStagesOne ==
    ASSUME PageInv, BrowserIds(b, nextId), StageSomething
    PROVE  StagesOne
  <1> USE DEF DraftKinds, StagesOne
  <1>0. \A k \in DraftKinds : \A id \in DOMAIN Merged(b, k) :
           KnownId(k, id, nextId) /\ KnownRefs(Merged(b, k)[id].rec, nextId)
    BY MergedIds DEF PageInv, Agrees
  <1> DEFINE Known(body) == KnownRefs(body, nextId)
  <1>1. /\ DOMAIN mergedRules(b) \subseteq DOMAIN Merged(b, "rule")
        /\ \A r \in DOMAIN mergedRules(b) : mergedRules(b)[r] = Merged(b, "rule")[r]
    BY DEF mergedRules, ListedOf
  <1>2. DOMAIN mergedExperiments(b) \subseteq DOMAIN Merged(b, "experiment")
    BY DEF mergedExperiments, ListedOf
  <1>3. ASSUME NEW rec, Known(rec), NEW v
        PROVE  Known([rec EXCEPT !.value = v])
    BY <1>3 DEF KnownRefs
  <1>4. Known(<<>>) /\ Known([name |-> "new"]) /\ \A n : Known([name |-> n])
    BY DEF KnownRefs
  <1>5. \A g \in DOMAIN mergedGroups(b) : KnownId("group", g, nextId)
    BY <1>0 DEF mergedGroups
  <1>6. \A f \in DOMAIN mergedFlags(b) : KnownId("flag", f, nextId) /\ Known(mergedFlags(b)[f].rec)
    BY <1>0 DEF mergedFlags
  <1>7. \A g \in selectableGroupIds(b) \union {NoRef} : g = NoRef \/ KnownId("group", g, nextId)
    BY <1>5 DEF selectableGroupIds, sortedGroupIds
  <1> HIDE DEF Known
  <1>8. saveFlag => StagesOne
    <2>1. ASSUME NEW k \in Keys, NEW g \in renderFlagGroupSelect(b),
                 Stage("flag", "create", NoRef, [key |-> k, group |-> g, value |-> 0], {})
          PROVE  StagesOne
      <3>1. Known([key |-> k, group |-> g, value |-> 0])
        BY <1>7 DEF Known, KnownRefs, renderFlagGroupSelect
      <3>2. HasRelation("flag", [key |-> k, group |-> g, value |-> 0])
        BY DEF HasRelation
      <3> QED
        BY <2>1, <3>1, <3>2 DEF Known
    <2>2. ASSUME NEW f \in DOMAIN mergedFlags(b), NEW v \in {0, 1},
                 Stage("flag", "update", f, [mergedFlags(b)[f].rec EXCEPT !.value = v], {})
          PROVE  StagesOne
      <3>1. Known([mergedFlags(b)[f].rec EXCEPT !.value = v])
        BY <1>3, <1>6
      <3> QED
        BY <2>2, <3>1 DEF Known, mergedFlags
    <2> QED
      BY <2>1, <2>2 DEF saveFlag
  <1>9. moveFlag => StagesOne
    <2> SUFFICES ASSUME moveFlag PROVE StagesOne
      OBVIOUS
    <2>1. PICK fold \in renderFlagFolders(b) : \E row \in fold.rows : \E g \in row.moves \ {fold.group} :
               Stage("flag", "update", row.flag, [group |-> g], {})
      BY DEF moveFlag
    <2>2. PICK row \in fold.rows : \E g \in row.moves : Stage("flag", "update", row.flag, [group |-> g], {})
      BY <2>1
    <2>3. PICK g \in row.moves : Stage("flag", "update", row.flag, [group |-> g], {})
      BY <2>2
    <2>4. PICK h : fold = folder(b, h)
      BY DEF renderFlagFolders
    <2>5. PICK f \in flagsInGroup(b, h) : row = folderRow(b, f)
      BY <2>3, <2>4 DEF folder, FolderOf
    <2>6. row.flag = f /\ row.moves \subseteq selectableGroupIds(b) \union {NoRef}
      BY <2>5 DEF folderRow
    <2>7. f \in DOMAIN Merged(b, "flag")
      BY DEF flagsInGroup, With, mergedFlags
    <2>8. Known([group |-> g])
      BY <1>7, <2>3, <2>6 DEF Known, KnownRefs
    <2> QED
      BY <2>3, <2>6, <2>7, <2>8 DEF Known
  <1>10. deleteFlag \/ deleteGroup => StagesOne
    BY <1>4 DEF deleteFlag, deleteGroup, mergedFlags, mergedGroups, Known
  <1>11. promptCreateGroup \/ renameGroup => StagesOne
    <2>1. HasRelation("group", [name |-> "new"])
      BY DEF HasRelation
    <2> QED
      BY <1>4, <2>1 DEF promptCreateGroup, renameGroup, mergedGroups, Known
  <1>12. saveFlagRule => StagesOne
    <2>1. ASSUME NEW f \in DOMAIN mergedFlags(b), NEW v \in {0, 1},
                 Stage("rule", "create", NoRef, [flag |-> f, value |-> v], {})
          PROVE  StagesOne
      <3>1. Known([flag |-> f, value |-> v]) /\ HasRelation("rule", [flag |-> f, value |-> v])
        BY <1>6 DEF Known, KnownRefs, HasRelation
      <3> QED
        BY <2>1, <3>1 DEF Known
    <2>2. ASSUME NEW r \in DOMAIN mergedRules(b), NEW v \in {0, 1},
                 Stage("rule", "update", r, [mergedRules(b)[r].rec EXCEPT !.value = v], {})
          PROVE  StagesOne
      <3>1. Known([mergedRules(b)[r].rec EXCEPT !.value = v])
        BY <1>0, <1>1, <1>3 DEF Known
      <3> QED
        BY <1>1, <2>2, <3>1 DEF Known
    <2> QED
      BY <2>1, <2>2 DEF saveFlagRule
  <1>13. deleteRule => StagesOne
    <2> SUFFICES ASSUME deleteRule PROVE StagesOne
      OBVIOUS
    <2>1. PICK f : \E row \in renderFlagRulesList(b, f) : Stage("rule", "delete", row.rule, <<>>, {})
      BY DEF deleteRule
    <2>2. PICK row \in renderFlagRulesList(b, f) : Stage("rule", "delete", row.rule, <<>>, {})
      BY <2>1
    <2>3. row.rule \in DOMAIN mergedRules(b)
      BY DEF renderFlagRulesList, flagRulesForActive, With
    <2> QED
      BY <1>1, <1>4, <2>2, <2>3 DEF Known
  <1>14. saveExperiment => StagesOne
    <2> SUFFICES ASSUME NEW f \in renderFlagSelects(b),
                        Stage("experiment", "create", NoRef, [flag |-> f, status |-> "draft"], {})
                 PROVE  StagesOne
      BY DEF saveExperiment
    <2>1. f \in DOMAIN mergedFlags(b)
      BY DEF renderFlagSelects, ValidFlags, NotDeleted
    <2>2. Known([flag |-> f, status |-> "draft"]) /\ HasRelation("experiment", [flag |-> f, status |-> "draft"])
      BY <1>6, <2>1 DEF Known, KnownRefs, HasRelation
    <2> QED
      BY <2>2 DEF Known
  <1>15. setExperimentStatus => StagesOne
    <2> SUFFICES ASSUME setExperimentStatus PROVE StagesOne
      OBVIOUS
    <2>1. PICK f, s : \E row \in renderFlagExperimentsList(b, f) :
               Stage("experiment", "update", row.experiment, [status |-> s], {})
      BY DEF setExperimentStatus
    <2>2. PICK row \in renderFlagExperimentsList(b, f) :
               Stage("experiment", "update", row.experiment, [status |-> s], {})
      BY <2>1
    <2>3. row.experiment \in DOMAIN mergedExperiments(b)
      BY DEF renderFlagExperimentsList, flagExperimentsForActive, With
    <2>4. Known([status |-> s])
      BY DEF Known, KnownRefs
    <2> QED
      BY <1>2, <2>2, <2>3, <2>4 DEF Known
  <1>16. deleteExperiment => StagesOne
    <2> SUFFICES ASSUME deleteExperiment PROVE StagesOne
      OBVIOUS
    <2>1. PICK f : \E x \in flagExperimentsForActive(b, f) : Stage("experiment", "delete", x, <<>>, {})
      BY DEF deleteExperiment
    <2>2. \A x \in flagExperimentsForActive(b, f) : x \in DOMAIN mergedExperiments(b)
      BY DEF flagExperimentsForActive, With
    <2> QED
      BY <1>2, <1>4, <2>1, <2>2 DEF Known
  <1> QED
    BY <1>8, <1>9, <1>10, <1>11, <1>12, <1>13, <1>14, <1>15, <1>16 DEF StageSomething

-----------------------------------------------------------------------------
(* What a request changes on the server: rec is the record id afterwards.  *)
WrittenAs(s, body, k, id, rec) ==
    \/ id \in DOMAIN live[k] /\ rec = live[k][id]
    \/ s.op = "create" /\ k = s.kind /\ id = Live(k, nextId) /\ rec = body
    \/ /\ s.op = "update" /\ k = s.kind /\ id = s.id
       /\ id \in DOMAIN live[k] /\ rec = applyBody(live[k][id], body)
    \/ /\ s.op = "delete" /\ s.kind = "group" /\ k = "flag"
       /\ id \in DOMAIN live[k] /\ rec = [live[k][id] EXCEPT !.group = NoRef]

LEMMA WrittenRecords ==
    ASSUME DOMAIN live = DraftKinds, NEW s, s.kind \in DraftKinds, NEW body, Accepts(s, body)
    PROVE  LET W == Written(s, body)
           IN /\ DOMAIN W = DraftKinds
              /\ \A k \in DraftKinds : \A id \in DOMAIN W[k] : WrittenAs(s, body, k, id, W[k][id])
  <1> DEFINE W == Written(s, body)
  <1>0. "group" \in DraftKinds /\ "flag" \in DraftKinds /\ "rule" \in DraftKinds /\ "experiment" \in DraftKinds
    BY DEF DraftKinds
  <1>1. CASE s.op = "create"
    <2>1. W = [live EXCEPT ![s.kind] = Put(@, Live(s.kind, nextId), body)]
      BY <1>1 DEF Written
    <2> HIDE DEF W
    <2>2. /\ DOMAIN W = DraftKinds
          /\ \A k \in DraftKinds : k # s.kind => W[k] = live[k]
          /\ W[s.kind] = Put(live[s.kind], Live(s.kind, nextId), body)
      BY <2>1
    <2>3. ASSUME NEW id \in DOMAIN W[s.kind]
          PROVE  WrittenAs(s, body, s.kind, id, W[s.kind][id])
      BY <1>1, <2>2 DEF Put, WrittenAs
    <2>4. ASSUME NEW k \in DraftKinds, k # s.kind, NEW id \in DOMAIN W[k]
          PROVE  WrittenAs(s, body, k, id, W[k][id])
      BY <2>2, <2>4 DEF WrittenAs
    <2> QED
      BY <2>2, <2>3, <2>4 DEF W
  <1>2. CASE s.op = "update"
    <2>1. W = [live EXCEPT ![s.kind][s.id] = applyBody(@, body)]
      BY <1>2 DEF Written
    <2>2. s.id \in DOMAIN live[s.kind]
      BY <1>2 DEF Accepts
    <2> HIDE DEF W
    <2>3. /\ DOMAIN W = DraftKinds
          /\ \A k \in DraftKinds : k # s.kind => W[k] = live[k]
          /\ W[s.kind] = [live[s.kind] EXCEPT ![s.id] = applyBody(live[s.kind][s.id], body)]
      BY <2>1, <2>2
    <2>4. /\ DOMAIN W[s.kind] = DOMAIN live[s.kind]
          /\ W[s.kind][s.id] = applyBody(live[s.kind][s.id], body)
          /\ \A id \in DOMAIN live[s.kind] : id # s.id => W[s.kind][id] = live[s.kind][id]
      BY <2>2, <2>3
    <2>5. ASSUME NEW id \in DOMAIN W[s.kind]
          PROVE  WrittenAs(s, body, s.kind, id, W[s.kind][id])
      BY <1>2, <2>2, <2>4 DEF WrittenAs
    <2>6. ASSUME NEW k \in DraftKinds, k # s.kind, NEW id \in DOMAIN W[k]
          PROVE  WrittenAs(s, body, k, id, W[k][id])
      BY <2>3, <2>6 DEF WrittenAs
    <2> QED
      BY <2>3, <2>5, <2>6 DEF W
  <1>3. CASE s.op \notin {"create", "update"} /\ ~(s.op = "delete" /\ s.kind = "group")
    <2> DEFINE keep == Without(live[s.kind], {s.id})
               On(kind) == {x \in DOMAIN live[kind] : live[kind][x].flag = s.id}
    <2>1. \/ W = [live EXCEPT ![s.kind] = keep]
          \/ W = [live EXCEPT !.flag = Without(live["flag"], {s.id}), !.rule = Without(@, On("rule")),
                              !.experiment = Without(@, On("experiment"))]
      BY <1>3 DEF Written
    <2> HIDE DEF W
    <2>2. /\ DOMAIN W = DraftKinds
          /\ \A k \in DraftKinds : W[k] = live[k] \/ \E ids : W[k] = Without(live[k], ids)
      <3>1. CASE W = [live EXCEPT ![s.kind] = keep]
        BY <3>1
      <3>2. CASE W # [live EXCEPT ![s.kind] = keep]
        <4> HIDE DEF On
        <4> QED
          BY <1>0, <2>1, <3>2
      <3> QED
        BY <3>1, <3>2
    <2>3. ASSUME NEW k \in DraftKinds, NEW id \in DOMAIN W[k]
          PROVE  id \in DOMAIN live[k] /\ W[k][id] = live[k][id]
      BY <2>2 DEF Without
    <2> QED
      BY <2>2, <2>3 DEF W, WrittenAs
  <1>4. CASE s.op = "delete" /\ s.kind = "group"
    <2> DEFINE out(f) == live["flag"][f].group = s.id \/ f \in liveGroupMembers(s.id)
    <2>1. W = [live EXCEPT !.group = Without(live["group"], {s.id}),
                  !.flag = [f \in DOMAIN @ |-> IF out(f) THEN [@[f] EXCEPT !.group = NoRef] ELSE @[f]]]
      BY <1>4 DEF Written
    <2> HIDE DEF W, out
    <2>2. /\ DOMAIN W = DraftKinds
          /\ W["group"] = Without(live["group"], {s.id})
          /\ W["flag"] = [f \in DOMAIN live["flag"] |->
                             IF out(f) THEN [live["flag"][f] EXCEPT !.group = NoRef] ELSE live["flag"][f]]
          /\ \A k \in DraftKinds : k \notin {"group", "flag"} => W[k] = live[k]
      BY <1>0, <2>1
    <2>3. \A id \in DOMAIN W["group"] : id \in DOMAIN live["group"] /\ W["group"][id] = live["group"][id]
      BY <2>2 DEF Without
    <2>4. \A id \in DOMAIN W["flag"] :
             /\ id \in DOMAIN live["flag"]
             /\ W["flag"][id] = live["flag"][id] \/ W["flag"][id] = [live["flag"][id] EXCEPT !.group = NoRef]
      BY <2>2
    <2>5. \A k \in DraftKinds : k \notin {"group", "flag"} =>
             \A id \in DOMAIN W[k] : id \in DOMAIN live[k] /\ W[k][id] = live[k][id]
      BY <2>2
    <2>6. ASSUME NEW k \in DraftKinds, NEW id \in DOMAIN W[k]
          PROVE  WrittenAs(s, body, k, id, W[k][id])
      BY <1>4, <2>3, <2>4, <2>5 DEF WrittenAs
    <2> QED
      BY <2>2, <2>6 DEF W
  <1> QED
    BY <1>1, <1>2, <1>3, <1>4

(* The tables after a request, kind by kind. *)
Only(kind, W) == \A k \in DraftKinds : k # kind => W[k] = live[k]
HangsOn(k, f) == {x \in DOMAIN live[k] : live[k][x].flag = f}
LeavesGroup(g, f) == live["flag"][f].group = g \/ f \in liveGroupMembers(g)

Wrote(s, body, W) ==
    /\ DOMAIN W = DraftKinds
    /\ s.op = "create" => Only(s.kind, W) /\ W[s.kind] = Put(live[s.kind], Live(s.kind, nextId), body)
    /\ s.op # "create" => s.id \in DOMAIN live[s.kind]
    /\ s.op = "update" =>
          Only(s.kind, W) /\ W[s.kind] = [live[s.kind] EXCEPT ![s.id] = applyBody(live[s.kind][s.id], body)]
    /\ s.op = "delete" => W[s.kind] = Without(live[s.kind], {s.id})
    /\ s.op = "delete" /\ s.kind \in {"rule", "experiment"} => Only(s.kind, W)
    /\ s.op = "delete" /\ s.kind = "flag" =>
          /\ W["group"] = live["group"]
          /\ \A k \in {"rule", "experiment"} : W[k] = Without(live[k], HangsOn(k, s.id))
    /\ s.op = "delete" /\ s.kind = "group" =>
          /\ \A k \in {"rule", "experiment"} : W[k] = live[k]
          /\ W["flag"] = [f \in DOMAIN live["flag"] |->
                             IF LeavesGroup(s.id, f) THEN [live["flag"][f] EXCEPT !.group = NoRef] ELSE live["flag"][f]]

LEMMA WrittenTables ==
    ASSUME DOMAIN live = DraftKinds, NEW s, s.kind \in DraftKinds, NEW body, Accepts(s, body),
           s.op \in {"create", "update", "delete"}
    PROVE  Wrote(s, body, Written(s, body))
  <1> DEFINE W == Written(s, body)
             keep == Without(live[s.kind], {s.id})
             On(k) == {x \in DOMAIN live[k] : live[k][x].flag = s.id}
  <1>0. DraftKinds = {"group", "flag", "rule", "experiment"}
    BY DEF DraftKinds
  <1>1. s.op # "create" => s.id \in DOMAIN live[s.kind]
    BY DEF Accepts
  <1>2. CASE s.op = "create"
    <2>1. W = [live EXCEPT ![s.kind] = Put(live[s.kind], Live(s.kind, nextId), body)]
      BY <1>2 DEF Written
    <2> HIDE DEF W
    <2>2. /\ DOMAIN W = DraftKinds /\ W[s.kind] = Put(live[s.kind], Live(s.kind, nextId), body)
          /\ Only(s.kind, W)
      BY <2>1 DEF Only
    <2> QED
      BY <1>2, <2>2 DEF W, Wrote
  <1>3. CASE s.op = "update"
    <2>1. W = [live EXCEPT ![s.kind][s.id] = applyBody(@, body)]
      BY <1>3 DEF Written
    <2> HIDE DEF W
    <2>2. /\ DOMAIN W = DraftKinds /\ Only(s.kind, W)
          /\ W[s.kind] = [live[s.kind] EXCEPT ![s.id] = applyBody(live[s.kind][s.id], body)]
      BY <1>1, <1>3, <2>1 DEF Only
    <2> QED
      BY <1>1, <1>3, <2>2 DEF W, Wrote
  <1>4. CASE s.op = "delete" /\ s.kind = "flag"
    <2>1. W = [live EXCEPT !.flag = keep, !.rule = Without(@, On("rule")),
                           !.experiment = Without(@, On("experiment"))]
      BY <1>4 DEF Written
    <2> HIDE DEF W, On, keep
    <2>2. /\ DOMAIN W = DraftKinds /\ W["flag"] = keep /\ W["group"] = live["group"]
          /\ W["rule"] = Without(live["rule"], On("rule"))
          /\ W["experiment"] = Without(live["experiment"], On("experiment"))
      BY <1>0, <2>1
    <2>3. \A k : On(k) = HangsOn(k, s.id)
      BY DEF On, HangsOn
    <2> QED
      BY <1>1, <1>4, <2>2, <2>3 DEF W, keep, Wrote
  <1>5. CASE s.op = "delete" /\ s.kind = "group"
    <2> DEFINE left == [f \in DOMAIN live["flag"] |->
                           IF LeavesGroup(s.id, f) THEN [live["flag"][f] EXCEPT !.group = NoRef] ELSE live["flag"][f]]
    <2>1. W = [live EXCEPT !.group = keep, !.flag = left]
      BY <1>5 DEF Written, LeavesGroup
    <2> HIDE DEF W, keep, left
    <2>2. /\ DOMAIN W = DraftKinds /\ W["group"] = keep /\ W["flag"] = left
          /\ W["rule"] = live["rule"] /\ W["experiment"] = live["experiment"]
      BY <1>0, <2>1
    <2> QED
      BY <1>1, <1>5, <2>2 DEF W, keep, left, Wrote
  <1>6. CASE s.op = "delete" /\ s.kind \in {"rule", "experiment"}
    <2>1. W = [live EXCEPT ![s.kind] = keep]
      BY <1>6 DEF Written
    <2> HIDE DEF W, keep
    <2>2. DOMAIN W = DraftKinds /\ W[s.kind] = keep /\ Only(s.kind, W)
      BY <2>1 DEF Only
    <2> QED
      BY <1>1, <1>6, <2>2 DEF W, keep, Wrote
  <1> QED
    BY <1>0, <1>2, <1>3, <1>4, <1>5, <1>6

(* What is laid over a record, or changed of it, is a record. *)
LEMMA RecordsStay ==
    ASSUME NEW rec, NEW body
    PROVE  Record(applyBody(rec, body)) /\ (Record(rec) => Record([rec EXCEPT !.group = NoRef]))
  <1>1. Record(applyBody(rec, body))
    <2> DEFINE w == applyBody(rec, body)
    <2>1. w = [f \in DOMAIN rec \union DOMAIN body |-> w[f]]
      BY DEF applyBody
    <2>2. DOMAIN w = DOMAIN rec \union DOMAIN body
      BY DEF applyBody
    <2> HIDE DEF w
    <2> QED
      BY <2>1, <2>2 DEF Record, w
  <1>2. ASSUME Record(rec)
        PROVE  Record([rec EXCEPT !.group = NoRef])
    BY DEF Record
  <1> QED
    BY <1>1, <1>2

(* No request leaves a flag in a group that is gone, or a rule or an       *)
(* experiment on a flag that is.                                           *)
LEMMA WrittenHangs ==
    ASSUME nextId \in Nat, ServerIds(live, nextId), NEW s, s.kind \in DraftKinds, NEW body,
           Accepts(s, body), s.op \in {"create", "update", "delete"},
           Record(body), s.op = "create" => HasRelation(s.kind, body)
    PROVE  \A k \in DraftKinds : \A id \in DOMAIN Written(s, body)[k] :
              Hanging(Written(s, body), k, Written(s, body)[k][id])
  <1> DEFINE W == Written(s, body)
             gone(k) == IF s.op = "delete" /\ s.kind = k THEN {s.id} ELSE {}
  <1>0. DOMAIN live = DraftKinds /\ DraftKinds = {"group", "flag", "rule", "experiment"}
    BY DEF DraftKinds, ServerIds
  <1>1. \A k \in DraftKinds : \A id \in DOMAIN live[k] : Hanging(live, k, live[k][id])
    BY DEF ServerIds
  <1>2. Wrote(s, body, W)
    BY <1>0, WrittenTables
  <1> HIDE DEF W
  <1>3. /\ "group" \in DOMAIN body => body.group \in DOMAIN live.group \union {NoRef}
        /\ "flag" \in DOMAIN body => body.flag \in DOMAIN live.flag
    BY DEF Accepts
  <1>4. \A k \in {"group", "flag"} : DOMAIN live[k] \ gone(k) \subseteq DOMAIN W[k]
    <2> SUFFICES ASSUME NEW k \in {"group", "flag"} PROVE DOMAIN live[k] \ gone(k) \subseteq DOMAIN W[k]
      OBVIOUS
    <2>1. CASE s.op = "create"
      BY <1>0, <1>2, <2>1 DEF Put, Wrote, Only
    <2>2. CASE s.op = "update"
      BY <1>0, <1>2, <2>2 DEF Wrote, Only
    <2>3. CASE s.op = "delete"
      BY <1>0, <1>2, <2>3 DEF Without, Wrote, Only
    <2> QED
      BY <2>1, <2>2, <2>3
  <1>5. ASSUME NEW k \in DraftKinds, NEW id \in DOMAIN W[k]
        PROVE  Hanging(W, k, W[k][id])
    <2>1. CASE s.op = "create"
      <3>1. gone("group") = {} /\ gone("flag") = {}
        BY <2>1
      <3>2. \/ id \in DOMAIN live[k] /\ W[k][id] = live[k][id]
            \/ k = s.kind /\ W[k][id] = body
        BY <1>2, <1>5, <2>1 DEF Put, Wrote, Only
      <3> HIDE DEF gone
      <3> QED
        BY <1>1, <1>3, <1>4, <2>1, <3>1, <3>2 DEF Hanging, HasRelation
    <2>2. CASE s.op = "update"
      <3>1. gone("group") = {} /\ gone("flag") = {}
        BY <2>2
      <3>2. /\ id \in DOMAIN live[k]
            /\ W[k][id] = live[k][id] \/ W[k][id] = applyBody(live[k][id], body)
        BY <1>2, <1>5, <2>2 DEF Wrote, Only
      <3> HIDE DEF gone
      <3>3. CASE W[k][id] = live[k][id]
        BY <1>1, <1>4, <3>1, <3>2, <3>3 DEF Hanging
      <3>4. CASE W[k][id] = applyBody(live[k][id], body)
        <4>1. Record(W[k][id])
          BY <3>4, RecordsStay
        <4>2. HasRelation(k, live[k][id]) => HasRelation(k, W[k][id])
          BY <3>4 DEF HasRelation, applyBody
        <4> QED
          BY <1>1, <1>3, <1>4, <3>1, <3>2, <3>4, <4>1, <4>2 DEF Hanging, HasRelation, applyBody
      <3> QED
        BY <3>2, <3>3, <3>4
    <2>3. CASE s.op = "delete" /\ s.kind \in {"rule", "experiment"}
      <3>1. gone("group") = {} /\ gone("flag") = {}
        BY <2>3
      <3>2. id \in DOMAIN live[k] /\ W[k][id] = live[k][id]
        BY <1>2, <1>5, <2>3 DEF Without, Wrote, Only
      <3> HIDE DEF gone
      <3> QED
        BY <1>1, <1>4, <3>1, <3>2 DEF Hanging
    <2>4. CASE s.op = "delete" /\ s.kind = "flag"
      <3>1. gone("group") = {} /\ gone("flag") = {s.id}
        BY <2>4
      <3>2. id \in DOMAIN live[k] /\ W[k][id] = live[k][id]
        BY <1>0, <1>2, <1>5, <2>4 DEF Without, Wrote
      <3>3. k \in {"rule", "experiment"} => live[k][id].flag # s.id
        BY <1>0, <1>2, <1>5, <2>4 DEF Without, Wrote, HangsOn
      <3> HIDE DEF gone
      <3> QED
        BY <1>1, <1>4, <3>1, <3>2, <3>3 DEF Hanging
    <2>5. CASE s.op = "delete" /\ s.kind = "group"
      <3>1. gone("group") = {s.id} /\ gone("flag") = {}
        BY <2>5
      <3>2. CASE k # "flag"
        <4>1. id \in DOMAIN live[k] /\ W[k][id] = live[k][id]
          BY <1>0, <1>2, <1>5, <2>5, <3>2 DEF Without, Wrote
        <4> HIDE DEF gone
        <4> QED
          BY <1>1, <1>4, <3>1, <3>2, <4>1 DEF Hanging
      <3>3. CASE k = "flag"
        <4>1. /\ id \in DOMAIN live["flag"]
              /\ W["flag"][id] = IF LeavesGroup(s.id, id)
                                 THEN [live["flag"][id] EXCEPT !.group = NoRef] ELSE live["flag"][id]
          BY <1>0, <1>2, <1>5, <2>5, <3>3 DEF Wrote
        <4> HIDE DEF gone
        <4>2. HasRelation("flag", live["flag"][id]) /\ live["flag"][id].group \in DOMAIN live.group \union {NoRef}
          BY <1>0, <1>1, <4>1 DEF Hanging
        <4>3. "group" \in DOMAIN live["flag"][id]
          BY <4>2 DEF HasRelation
        <4>4. HasRelation("flag", W["flag"][id]) /\ Record(W["flag"][id])
          BY <1>0, <1>1, <4>1, <4>3, RecordsStay DEF HasRelation, Hanging
        <4>5. W["flag"][id].group \in DOMAIN W.group \union {NoRef}
          <5>1. ~LeavesGroup(s.id, id) => live["flag"][id].group # s.id
            BY DEF LeavesGroup
          <5> QED
            BY <1>4, <3>1, <4>1, <4>2, <4>3, <5>1
        <4> QED
          BY <3>3, <4>4, <4>5 DEF Hanging
      <3> QED
        BY <3>2, <3>3
    <2> QED
      BY <1>0, <2>1, <2>2, <2>3, <2>4, <2>5
  <1> QED
    BY <1>5 DEF W

(* An accepted request writes ids and relations the server gave out. *)
LEMMA WrittenIds ==
    ASSUME nextId \in Nat, ServerIds(live, nextId), NEW s, s.kind \in DraftKinds, NEW body,
           Accepts(s, body), s.op \in {"create", "update", "delete"},
           Record(body), s.op = "create" => HasRelation(s.kind, body)
    PROVE  ServerIds(Written(s, body), nextId + 1) /\ Related(Written(s, body), nextId)
  <1> DEFINE W == Written(s, body)
             groups == Issued("group", nextId)
             flags == Issued("flag", nextId)
  <1>1. /\ DOMAIN W = DraftKinds
        /\ \A k \in DraftKinds : \A id \in DOMAIN W[k] : WrittenAs(s, body, k, id, W[k][id])
    BY WrittenRecords DEF ServerIds
  <1> HIDE DEF W
  <1>2. \A k \in DraftKinds : DOMAIN live[k] \subseteq Issued(k, nextId)
    BY DEF ServerIds, ListIds
  <1>3. \A k \in DraftKinds : DOMAIN W[k] \subseteq Issued(k, nextId + 1)
    <2>1. \A k \in DraftKinds : Issued(k, nextId) \subseteq Issued(k, nextId + 1)
      BY IssuedGrows
    <2>2. \A k \in DraftKinds : Live(k, nextId) \in Issued(k, nextId + 1)
      BY NextIsFresh
    <2> QED
      BY <1>1, <1>2, <2>1, <2>2 DEF WrittenAs
  <1>4. Relates(body, groups, flags)
    BY <1>2 DEF Accepts, Relates, DraftKinds
  <1>5. \A k \in DraftKinds : \A id \in DOMAIN live[k] : Relates(live[k][id], groups, flags)
    BY DEF ServerIds, Related, Issues
  <1>6. ASSUME NEW rec, Relates(rec, groups, flags)
        PROVE  /\ Relates(applyBody(rec, body), groups, flags)
               /\ Relates([rec EXCEPT !.group = NoRef], groups, flags)
    BY <1>4, <1>6 DEF Relates, applyBody
  <1>7. Related(W, nextId)
    <2>1. ASSUME NEW k \in DraftKinds, NEW id \in DOMAIN W[k]
          PROVE  Relates(W[k][id], groups, flags)
      <3>1. WrittenAs(s, body, k, id, W[k][id])
        BY <1>1
      <3> HIDE DEF groups, flags
      <3> QED
        BY <3>1, <1>4, <1>5, <1>6 DEF WrittenAs
    <2> QED
      BY <2>1 DEF Related, Issues
  <1>8. Related(W, nextId + 1)
    <2>1. groups \subseteq Issued("group", nextId + 1) /\ flags \subseteq Issued("flag", nextId + 1)
      BY IssuedGrows
    <2> QED
      BY <1>7, <2>1 DEF Related, Issues, Relates
  <1>9. \A k \in DraftKinds : \A id \in DOMAIN W[k] : Hanging(W, k, W[k][id])
    BY WrittenHangs DEF W
  <1> QED
    BY <1>1, <1>3, <1>7, <1>8, <1>9 DEF ServerIds, ListIds, Related, W

-----------------------------------------------------------------------------
(* Ids stay in order. *)

(* What is asked for now is answered with the server's records. *)
LEMMA Asked ==
    ASSUME NEW what \in {"flags", "rules", "experiments", "releases"}, NEW gen, NEW then
    PROVE  LET m == Ask(what, gen, then)
           IN /\ m.what = what /\ m.gen = gen /\ m.then = then
              /\ DOMAIN m.data \subseteq DraftKinds
              /\ \A k \in DOMAIN m.data : m.data[k] = live[k]
              /\ what = "experiments" => "experiment" \in DOMAIN m.data
  BY DEF Ask, Lists, DraftKinds

LEMMA AskIds ==
    ASSUME ServerIds(live, nextId),
           NEW what \in {"flags", "rules", "experiments", "releases"}, NEW gen, NEW then
    PROVE  Answers(Ask(what, gen, then), nextId)
  <1> DEFINE m == Ask(what, gen, then)
  <1>1. /\ DOMAIN m.data \subseteq DraftKinds /\ \A k \in DOMAIN m.data : m.data[k] = live[k]
        /\ m.what = "experiments" => "experiment" \in DOMAIN m.data
    BY Asked
  <1> HIDE DEF m
  <1>2. ListIds(m.data, nextId)
    BY <1>1 DEF ListIds, ServerIds
  <1> QED
    BY <1>1, <1>2 DEF m, Answers

LEMMA LoadedLists ==
    ASSUME NEW c, Browser(c), NEW m, DOMAIN m.data \subseteq DraftKinds
    PROVE  /\ Browser(Loaded(c, m))
           /\ Loaded(c, m).env = c.env /\ Loaded(c, m).drafts = c.drafts /\ Loaded(c, m).store = c.store
           /\ DOMAIN Loaded(c, m).lists = DraftKinds
           /\ \A k \in DraftKinds : Loaded(c, m).lists[k] = IF k \in DOMAIN m.data THEN m.data[k] ELSE c.lists[k]
  BY DEF Loaded, Browser

LEMMA LoadedIds ==
    ASSUME NEW c, Browser(c), NEW n, BrowserIds(c, n), NEW m, DOMAIN m.data \subseteq DraftKinds,
           ListIds(m.data, n)
    PROVE  BrowserIds(Loaded(c, m), n)
  BY LoadedLists DEF BrowserIds, ListIds

(* More mail, or less. *)
LEMMA MailIdsOf ==
    ASSUME NEW n, NEW mail, MailIds(mail, n)
    PROVE  /\ \A some : some \subseteq mail => MailIds(some, n)
           /\ \A m : Answers(m, n) => MailIds(mail \union {m}, n)
           /\ \A more : MailIds(more, n) => MailIds(mail \union more, n)
  BY DEF MailIds

(* The experiments of an answer that are of flags the page has. *)
MineOf(c, exps) == [c EXCEPT !.lists.experiment = [x \in Mine(exps) |-> exps[x]]]

LEMMA MineLists ==
    ASSUME NEW c, Browser(c), DOMAIN c.lists = DraftKinds, NEW exps
    PROVE  /\ Browser(MineOf(c, exps))
           /\ MineOf(c, exps).env = c.env /\ MineOf(c, exps).drafts = c.drafts
           /\ MineOf(c, exps).store = c.store
           /\ DOMAIN MineOf(c, exps).lists = DraftKinds
           /\ \A k \in DraftKinds :
                 /\ k # "experiment" => MineOf(c, exps).lists[k] = c.lists[k]
                 /\ k = "experiment" => /\ DOMAIN MineOf(c, exps).lists[k] \subseteq DOMAIN exps
                                        /\ \A x \in DOMAIN MineOf(c, exps).lists[k] : MineOf(c, exps).lists[k][x] = exps[x]
  <1> DEFINE mine == [x \in Mine(exps) |-> exps[x]]
             d == MineOf(c, exps)
  <1>1. d = [c EXCEPT !.lists = [c.lists EXCEPT !["experiment"] = mine]]
    BY DEF MineOf, Browser
  <1>2. DOMAIN mine \subseteq DOMAIN exps /\ \A x \in DOMAIN mine : mine[x] = exps[x]
    BY DEF Mine
  <1> HIDE DEF mine, d
  <1>3. /\ Browser(d) /\ d.env = c.env /\ d.drafts = c.drafts /\ d.store = c.store
        /\ d.lists = [c.lists EXCEPT !["experiment"] = mine]
    BY <1>1 DEF Browser
  <1>4. /\ DOMAIN d.lists = DraftKinds
        /\ \A k \in DraftKinds : d.lists[k] = IF k = "experiment" THEN mine ELSE c.lists[k]
    BY <1>3
  <1> QED
    BY <1>2, <1>3, <1>4 DEF d

(* Every list that is loaded is an answer or what the server has.          *)
ListsOf(c, data) ==
    /\ Browser(c) /\ c.env = b.env /\ c.drafts = b.drafts /\ c.store = b.store
    /\ DOMAIN c.lists = DraftKinds
    /\ \A k \in DraftKinds :
          \/ c.lists[k] = b.lists[k]
          \/ /\ k \in DOMAIN data
             /\ DOMAIN c.lists[k] \subseteq DOMAIN data[k]
             /\ \A id \in DOMAIN c.lists[k] : c.lists[k][id] = data[k][id]

LEMMA EachLoads ==
    ASSUME PageInv, IdsInv, loadFlags \/ loadRules \/ loadExperiments
    PROVE  \E c, data :
              /\ data = live \/ \E m \in inbox : data = m.data
              /\ ListsOf(c, data)
              /\ Shown(restoreDrafts(c))
              /\ run' = [run EXCEPT !.shared = FALSE]
              /\ \A x \in inbox' : x \in inbox \/ x = Ask("rules", page.gen, "")
                                               \/ x = Ask("experiments", page.gen, "")
              /\ UNCHANGED <<live, nextId>>
  <1>1. Browser(b) /\ DOMAIN b.lists = DraftKinds
    BY DEF PageInv, Agrees, IdsInv, BrowserIds
  <1>2. ASSUME NEW m \in inbox, m.what \in {"flags", "rules"}, NEW data \in {m, Now(m)}
        PROVE  \/ ListsOf(Loaded(b, data), live)
               \/ \E x \in inbox : ListsOf(Loaded(b, data), x.data)
    <2>1. CASE data = m
      <3>1. DOMAIN m.data \subseteq DraftKinds
        BY DEF IdsInv, MailIds, Answers
      <3> QED
        BY <1>1, <2>1, <3>1, LoadedLists DEF ListsOf
    <2>2. CASE data = Now(m)
      <3>1. DOMAIN data.data \subseteq DraftKinds /\ \A k \in DOMAIN data.data : data.data[k] = live[k]
        BY <1>2, <2>2, Asked DEF Now
      <3>2. DOMAIN live = DraftKinds
        BY DEF IdsInv, ServerIds
      <3> QED
        BY <1>1, <3>1, <3>2, LoadedLists DEF ListsOf
    <2> QED
      BY <2>1, <2>2
  <1>3. CASE loadFlags
    <2>1. PICK m \in inbox : /\ m.what = "flags"
                             /\ \E data \in {m, Now(m)} : Shown(restoreDrafts(Loaded(b, data)))
                             /\ inbox' = (inbox \ {m}) \union {Ask("rules", page.gen, ""), Ask("experiments", page.gen, "")}
      BY <1>3 DEF loadFlags
    <2>2. run' = [run EXCEPT !.shared = FALSE] /\ UNCHANGED <<live, nextId>>
      BY <1>3 DEF loadFlags
    <2> QED
      BY <1>2, <2>1, <2>2
  <1>4. CASE loadRules
    <2>1. PICK m \in inbox : /\ m.what = "rules"
                             /\ \E data \in {m, Now(m)} : Shown(restoreDrafts(Loaded(b, data)))
                             /\ inbox' = inbox \ {m}
      BY <1>4 DEF loadRules, Fresh
    <2>2. run' = [run EXCEPT !.shared = FALSE] /\ UNCHANGED <<live, nextId>>
      BY <1>4 DEF loadRules
    <2> QED
      BY <1>2, <2>1, <2>2
  <1>5. CASE loadExperiments
    <2>1. PICK m \in inbox : /\ m.what = "experiments"
                             /\ \E exps \in {m.data.experiment, Now(m).data.experiment} : Shown(restoreDrafts(MineOf(b, exps)))
                             /\ inbox' = inbox \ {m}
      BY <1>5 DEF loadExperiments, Fresh, MineOf
    <2>2. run' = [run EXCEPT !.shared = FALSE] /\ UNCHANGED <<live, nextId>>
      BY <1>5 DEF loadExperiments
    <2>3. PICK exps \in {m.data.experiment, Now(m).data.experiment} : Shown(restoreDrafts(MineOf(b, exps)))
      BY <2>1
    <2>4. CASE exps = Now(m).data.experiment
      <3>1. exps = live.experiment
        BY <2>1, <2>4 DEF Now, Ask, Lists
      <3>2. ListsOf(MineOf(b, exps), live)
        BY <1>1, <3>1, MineLists DEF ListsOf, IdsInv, ServerIds
      <3> QED
        BY <2>1, <2>2, <2>3, <3>2
    <2>5. CASE exps = m.data.experiment
      <3>1. "experiment" \in DOMAIN m.data
        BY <2>1 DEF IdsInv, MailIds, Answers
      <3>2. ListsOf(MineOf(b, exps), m.data)
        BY <1>1, <2>5, <3>1, MineLists DEF ListsOf
      <3> QED
        BY <2>1, <2>2, <2>3, <3>2
    <2> QED
      BY <2>3, <2>4, <2>5
  <1> QED
    BY <1>3, <1>4, <1>5

LEMMA InitTodo == Init => TodoIds(run.todo, nextId)
  BY DEF Init, IdleRun, TodoIds

LEMMA InitIds == Init => IdsInv
  <1> SUFFICES ASSUME Init PROVE IdsInv
    OBVIOUS
  <1>1. PICK e \in Envs :
           b = [env |-> e, last |-> e, drafts |-> ensureDraftShape, seq |-> 0,
                lists |-> Seed, store |-> [x \in Envs |-> NothingSaved]]
    BY DEF Init
  <1>2. nextId = 10 /\ live = Seed /\ inbox = {}
    BY DEF Init, FirstId
  <1>3. ServerIds(live, nextId)
    <2>1. /\ DOMAIN live = DraftKinds
          /\ \A k \in DraftKinds :
                /\ DOMAIN live[k] \subseteq Issued(k, nextId)
                /\ \A id \in DOMAIN live[k] : /\ Record(live[k][id]) /\ HasRelation(k, live[k][id])
                                             /\ Relates(live[k][id], DOMAIN live.group, DOMAIN live.flag)
      BY <1>2, SeedAssumption DEF FirstId
    <2>2. "group" \in DraftKinds /\ "flag" \in DraftKinds
      BY DEF DraftKinds
    <2>3. \A k \in DraftKinds : \A id \in DOMAIN live[k] : Issues(live[k][id], nextId)
      BY <2>1, <2>2 DEF Issues, Relates
    <2>4. \A k \in DraftKinds : \A id \in DOMAIN live[k] : Hanging(live, k, live[k][id])
      BY <2>1 DEF Hanging, Relates, HasRelation
    <2> QED
      BY <2>1, <2>3, <2>4 DEF ServerIds, ListIds, Related
  <1>4. BrowserIds(b, nextId)
    BY <1>1, <1>2, <1>3, EmptyIds DEF BrowserIds, ServerIds, Bucket
  <1>5. MailIds(inbox, nextId)
    BY <1>2 DEF MailIds
  <1> QED
    BY <1>2, <1>3, <1>4, <1>5, InitTodo DEF IdsInv

(* Steps that leave the server alone. *)
LEMMA ClientIds ==
    ASSUME IdsInv, UNCHANGED <<live, nextId>>, BrowserIds(b', nextId), MailIds(inbox', nextId),
           TodoIds(run'.todo, nextId)
    PROVE  IdsInv'
  BY DEF IdsInv

(* The steps of a run are the entries of the buckets. *)
LEMMA AllStepsAre ==
    \A s : s \in AllSteps <=> \E k \in DraftKinds : \E id \in DOMAIN b.drafts[k] : s = StepOf(k, id)
  <1> DEFINE Of(k) == {[kind |-> k, id |-> x[1], op |-> x[2].op, body |-> x[2].body] : x \in draftBucketEntries(b, k)}
  <1>1. \A k : \A s : s \in Of(k) <=> \E id \in DOMAIN b.drafts[k] : s = StepOf(k, id)
    <2> SUFFICES ASSUME NEW k PROVE Of(k) = {StepOf(k, id) : id \in DOMAIN b.drafts[k]}
      OBVIOUS
    <2>1. ASSUME NEW id \in DOMAIN b.drafts[k]
          PROVE  StepOf(k, id) \in Of(k)
      <3>1. <<id, b.drafts[k][id]>> \in draftBucketEntries(b, k)
        BY DEF draftBucketEntries
      <3> QED
        BY <3>1 DEF StepOf
    <2>2. ASSUME NEW x \in draftBucketEntries(b, k)
          PROVE  \E id \in DOMAIN b.drafts[k] :
                    [kind |-> k, id |-> x[1], op |-> x[2].op, body |-> x[2].body] = StepOf(k, id)
      BY DEF draftBucketEntries, StepOf
    <2> QED
      BY <2>1, <2>2
  <1>2. AllSteps = UNION {Of(k) : k \in DraftKinds}
    BY DEF AllSteps
  <1> HIDE DEF Of
  <1> QED
    BY <1>1, <1>2

LEMMA AllStepsIds ==
    ASSUME NEW n, DraftIds(b.drafts, n)
    PROVE  TodoIds(AllSteps, n)
  <1>1. ASSUME NEW k \in DraftKinds, NEW id \in DOMAIN b.drafts[k]
        PROVE  StepIds(StepOf(k, id), n)
    <2>1. /\ EntryOk(k, b.drafts[k][id], n) /\ KnownId(k, id, n)
          /\ b.drafts[k][id].op = "create" => TempOf(k, id)
      BY DEF DraftIds, KnownId
    <2> QED
      BY <2>1 DEF EntryOk, StepIds, StepOf
  <1> QED
    BY <1>1, AllStepsAre DEF TodoIds

(* Merging into an entry changes its step to what the entry is now. *)
LEMMA FollowIds ==
    ASSUME PageInv, IdsInv, NEW kind \in DraftKinds, NEW op, NEW id, NEW c, BrowserIds(c, nextId)
    PROVE  TodoIds(Follow(kind, op, id, c).todo, nextId)
  <1> DEFINE entry == c.drafts[kind][id]
             F == Follow(kind, op, id, c)
  <1>1. ASSUME NEW t \in F.todo
        PROVE  \/ t \in run.todo
               \/ \E s \in run.todo : /\ s.kind = kind /\ s.id = id /\ id \in DOMAIN c.drafts[kind]
                                      /\ t = [s EXCEPT !.body = entry.body]
    <2>1. "todo" \in DOMAIN run
      BY DEF PageInv, RunShape
    <2> HIDE DEF entry
    <2> QED
      BY <1>1, <2>1 DEF Follow, entry
  <1> HIDE DEF F
  <1>2. ASSUME NEW t, NEW s \in run.todo, s.kind = kind, s.id = id, id \in DOMAIN c.drafts[kind],
               t = [s EXCEPT !.body = entry.body]
        PROVE  StepIds(t, nextId)
    <2>1. EntryOk(kind, entry, nextId) /\ (TempOf(kind, id) => entry.op = "create")
      BY <1>2 DEF BrowserIds, DraftIds
    <2>2. StepIds(s, nextId)
      BY DEF IdsInv, TodoIds
    <2> HIDE DEF entry
    <2>3. /\ DOMAIN t = {"kind", "id", "op", "body"}
          /\ t.kind = kind /\ t.id = id /\ t.op = s.op /\ t.body = entry.body
      BY <1>2, <2>2 DEF StepIds
    <2> QED
      BY <1>2, <2>1, <2>2, <2>3 DEF StepIds, EntryOk
  <1>3. \A s \in run.todo : StepIds(s, nextId)
    BY DEF IdsInv, TodoIds
  <1> QED
    BY <1>1, <1>2, <1>3 DEF TodoIds, F

LEMMA StageKeepsIds ==
    ASSUME PageInv, IdsInv, StageSomething
    PROVE  IdsInv'
  <1>0. Agrees(b) /\ BrowserIds(b, nextId) /\ MailIds(inbox, nextId)
    BY DEF PageInv, IdsInv
  <1>1. StagesOne
    BY <1>0, EachStagesOne
  <1>2. PICK kind \in DraftKinds, op \in {"create", "update", "delete"} : \E i, x, m :
           /\ Stage(kind, op, i, x, m)
           /\ op = "create" \/ i \in DOMAIN Merged(b, kind)
           /\ KnownRefs(x, nextId)
           /\ op = "create" => HasRelation(kind, x)
    BY <1>1 DEF StagesOne
  <1>3. PICK id, body, members :
           /\ Stage(kind, op, id, body, members)
           /\ op = "create" \/ id \in DOMAIN Merged(b, kind)
           /\ KnownRefs(body, nextId)
           /\ op = "create" => HasRelation(kind, body)
    BY <1>2
  <1> DEFINE c == draftStage(b, kind, op, id, body, members)
  <1>4. BrowserIds(c, nextId)
    BY <1>0, <1>3, StageIds
  <1>5. Staged(kind, op, id, c)
    BY <1>3 DEF Stage
  <1> HIDE DEF c
  <1>6. /\ b' = c /\ UNCHANGED <<inbox, live, nextId>>
        /\ run' = Follow(kind, op, id, c) \/ run' = IdleRun
    BY <1>5 DEF Staged
  <1>7. TodoIds(run'.todo, nextId)
    <2>1. CASE run' = Follow(kind, op, id, c)
      BY <1>4, <2>1, FollowIds
    <2>2. CASE run' = IdleRun
      BY <2>2 DEF IdleRun, TodoIds
    <2> QED
      BY <1>6, <2>1, <2>2
  <1> QED
    BY <1>0, <1>4, <1>6, <1>7, ClientIds

LEMMA RunKeepsIds ==
    ASSUME PageInv, IdsInv, runApplyStep
    PROVE  IdsInv'
  <1>1. PICK s \in NextSteps(run.todo) :
           \/ UNCHANGED <<live, nextId>>
           \/ /\ Accepts(s, Remapped(s, run.map))
              /\ live' = Written(s, Remapped(s, run.map)) /\ nextId' = nextId + 1
    BY DEF runApplyStep
  <1>2. UNCHANGED <<b, inbox>> /\ run'.todo = run.todo
    BY DEF runApplyStep, PageInv, RunShape
  <1>3. s.kind \in DraftKinds /\ StepIds(s, nextId)
    BY DEF NextSteps, IdsInv, TodoIds, StepIds
  <1>4. CASE UNCHANGED <<live, nextId>>
    BY <1>2, <1>4, ClientIds DEF IdsInv
  <1>5. CASE /\ Accepts(s, Remapped(s, run.map))
             /\ live' = Written(s, Remapped(s, run.map)) /\ nextId' = nextId + 1
    <2>1. nextId \in Nat /\ nextId' \in Nat
      BY <1>5 DEF IdsInv
    <2>2. DOMAIN Remapped(s, run.map) = DOMAIN s.body /\ Record(Remapped(s, run.map))
      BY DEF Remapped, Record
    <2>3. ServerIds(live', nextId')
      BY <1>3, <1>5, <2>1, <2>2, WrittenIds DEF IdsInv, StepIds, HasRelation
    <2>4. BrowserIds(b, nextId') /\ MailIds(inbox, nextId') /\ TodoIds(run.todo, nextId')
      BY <1>5, <2>1, IdsGrow DEF IdsInv
    <2> QED
      BY <1>2, <2>1, <2>3, <2>4 DEF IdsInv
  <1> QED
    BY <1>1, <1>4, <1>5

LEMMA BrowserKeepsIds ==
    ASSUME PageInv, IdsInv, discardUnpublished \/ consumeDraft \/ applyFailed \/ markPublished \/ Reload
    PROVE  IdsInv'
  <1>0. \A todo : todo \subseteq run.todo => TodoIds(todo, nextId)
    BY DEF IdsInv, TodoIds
  <1>1. Agrees(b) /\ Browser(b) /\ BrowserIds(b, nextId) /\ MailIds(inbox, nextId) /\ ServerIds(live, nextId)
    BY DEF PageInv, Agrees, IdsInv
  <1>2. BrowserIds(ensureScope(draftClearAll(b)), nextId)
    BY <1>1, ClearIds, EnsureIds, ClearInScope DEF InScope, Agrees
  <1>3. CASE discardUnpublished
    <2>1. b' = ensureScope(draftClearAll(b)) /\ UNCHANGED <<inbox, live, nextId>>
      BY <1>3 DEF discardUnpublished
    <2>2. run'.todo = {}
      BY <1>3 DEF discardUnpublished, IdleRun
    <2> QED
      BY <1>0, <1>1, <1>2, <2>1, <2>2, ClientIds
  <1>4. CASE consumeDraft
    <2> DEFINE c == ensureScope(b)
               kind == run.sent.step.kind
               id == run.sent.step.id
    <2>1. b' = draftDiscard(b, kind, id) /\ UNCHANGED <<inbox, live, nextId>>
      BY <1>4 DEF consumeDraft
    <2>2. kind \in DraftKinds
      BY <1>4 DEF consumeDraft, PageInv, StepKinds, Kind
    <2>3. InScope(c) /\ BrowserIds(c, nextId)
      BY <1>1, EnsureInScope, EnsureIds
    <2>4. draftDiscard(b, kind, id) = draftDiscard(c, kind, id)
      BY <2>3, EnsureAgain DEF draftDiscard, InScope
    <2> HIDE DEF c, kind, id
    <2>5. BrowserIds(draftDiscard(c, kind, id), nextId)
      BY <2>2, <2>3, DiscardIds
    <2>6. run'.todo \subseteq run.todo
      BY <1>4 DEF consumeDraft, PageInv, RunShape
    <2> QED
      BY <1>0, <1>1, <2>1, <2>4, <2>5, <2>6, ClientIds
  <1>5. CASE applyFailed
    <2>1. b' = ensureScope(persistDrafts(b)) /\ UNCHANGED <<inbox, live, nextId>>
      BY <1>5 DEF applyFailed
    <2>2. BrowserIds(ensureScope(persistDrafts(b)), nextId)
      BY <1>1, PersistInScope, PersistIds, EnsureIds DEF InScope, Agrees
    <2>3. run'.todo = run.todo
      BY <1>5 DEF applyFailed, PageInv, RunShape
    <2> QED
      BY <1>0, <1>1, <2>1, <2>2, <2>3, ClientIds
  <1>6. CASE markPublished
    <2>1. (b' = ensureScope(draftClearAll(b)) \/ b' = b) /\ UNCHANGED <<live, nextId>>
      BY <1>6 DEF markPublished
    <2>2. BrowserIds(b', nextId)
      BY <1>1, <1>2, <2>1
    <2>3. \A m \in inbox' : m \in inbox \/ m = Ask("flags", page.gen, "")
                            \/ \E then : m = Ask("releases", page.gen, then)
      BY <1>6 DEF markPublished
    <2>4. MailIds(inbox', nextId)
      BY <1>1, <2>3, AskIds DEF MailIds
    <2>5. run'.todo = run.todo
      BY <1>6 DEF markPublished, PageInv, RunShape
    <2> QED
      BY <1>0, <2>1, <2>2, <2>4, <2>5, ClientIds
  <1>7. CASE Reload
    <2>1. /\ b' = [b EXCEPT !.last = NoScope, !.drafts = ensureDraftShape, !.seq = 0,
                           !.lists = [k \in DraftKinds |-> <<>>]]
          /\ UNCHANGED <<live, nextId>>
          /\ inbox' = {Ask("flags", 0, ""), Ask("releases", 0, "")}
      BY <1>7 DEF Reload
    <2>2. BrowserIds(b', nextId)
      <3>1. /\ b'.drafts = ensureDraftShape /\ b'.store = b.store
            /\ b'.lists = [k \in DraftKinds |-> <<>>]
        BY <1>1, <2>1 DEF Browser
      <3> QED
        BY <1>1, <3>1, EmptyIds DEF BrowserIds, ListIds
    <2>3. MailIds(inbox', nextId)
      BY <1>1, <2>1, AskIds DEF MailIds
    <2>4. run'.todo = {}
      BY <1>7, Zenon DEF Reload, IdleRun
    <2> QED
      BY <1>0, <2>1, <2>2, <2>3, <2>4, ClientIds
  <1> QED
    BY <1>3, <1>4, <1>5, <1>6, <1>7

LEMMA ListedIds ==
    ASSUME IdsInv, NEW c, NEW data, data = live \/ \E m \in inbox : data = m.data, ListsOf(c, data)
    PROVE  BrowserIds(c, nextId)
  <1>1. ListIds(data, nextId)
    BY DEF IdsInv, ServerIds, MailIds, Answers
  <1>2. \A k \in DraftKinds : /\ DOMAIN c.lists[k] \subseteq Issued(k, nextId)
                              /\ \A id \in DOMAIN c.lists[k] : Issues(c.lists[k][id], nextId)
    BY <1>1 DEF ListsOf, ListIds, IdsInv, BrowserIds
  <1> QED
    BY <1>2 DEF ListsOf, ListIds, IdsInv, BrowserIds

LEMMA ListsKeepIds ==
    ASSUME PageInv, IdsInv, loadFlags \/ loadRules \/ loadExperiments
    PROVE  IdsInv'
  <1>1. PICK c, data :
              /\ data = live \/ \E m \in inbox : data = m.data
              /\ ListsOf(c, data)
              /\ Shown(restoreDrafts(c))
              /\ run' = [run EXCEPT !.shared = FALSE]
              /\ \A x \in inbox' : x \in inbox \/ x = Ask("rules", page.gen, "")
                                               \/ x = Ask("experiments", page.gen, "")
              /\ UNCHANGED <<live, nextId>>
    BY EachLoads
  <1>3. BrowserIds(c, nextId)
    BY <1>1, ListedIds
  <1>4. BrowserIds(b', nextId)
    BY <1>1, <1>3, RestoreIds DEF Shown, ListsOf
  <1>5. MailIds(inbox', nextId)
    BY <1>1, AskIds DEF MailIds, IdsInv
  <1>6. run'.todo = run.todo
    BY <1>1 DEF PageInv, RunShape
  <1> QED
    BY <1>1, <1>4, <1>5, <1>6, ClientIds DEF IdsInv

LEMMA OthersKeepIds ==
    ASSUME PageInv, IdsInv,
           \/ publishSubmit \/ publish \/ rollback \/ openPromoteDialog \/ submitPromote
           \/ closePromoteDialog \/ loadReleases \/ Dropped \/ envSelectChange \/ OtherPublishes
    PROVE  IdsInv'
  <1>1. UNCHANGED <<live, nextId>>
    BY DEF publishSubmit, publish, rollback, openPromoteDialog, submitPromote, closePromoteDialog,
           loadReleases, Dropped, envSelectChange, OtherPublishes
  <1>2. b' = b \/ \E e : b' = [b EXCEPT !.env = e]
    <2>1. CASE envSelectChange
      BY <2>1 DEF envSelectChange
    <2>2. CASE ~envSelectChange
      BY <2>2 DEF publishSubmit, publish, rollback, openPromoteDialog, submitPromote,
             closePromoteDialog, loadReleases, Dropped, OtherPublishes
    <2> QED
      BY <2>1, <2>2
  <1>3. \A m \in inbox' : m \in inbox \/ \E gen, then : m = Ask("releases", gen, then)
    <2>0. CASE rollback
      BY <2>0 DEF rollback
    <2>1. CASE envSelectChange
      <3>1. inbox' = inbox \union {Ask("releases", page.gen + 1, "")}
        BY <2>1 DEF envSelectChange
      <3> QED
        BY <3>1
    <2>2. CASE submitPromote
      BY <2>2 DEF submitPromote
    <2>3. CASE loadReleases \/ Dropped
      BY <2>3 DEF loadReleases, Dropped
    <2>4. CASE publishSubmit \/ publish \/ openPromoteDialog \/ closePromoteDialog \/ OtherPublishes
      BY <2>4 DEF publishSubmit, publish, openPromoteDialog, closePromoteDialog, OtherPublishes
    <2> QED
      BY <2>0, <2>1, <2>2, <2>3, <2>4
  <1>4. BrowserIds(b', nextId)
    BY <1>2 DEF PageInv, Agrees, Browser, IdsInv, BrowserIds
  <1>5. MailIds(inbox', nextId)
    BY <1>3, AskIds DEF MailIds, IdsInv
  <1>6. TodoIds(run'.todo, nextId)
    <2>1. CASE publishSubmit
      <3>1. run'.todo = AllSteps
        BY <2>1 DEF publishSubmit, IdleRun, buildApplySteps
      <3> QED
        BY <3>1, AllStepsIds DEF IdsInv, BrowserIds
    <2>2. CASE ~publishSubmit
      <3>1. run'.todo = run.todo
        BY <2>2 DEF publish, rollback, openPromoteDialog, submitPromote, closePromoteDialog, loadReleases,
               Dropped, envSelectChange, OtherPublishes, PageInv, RunShape
      <3> QED
        BY <3>1 DEF IdsInv
    <2> QED
      BY <2>1, <2>2
  <1> QED
    BY <1>1, <1>4, <1>5, <1>6, ClientIds

LEMMA StepKeepsIds ==
    ASSUME PageInv, IdsInv, [Next]_vars
    PROVE  IdsInv'
  <1>1. CASE UNCHANGED vars
    BY <1>1 DEF vars, IdsInv
  <1>2. CASE Next
    BY <1>2, StageKeepsIds, RunKeepsIds, BrowserKeepsIds, ListsKeepIds, OthersKeepIds DEF Next
  <1> QED
    BY <1>1, <1>2

-----------------------------------------------------------------------------
(* The drafts behind a run that nobody disturbed.                          *)
Undisturbed == run.calm /\ run.phase \in {"applying", "failed"}

IsMoot(s) == <<s.kind, s.id>> \in run.moot
InMemory(s) == s.id \in DOMAIN b.drafts[s.kind]

(* What is left to send: one step for an entry, and every entry in memory  *)
(* has its step.                                                           *)
Steps ==
    /\ \A s, t \in run.todo : s.kind = t.kind /\ s.id = t.id => s = t
    /\ \A s \in run.todo :
          /\ s.kind \in DraftKinds
          /\ KnownId(s.kind, s.id, nextId)
          /\ s.op = "create" => TempOf(s.kind, s.id)
    /\ \A k \in DraftKinds : \A id \in DOMAIN b.drafts[k] : StepOf(k, id) \in run.todo

(* The list data shows no update as idle that the server does not have,    *)
(* and no create and delete as a pair that was none at the click.          *)
IdleIn(data, s) ==
    /\ s.op = "update" /\ s.kind \in DOMAIN data /\ s.id \in DOMAIN data[s.kind]
    /\ Same(data[s.kind][s.id], s.body)
Undoes(rec, body) == \A f \in DOMAIN body : f \in DOMAIN rec /\ body[f] = rec[f]
PairIn(data, c, d) ==
    /\ c.kind = "rule" /\ c.op = "create" /\ d.kind = "rule" /\ d.op = "delete"
    /\ "rule" \in DOMAIN data /\ d.id \in DOMAIN data.rule
    /\ DOMAIN c.body # {} /\ Undoes(data.rule[d.id], c.body)
IdleTrue(data) == \A s \in run.todo : IdleIn(data, s) => OnServer(s) \/ IsMoot(s)
PairsTrue(data) == \A c, d \in run.todo : PairIn(data, c, d) => IsMoot(c) /\ IsMoot(d)

ListData == {b.lists} \union {m.data : m \in inbox}

(* A created record is in the map when its answer is there, and nothing    *)
(* names it before.                                                        *)
TempMap(map) == \A x \in DOMAIN map : isDraftTempId(x) /\ map[x] # NoRef
MapInv ==
    /\ TempMap(run.map)
    /\ \A s \in run.todo : s.op = "create" => s.id \notin DOMAIN run.map

Sent(s) == run.sent # Nothing /\ run.sent.step = s
SentInv ==
    run.phase = "applying" /\ run.sent # Nothing =>
        /\ run.sent.step \in run.todo
        /\ run.sent.id \in Nat /\ Related(live, run.sent.id)

(* Before its request an update is on the server only if it is moot or     *)
(* takes a flag out of a group, which the delete of the group does too.    *)
Ungroups(s) == s.kind = "flag" /\ "group" \in DOMAIN s.body /\ s.body.group = NoRef
NotEarly ==
    run.phase = "applying" =>
        \A s \in run.todo : OnServer(s) => Sent(s) \/ IsMoot(s) \/ Ungroups(s)

Held == \A s \in run.todo : OnServer(s) \/ IsMoot(s) \/ InMemory(s)

RunInv ==
    Undisturbed =>
        /\ b.last = b.env /\ run.env = b.env
        /\ Steps /\ MapInv /\ SentInv /\ NotEarly /\ Held
        /\ \A data \in ListData : IdleTrue(data) /\ PairsTrue(data)
        /\ PairsTrue(live)

-----------------------------------------------------------------------------
(* What a record has of a body, and what a step changes of it.             *)
InRecords(records, map, s) ==
    /\ s.op = "update" /\ s.id \in DOMAIN records[s.kind]
    /\ Same(records[s.kind][s.id], Remapped(s, map))

LEMMA OnServerIs ==
    /\ \A s : OnServer(s) <=> InRecords(live, run.map, s)
    /\ \A s : OnServer(s)' <=> InRecords(live', run'.map, s)
  BY DEF OnServer, InRecords

LEMMA SameIs ==
    ASSUME NEW rec, NEW body
    PROVE  Same(rec, body) <=> Undoes(rec, body)
  BY DEF Same, Undoes, bodiesEqual, applyBody

LEMMA RemappedIs ==
    ASSUME NEW s, NEW map
    PROVE  /\ DOMAIN Remapped(s, map) = DOMAIN s.body /\ Record(Remapped(s, map))
           /\ \A f \in DOMAIN s.body :
                 Remapped(s, map)[f] = CASE f = "group" -> remapGroupRef(s.body["group"], map)
                                         [] f = "flag" -> resolveFlagRef(s.body["flag"], map)
                                         [] OTHER -> s.body[f]
  BY DEF Remapped, Record

LEMMA NoRefIsPlain == ~isDraftTempId(NoRef) /\ NoRef # Dangling
  BY DEF isDraftTempId, NoRef, Dangling

(* Relations of the server are no temp ids, so that nothing is mapped that *)
(* a record already has.                                                   *)
LEMMA RelationsPlain ==
    ASSUME NEW rec, NEW n, Relates(rec, Issued("group", n), Issued("flag", n))
    PROVE  /\ "group" \in DOMAIN rec => ~isDraftTempId(rec["group"])
           /\ "flag" \in DOMAIN rec => ~isDraftTempId(rec["flag"]) /\ rec["flag"] # Dangling
  <1>1. "group" \in DraftKinds /\ "flag" \in DraftKinds
    BY DEF DraftKinds
  <1> QED
    BY <1>1, IssuedIsPlain, NoRefIsPlain DEF Relates

(* Over the server's own records an update that changes nothing is there,  *)
(* whatever is in the map.                                                 *)
LEMMA SameRemapped ==
    ASSUME NEW rec, NEW n, Relates(rec, Issued("group", n), Issued("flag", n)),
           NEW s, NEW map, TempMap(map)
    PROVE  /\ Same(rec, s.body) => Same(rec, Remapped(s, map))
           /\ map = <<>> /\ Same(rec, Remapped(s, map)) => Same(rec, s.body)
  <1>1. /\ "group" \in DOMAIN rec => rec["group"] \notin DOMAIN map
        /\ "flag" \in DOMAIN rec => rec["flag"] \notin DOMAIN map
                                    /\ ~isDraftTempId(rec["flag"]) /\ rec["flag"] # Dangling
    BY RelationsPlain DEF TempMap
  <1>2. ASSUME Undoes(rec, s.body), NEW f \in DOMAIN s.body
        PROVE  f \in DOMAIN rec /\ Remapped(s, map)[f] = rec[f]
    <2>1. f \in DOMAIN rec /\ s.body[f] = rec[f]
      BY <1>2 DEF Undoes
    <2> QED
      BY <2>1, <1>1, RemappedIs DEF remapGroupRef, resolveFlagRef
  <1>3. ASSUME map = <<>>, Undoes(rec, Remapped(s, map)), NEW f \in DOMAIN s.body
        PROVE  f \in DOMAIN rec /\ s.body[f] = rec[f]
    <2>1. f \in DOMAIN rec /\ Remapped(s, map)[f] = rec[f]
      BY <1>3, RemappedIs DEF Undoes
    <2>2. DOMAIN map = {}
      BY <1>3
    <2> QED
      BY <2>1, <2>2, <1>1, RemappedIs DEF remapGroupRef, resolveFlagRef
  <1>4. DOMAIN Remapped(s, map) = DOMAIN s.body
    BY RemappedIs
  <1>5. Undoes(rec, s.body) => Undoes(rec, Remapped(s, map))
    BY <1>2, <1>4 DEF Undoes
  <1>6. map = <<>> /\ Undoes(rec, Remapped(s, map)) => Undoes(rec, s.body)
    BY <1>3 DEF Undoes
  <1> QED
    BY <1>5, <1>6, SameIs

LEMMA IdleLive ==
    ASSUME ServerIds(live, nextId), NEW s, s.kind \in DraftKinds, NEW map, TempMap(map), IdleIn(live, s)
    PROVE  InRecords(live, map, s)
  <1>1. Relates(live[s.kind][s.id], Issued("group", nextId), Issued("flag", nextId))
    BY DEF IdleIn, ServerIds, Related, Issues
  <1> QED
    BY <1>1, SameRemapped DEF IdleIn, InRecords

(* Records that a request leaves, and the record that it updates. *)
LEMMA WrittenStay ==
    ASSUME DOMAIN live = DraftKinds, NEW s, s.kind \in DraftKinds, NEW body, Accepts(s, body)
    PROVE  /\ \A id \in DOMAIN live["flag"] :
                 id \in DOMAIN Written(s, body)["flag"] \/ (s.kind = "flag" /\ id = s.id)
           /\ s.op = "update" => /\ s.id \in DOMAIN Written(s, body)[s.kind]
                                 /\ Written(s, body)[s.kind][s.id] = applyBody(live[s.kind][s.id], body)
  <1> DEFINE W == Written(s, body)
             keep == Without(live[s.kind], {s.id})
  <1>0. "group" \in DraftKinds /\ "flag" \in DraftKinds /\ "rule" \in DraftKinds /\ "experiment" \in DraftKinds
    BY DEF DraftKinds
  <1>1. CASE s.op = "create"
    <2>1. W = [live EXCEPT ![s.kind] = Put(@, Live(s.kind, nextId), body)]
      BY <1>1 DEF Written
    <2> HIDE DEF W
    <2> QED
      BY <1>0, <1>1, <2>1 DEF Put, W
  <1>2. CASE s.op = "update"
    <2>1. W = [live EXCEPT ![s.kind][s.id] = applyBody(@, body)] /\ s.id \in DOMAIN live[s.kind]
      BY <1>2 DEF Written, Accepts
    <2> HIDE DEF W
    <2>2. W[s.kind] = [live[s.kind] EXCEPT ![s.id] = applyBody(live[s.kind][s.id], body)]
      BY <2>1
    <2>3. s.kind # "flag" => W["flag"] = live["flag"]
      BY <1>0, <2>1
    <2> QED
      BY <2>1, <2>2, <2>3 DEF W
  <1>3. CASE s.op \notin {"create", "update"}
    <2>1. W["flag"] = live["flag"] \/ DOMAIN W["flag"] = DOMAIN live["flag"]
          \/ (s.kind = "flag" /\ W["flag"] = keep)
      <3> DEFINE On(kind) == {x \in DOMAIN live[kind] : live[kind][x].flag = s.id}
                 out(f) == live["flag"][f].group = s.id \/ f \in liveGroupMembers(s.id)
      <3>1. CASE s.op = "delete" /\ s.kind = "flag"
        <4>1. W = [live EXCEPT !.flag = keep, !.rule = Without(@, On("rule")),
                               !.experiment = Without(@, On("experiment"))]
          BY <3>1 DEF Written
        <4> HIDE DEF W, On
        <4> QED
          BY <1>0, <3>1, <4>1
      <3>2. CASE s.op = "delete" /\ s.kind = "group"
        <4>1. W = [live EXCEPT !.group = keep,
                      !.flag = [f \in DOMAIN @ |-> IF out(f) THEN [@[f] EXCEPT !.group = NoRef] ELSE @[f]]]
          BY <3>2 DEF Written
        <4> HIDE DEF W, out
        <4> QED
          BY <1>0, <4>1
      <3>3. CASE ~(s.op = "delete" /\ s.kind \in {"flag", "group"})
        <4>1. W = [live EXCEPT ![s.kind] = keep]
          BY <1>3, <3>3 DEF Written
        <4> HIDE DEF W
        <4> QED
          BY <1>0, <4>1
      <3> QED
        BY <3>1, <3>2, <3>3
    <2> HIDE DEF W
    <2> QED
      BY <1>3, <2>1 DEF Without, W
  <1> QED
    BY <1>1, <1>2, <1>3

(* What a request for one draft does to the others: those that take a flag *)
(* out of a group stay done, and no other comes to be done.                *)
LEMMA ExecutedKeeps ==
    ASSUME nextId \in Nat, ServerIds(live, nextId), NEW map, TempMap(map),
           NEW t, t.kind \in DraftKinds, Accepts(t, Remapped(t, map)),
           NEW s, s.kind \in DraftKinds, KnownId(s.kind, s.id, nextId),
           s.kind = t.kind /\ s.id = t.id => s = t
    PROVE  LET W == Written(t, Remapped(t, map))
           IN /\ s # t /\ Ungroups(s) /\ InRecords(live, map, s) => InRecords(W, map, s)
              /\ s # t /\ InRecords(W, map, s) => InRecords(live, map, s) \/ Ungroups(s)
              /\ s = t /\ s.op = "update" => InRecords(W, map, s)
  <1> DEFINE R == Remapped(s, map)
             body == Remapped(t, map)
             W == Written(t, body)
  <1>1. DOMAIN live = DraftKinds /\ "flag" \in DraftKinds
    BY DEF ServerIds, DraftKinds
  <1>2. \A id \in DOMAIN W[s.kind] : WrittenAs(t, body, s.kind, id, W[s.kind][id])
    BY <1>1, WrittenRecords
  <1>3. /\ \A id \in DOMAIN live["flag"] : id \in DOMAIN W["flag"] \/ (t.kind = "flag" /\ id = t.id)
        /\ t.op = "update" => /\ t.id \in DOMAIN W[t.kind]
                              /\ W[t.kind][t.id] = applyBody(live[t.kind][t.id], body)
    BY <1>1, WrittenStay
  <1>4. s.id # Live(s.kind, nextId)
    <2>1. s.id \in Issued(s.kind, nextId) => s.id # Live(s.kind, nextId)
      BY NextIsFresh
    <2>2. Live(s.kind, nextId) \in Issued(s.kind, nextId + 1)
      BY NextIsFresh
    <2>3. ~isDraftTempId(Live(s.kind, nextId))
      BY <2>2, IssuedIsPlain
    <2> QED
      BY <2>1, <2>3 DEF KnownId, TempOf
  <1>5. /\ DOMAIN R = DOMAIN s.body
        /\ "group" \in DOMAIN s.body => R["group"] = remapGroupRef(s.body["group"], map)
    BY RemappedIs
  <1>6. "group" \in DOMAIN s.body => (R["group"] = NoRef <=> s.body["group"] = NoRef)
    BY <1>5, NoRefIsPlain DEF remapGroupRef, TempMap
  <1> HIDE DEF W, R, body
  <1>7. ASSUME s # t, s.id \in DOMAIN W[s.kind]
        PROVE  /\ s.id \in DOMAIN live[s.kind]
               /\ \/ W[s.kind][s.id] = live[s.kind][s.id]
                  \/ s.kind = "flag" /\ W[s.kind][s.id] = [live[s.kind][s.id] EXCEPT !.group = NoRef]
    BY <1>2, <1>4, <1>7 DEF WrittenAs
  <1>8. ASSUME s # t, Ungroups(s), InRecords(live, map, s)
        PROVE  InRecords(W, map, s)
    <2>1. s.kind = "flag" /\ "group" \in DOMAIN s.body /\ s.body["group"] = NoRef
      BY <1>8 DEF Ungroups
    <2>2. s.op = "update" /\ s.id \in DOMAIN live["flag"] /\ Undoes(live["flag"][s.id], R)
      BY <1>8, <2>1, SameIs DEF InRecords, R
    <2>3. s.id \in DOMAIN W["flag"]
      BY <1>3, <1>8, <2>1, <2>2
    <2>4. Undoes(W["flag"][s.id], R)
      <3>1. CASE W["flag"][s.id] = live["flag"][s.id]
        BY <2>2, <3>1
      <3>2. CASE W["flag"][s.id] = [live["flag"][s.id] EXCEPT !.group = NoRef]
        BY <1>5, <1>6, <2>1, <2>2, <3>2 DEF Undoes
      <3> QED
        BY <1>7, <1>8, <2>1, <2>3, <3>1, <3>2
    <2> QED
      BY <2>1, <2>2, <2>3, <2>4, SameIs DEF InRecords, R
  <1>9. ASSUME s # t, InRecords(W, map, s), ~Ungroups(s)
        PROVE  InRecords(live, map, s)
    <2>1. s.op = "update" /\ s.id \in DOMAIN W[s.kind] /\ Undoes(W[s.kind][s.id], R)
      BY <1>9, SameIs DEF InRecords, R
    <2>2. s.id \in DOMAIN live[s.kind] /\ Undoes(live[s.kind][s.id], R)
      <3>1. CASE W[s.kind][s.id] = live[s.kind][s.id]
        BY <1>7, <1>9, <2>1, <3>1
      <3>2. CASE s.kind = "flag" /\ W[s.kind][s.id] = [live[s.kind][s.id] EXCEPT !.group = NoRef]
        <4>1. "group" \notin DOMAIN R
          BY <1>5, <1>6, <1>9, <2>1, <3>2 DEF Undoes, Ungroups
        <4> QED
          BY <1>7, <1>9, <2>1, <3>2, <4>1 DEF Undoes
      <3> QED
        BY <1>7, <1>9, <2>1, <3>1, <3>2
    <2> QED
      BY <2>1, <2>2, SameIs DEF InRecords, R
  <1>10. ASSUME s = t, s.op = "update"
         PROVE  InRecords(W, map, s)
    <2>1. s.id \in DOMAIN W[s.kind] /\ W[s.kind][s.id] = applyBody(live[s.kind][s.id], R)
      BY <1>3, <1>10 DEF R, body
    <2>2. Undoes(W[s.kind][s.id], R)
      BY <2>1 DEF Undoes, applyBody
    <2> QED
      BY <1>10, <2>1, <2>2, SameIs DEF InRecords, R
  <1> QED
    BY <1>8, <1>9, <1>10 DEF W, body

(* A rule whose delete waits is changed by no other request. *)
LEMMA PairsStay ==
    ASSUME nextId \in Nat, ServerIds(live, nextId), NEW body,
           NEW t, t.kind \in DraftKinds, Accepts(t, body),
           NEW c, NEW d, d.kind \in DraftKinds, KnownId(d.kind, d.id, nextId),
           d.kind = t.kind /\ d.id = t.id => d = t,
           PairIn(Written(t, body), c, d)
    PROVE  PairIn(live, c, d)
  <1> DEFINE W == Written(t, body)
  <1>1. DOMAIN live = DraftKinds
    BY DEF ServerIds
  <1>2. d.id \in DOMAIN W["rule"] /\ d.kind = "rule" /\ d.op = "delete"
    BY DEF PairIn
  <1>3. WrittenAs(t, body, "rule", d.id, W["rule"][d.id])
    BY <1>1, <1>2, WrittenRecords
  <1>4. d.id # Live("rule", nextId)
    <2>1. d.id \in Issued("rule", nextId) => d.id # Live("rule", nextId)
      BY NextIsFresh
    <2>2. Live("rule", nextId) \in Issued("rule", nextId + 1)
      BY NextIsFresh
    <2>3. ~isDraftTempId(Live("rule", nextId))
      BY <1>2, <2>2, IssuedIsPlain
    <2> QED
      BY <1>2, <2>1, <2>3 DEF KnownId, TempOf
  <1>5. d.id \in DOMAIN live["rule"] /\ W["rule"][d.id] = live["rule"][d.id]
    <2> HIDE DEF W
    <2> QED
      BY <1>2, <1>3, <1>4 DEF WrittenAs
  <1>6. "rule" \in DOMAIN live
    BY <1>1 DEF DraftKinds
  <1> QED
    BY <1>5, <1>6 DEF PairIn

(* Nothing names a record before the answer to its create: to know its id  *)
(* makes no difference to what is on the server.                           *)
LEMMA NamedKeeps ==
    ASSUME NEW map, TempMap(map), NEW n \in Nat, Related(live, n),
           NEW x, isDraftTempId(x), x \notin DOMAIN map, NEW kind,
           NEW s, s.kind \in DraftKinds
    PROVE  /\ TempMap(Put(map, x, Live(kind, n)))
           /\ InRecords(live, Put(map, x, Live(kind, n)), s) <=> InRecords(live, map, s)
  <1> DEFINE id == Live(kind, n)
             more == Put(map, x, id)
             rec == live[s.kind][s.id]
  <1>0. id # NoRef
    BY DEF Live, NoRef
  <1>1. \A y : /\ y \in DOMAIN more <=> y \in DOMAIN map \/ y = x
               /\ y \in DOMAIN map => more[y] = map[y]
               /\ more[x] = id
    BY DEF Put
  <1>2. TempMap(more)
    BY <1>0, <1>1 DEF TempMap
  <1> HIDE DEF more
  <1>3. ASSUME s.id \in DOMAIN live[s.kind]
        PROVE  /\ "group" \in DOMAIN rec => ~isDraftTempId(rec["group"]) /\ rec["group"] # id
               /\ "flag" \in DOMAIN rec => /\ ~isDraftTempId(rec["flag"]) /\ rec["flag"] # Dangling
                                           /\ rec["flag"] # id
    <2>1. Relates(rec, Issued("group", n), Issued("flag", n))
      BY <1>3 DEF Related, Issues
    <2>2. id \notin Issued("group", n) /\ id \notin Issued("flag", n)
      BY NextIsFresh
    <2> QED
      BY <1>0, <2>1, <2>2, RelationsPlain DEF Relates
  <1>4. ASSUME s.id \in DOMAIN live[s.kind], NEW f \in DOMAIN s.body, f \in DOMAIN rec
        PROVE  Remapped(s, more)[f] = rec[f] <=> Remapped(s, map)[f] = rec[f]
    <2>1. CASE f = "group"
      BY <1>1, <1>3, <1>4, <2>1, RemappedIs DEF remapGroupRef
    <2>2. CASE f = "flag"
      BY <1>1, <1>3, <1>4, <2>2, RemappedIs DEF resolveFlagRef
    <2>3. CASE f \notin {"group", "flag"}
      BY <2>3, RemappedIs
    <2> QED
      BY <2>1, <2>2, <2>3
  <1>5. s.id \in DOMAIN live[s.kind] => (Same(rec, Remapped(s, more)) <=> Same(rec, Remapped(s, map)))
    <2>1. DOMAIN Remapped(s, more) = DOMAIN s.body /\ DOMAIN Remapped(s, map) = DOMAIN s.body
      BY RemappedIs
    <2> QED
      BY <1>4, <2>1, SameIs DEF Undoes
  <1> QED
    BY <1>2, <1>5 DEF InRecords, more

(* What is left in memory when a list is shown. *)
LEMMA RestoreDrops ==
    ASSUME Agrees(b), b.last = b.env, NEW c, NEW data, ListsOf(c, data)
    PROVE  LET d == restoreDrafts(c)
           IN /\ d.env = b.env /\ d.last = b.env
              /\ Fewer(d.drafts, b.drafts)
              /\ d.lists = c.lists
              /\ \A k \in DraftKinds : \A id \in DOMAIN b.drafts[k] \ DOMAIN d.drafts[k] :
                    \/ /\ b.drafts[k][id].op = "update" /\ id \in DOMAIN c.lists[k]
                       /\ Same(c.lists[k][id], b.drafts[k][id].body)
                    \/ k = "rule" /\ \E other : \/ PairIn(c.lists, StepOf("rule", id), StepOf("rule", other))
                                                   /\ other \in DOMAIN b.drafts.rule
                                                \/ PairIn(c.lists, StepOf("rule", other), StepOf("rule", id))
                                                   /\ other \in DOMAIN b.drafts.rule
  <1> DEFINE forgot == [c EXCEPT !.last = NoScope]
             e == ensureScope(forgot)
  <1>1. restoreDrafts(c) = pruneNoopDrafts(e)
    BY DEF restoreDrafts
  <1>2. /\ Agrees(forgot) /\ forgot.env = b.env /\ forgot.lists = c.lists
        /\ forgot.store = b.store /\ forgot.last = NoScope
    BY DEF ListsOf, Browser, Agrees
  <1>3. b.last # NoScope /\ b.drafts = Bucket(b.store[b.env])
    BY ScopeAssumption DEF Agrees, Browser
  <1>4. InScope(e) /\ e.env = b.env /\ e.last = b.env /\ e.lists = c.lists /\ e.drafts = b.drafts
    <2> HIDE DEF forgot
    <2>1. InScope(e) /\ e.env = b.env
      BY <1>2, EnsureInScope
    <2>2. e.lists = c.lists /\ e.drafts = b.drafts
      BY <1>2, <1>3 DEF ensureScope, scopeKey, readScopeBucket, Bucket, Agrees, Browser
    <2> QED
      BY <2>1, <2>2 DEF InScope
  <1> HIDE DEF e, forgot
  <1>5. PICK some :
           /\ Fewer(some, e.drafts)
           /\ \A k \in DraftKinds : \A id \in DOMAIN e.drafts[k] \ DOMAIN some[k] : Droppable(e, k, id)
           /\ \/ pruneNoopDrafts(e) = e /\ some = e.drafts
              \/ pruneNoopDrafts(e) = persistDrafts([e EXCEPT !.drafts = some])
    BY <1>4, PruneDrops
  <1>6. LET d == pruneNoopDrafts(e) IN d.drafts = some /\ d.lists = c.lists /\ d.env = b.env /\ d.last = b.env
    <2>1. CASE pruneNoopDrafts(e) = e /\ some = e.drafts
      BY <1>4, <2>1
    <2>2. CASE pruneNoopDrafts(e) = persistDrafts([e EXCEPT !.drafts = some])
      BY <1>4, <2>2 DEF persistDrafts, scopeKey, InScope, Agrees, Browser
    <2> QED
      BY <1>5, <2>1, <2>2
  <1>7. DOMAIN c.lists = DraftKinds /\ "rule" \in DraftKinds
    BY DEF ListsOf, DraftKinds
  <1>8. ASSUME NEW create, NEW delete, Pair(e, create, delete)
        PROVE  /\ PairIn(c.lists, StepOf("rule", create), StepOf("rule", delete))
               /\ create \in DOMAIN b.drafts.rule /\ delete \in DOMAIN b.drafts.rule
    <2>1. /\ create \in DOMAIN b.drafts.rule /\ b.drafts.rule[create].op = "create"
          /\ delete \in DOMAIN b.drafts.rule /\ b.drafts.rule[delete].op = "delete"
          /\ ruleCreateMatchesDelete(e, b.drafts.rule[create].body, delete)
      BY <1>4, <1>8 DEF Pair
    <2>2. liveBaseFor(e, "rule", delete) = IF delete \in DOMAIN c.lists["rule"] THEN c.lists["rule"][delete] ELSE <<>>
      BY <1>4 DEF liveBaseFor
    <2>3. DOMAIN b.drafts.rule[create].body # {} /\ Undoes(liveBaseFor(e, "rule", delete), b.drafts.rule[create].body)
      BY <2>1 DEF ruleCreateMatchesDelete, Undoes
    <2>4. delete \in DOMAIN c.lists["rule"]
      <3>1. liveBaseFor(e, "rule", delete) # <<>>
        BY <2>3 DEF Undoes
      <3> QED
        BY <2>2, <3>1
    <2> QED
      BY <1>7, <2>1, <2>2, <2>3, <2>4 DEF PairIn, StepOf
  <1>9. ASSUME NEW k \in DraftKinds, NEW id \in DOMAIN b.drafts[k] \ DOMAIN some[k]
        PROVE  \/ /\ b.drafts[k][id].op = "update" /\ id \in DOMAIN c.lists[k]
                  /\ Same(c.lists[k][id], b.drafts[k][id].body)
               \/ k = "rule" /\ \E other : Pair(e, id, other) \/ Pair(e, other, id)
    <2>1. Droppable(e, k, id)
      BY <1>4, <1>5
    <2> QED
      BY <1>4, <2>1 DEF Droppable, netZeroUpdate, liveBaseFor, Same
  <1> HIDE DEF Pair, PairIn, StepOf
  <1> QED
    BY <1>1, <1>4, <1>5, <1>6, <1>8, <1>9

-----------------------------------------------------------------------------
(* Each action keeps the drafts behind the run. *)

(* What a list of the server's own records shows. *)
FromLive(data) ==
    /\ DOMAIN data \subseteq DraftKinds
    /\ \A k \in DOMAIN data : data[k] = live[k]

LEMMA FromLiveTrue ==
    ASSUME IdsInv, Steps, TempMap(run.map), PairsTrue(live), NEW data, FromLive(data)
    PROVE  IdleTrue(data) /\ PairsTrue(data)
  <1>1. DOMAIN live = DraftKinds
    BY DEF IdsInv, ServerIds
  <1>2. ASSUME NEW s \in run.todo, IdleIn(data, s)
        PROVE  OnServer(s)
    <2>1. IdleIn(live, s)
      BY <1>1, <1>2 DEF FromLive, IdleIn
    <2> QED
      BY <2>1, IdleLive, OnServerIs DEF IdsInv, Steps
  <1>3. \A c, d \in run.todo : PairIn(data, c, d) => PairIn(live, c, d)
    BY <1>1 DEF FromLive, PairIn
  <1> QED
    BY <1>2, <1>3 DEF IdleTrue, PairsTrue

(* The run is over, or no longer undisturbed. *)
LEMMA Disturbed ==
    ASSUME run'.calm = FALSE \/ run'.phase \notin {"applying", "failed"}
    PROVE  RunInv'
  BY DEF RunInv, Undisturbed

(* Steps that leave run, browser and server alone; mail may come and go.   *)
LEMMA QuietRun ==
    ASSUME IdsInv, RunInv, UNCHANGED <<b, run, live, nextId>>,
           \A m \in inbox' : m \in inbox \/ FromLive(m.data)
    PROVE  RunInv'
  <1> SUFFICES ASSUME Undisturbed PROVE RunInv'
    BY DEF RunInv, Undisturbed
  <1>1. /\ b.last = b.env /\ run.env = b.env
        /\ Steps /\ MapInv /\ SentInv /\ NotEarly /\ Held
        /\ \A data \in ListData : IdleTrue(data) /\ PairsTrue(data)
        /\ PairsTrue(live)
    BY DEF RunInv
  <1>2. Steps' /\ MapInv' /\ SentInv' /\ NotEarly' /\ Held'
    BY <1>1 DEF Steps, StepOf, MapInv, SentInv, Sent, NotEarly, Held, InMemory, IsMoot, OnServer
  <1>3. \A data : (IdleTrue(data)' <=> IdleTrue(data)) /\ (PairsTrue(data)' <=> PairsTrue(data))
    BY DEF IdleTrue, PairsTrue, OnServer, IsMoot
  <1>4. \A data \in ListData' : IdleTrue(data) /\ PairsTrue(data)
    BY <1>1, FromLiveTrue DEF ListData, MapInv
  <1> QED
    BY <1>1, <1>2, <1>3, <1>4 DEF RunInv

(* The answer that a step gets is not nothing. *)
LEMMA AnAnswer ==
    ASSUME NEW s, NEW o, NEW n
    PROVE  [step |-> s, outcome |-> o, id |-> n] # Nothing
  <1>1. DOMAIN [step |-> s, outcome |-> o, id |-> n] = {"step", "outcome", "id"}
    OBVIOUS
  <1>2. DOMAIN Nothing = {}
    BY DEF Nothing
  <1> QED
    BY <1>1, <1>2

LEMMA RunKeepsRun ==
    ASSUME PageInv, IdsInv, RunInv, runApplyStep
    PROVE  RunInv'
  <1>1. PICK t \in NextSteps(run.todo) :
           /\ \E o : run' = [run EXCEPT !.sent = [step |-> t, outcome |-> o, id |-> nextId]]
           /\ \/ UNCHANGED <<live, nextId>>
              \/ /\ Accepts(t, Remapped(t, run.map))
                 /\ live' = Written(t, Remapped(t, run.map)) /\ nextId' = nextId + 1
    BY DEF runApplyStep
  <1>2. UNCHANGED <<b, page, inbox>> /\ run.phase = "applying" /\ run.sent = Nothing
    BY DEF runApplyStep
  <1>3. /\ run'.calm = run.calm /\ run'.phase = run.phase /\ run'.todo = run.todo /\ run'.map = run.map
        /\ run'.env = run.env /\ run'.moot = run.moot
        /\ run'.sent # Nothing /\ run'.sent.step = t /\ run'.sent.id = nextId
    BY <1>1, AnAnswer DEF PageInv, RunShape
  <1> SUFFICES ASSUME run.calm PROVE RunInv'
    BY <1>3 DEF RunInv, Undisturbed
  <1>4. /\ b.last = b.env /\ run.env = b.env
        /\ Steps /\ MapInv /\ SentInv /\ NotEarly /\ Held
        /\ \A data \in ListData : IdleTrue(data) /\ PairsTrue(data)
        /\ PairsTrue(live)
    BY <1>2 DEF RunInv, Undisturbed
  <1>5. t \in run.todo /\ t.kind \in DraftKinds
    BY <1>4 DEF NextSteps, Steps
  <1>6. nextId \in Nat /\ ServerIds(live, nextId) /\ TempMap(run.map)
    BY <1>4 DEF IdsInv, MapInv
  <1>7. nextId' \in Nat /\ nextId <= nextId' /\ Related(live', nextId)
    <2>1. CASE UNCHANGED <<live, nextId>>
      BY <1>6, <2>1 DEF ServerIds
    <2>2. CASE ~UNCHANGED <<live, nextId>>
      <3>1. /\ StepIds(t, nextId)
            /\ DOMAIN Remapped(t, run.map) = DOMAIN t.body /\ Record(Remapped(t, run.map))
        BY <1>5, RemappedIs DEF IdsInv, TodoIds
      <3> QED
        BY <1>1, <1>5, <1>6, <2>2, <3>1, WrittenIds DEF StepIds, HasRelation
    <2> QED
      BY <2>1, <2>2
  <1>8. ASSUME NEW s \in run.todo
        PROVE  /\ InRecords(live, run.map, s) => InRecords(live', run.map, s) \/ IsMoot(s)
               /\ InRecords(live', run.map, s) => s = t \/ IsMoot(s) \/ Ungroups(s)
    <2>1. InRecords(live, run.map, s) => IsMoot(s) \/ Ungroups(s)
      BY <1>2, <1>4, OnServerIs DEF NotEarly, Sent
    <2>2. CASE UNCHANGED <<live, nextId>>
      BY <2>1, <2>2
    <2>3. CASE ~UNCHANGED <<live, nextId>>
      <3>1. /\ Accepts(t, Remapped(t, run.map))
            /\ live' = Written(t, Remapped(t, run.map))
        BY <1>1, <2>3
      <3>2. /\ s.kind \in DraftKinds /\ KnownId(s.kind, s.id, nextId)
            /\ s.kind = t.kind /\ s.id = t.id => s = t
        BY <1>4, <1>5 DEF Steps
      <3>3. /\ s # t /\ Ungroups(s) /\ InRecords(live, run.map, s) => InRecords(live', run.map, s)
            /\ s # t /\ InRecords(live', run.map, s) => InRecords(live, run.map, s) \/ Ungroups(s)
            /\ s = t /\ s.op = "update" => InRecords(live', run.map, s)
        BY <1>5, <1>6, <3>1, <3>2, ExecutedKeeps
      <3>4. InRecords(live, run.map, s) => s.op = "update"
        BY DEF InRecords
      <3> QED
        BY <2>1, <3>3, <3>4
    <2> QED
      BY <2>2, <2>3
  <1>9. ASSUME NEW s \in run.todo
        PROVE  /\ OnServer(s) \/ IsMoot(s) => OnServer(s)' \/ IsMoot(s)'
               /\ OnServer(s)' => Sent(s)' \/ IsMoot(s)' \/ Ungroups(s)
    <2>1. OnServer(s)' <=> InRecords(live', run.map, s)
      BY <1>3, OnServerIs
    <2>2. OnServer(s) <=> InRecords(live, run.map, s)
      BY OnServerIs
    <2>3. (IsMoot(s)' <=> IsMoot(s)) /\ (s = t => Sent(s)')
      BY <1>3 DEF IsMoot, Sent
    <2> QED
      BY <1>8, <2>1, <2>2, <2>3
  <1>10. Steps'
    <2>1. \A k \in DraftKinds : Issued(k, nextId) \subseteq Issued(k, nextId')
      BY <1>6, <1>7, IssuedGrows
    <2> QED
      BY <1>2, <1>3, <1>4, <2>1 DEF Steps, StepOf, KnownId
  <1>11. MapInv' /\ SentInv'
    BY <1>3, <1>4, <1>5, <1>6, <1>7 DEF MapInv, SentInv
  <1>12. NotEarly' /\ Held'
    BY <1>2, <1>3, <1>4, <1>9 DEF NotEarly, Held, InMemory
  <1>13. \A data \in ListData' : IdleTrue(data)' /\ PairsTrue(data)'
    <2>1. ListData' = ListData
      BY <1>2 DEF ListData
    <2>2. \A data : IdleTrue(data) => IdleTrue(data)'
      BY <1>3, <1>9 DEF IdleTrue
    <2>3. \A data : PairsTrue(data) => PairsTrue(data)'
      BY <1>3 DEF PairsTrue, IsMoot
    <2> QED
      BY <1>4, <2>1, <2>2, <2>3
  <1>14. PairsTrue(live)'
    <2>1. ASSUME NEW c \in run.todo, NEW d \in run.todo, PairIn(live', c, d)
          PROVE  IsMoot(c) /\ IsMoot(d)
      <3>1. PairIn(live, c, d)
        <4>1. CASE UNCHANGED <<live, nextId>>
          BY <2>1, <4>1
        <4>2. CASE ~UNCHANGED <<live, nextId>>
          <5>1. /\ d.kind \in DraftKinds /\ KnownId(d.kind, d.id, nextId)
                /\ d.kind = t.kind /\ d.id = t.id => d = t
            BY <1>4, <1>5 DEF Steps
          <5> QED
            BY <1>1, <1>5, <1>6, <2>1, <4>2, <5>1, PairsStay
        <4> QED
          BY <4>1, <4>2
      <3> QED
        BY <1>4, <3>1 DEF PairsTrue
    <2> QED
      BY <1>3, <2>1 DEF PairsTrue, IsMoot
  <1> QED
    BY <1>2, <1>3, <1>4, <1>10, <1>11, <1>12, <1>13, <1>14 DEF RunInv

LEMMA ConsumeKeepsRun ==
    ASSUME PageInv, IdsInv, RunInv, consumeDraft
    PROVE  RunInv'
  <1> DEFINE t == run.sent.step
             id == Live(t.kind, run.sent.id)
  <1>1. /\ run.phase = "applying" /\ run.sent # Nothing
        /\ b' = draftDiscard(b, t.kind, t.id)
        /\ UNCHANGED <<page, inbox, live, nextId>>
    BY DEF consumeDraft
  <1>2. /\ run'.calm = run.calm /\ run'.phase = run.phase /\ run'.env = run.env /\ run'.moot = run.moot
        /\ run'.todo = run.todo \ {u \in run.todo : u.kind = t.kind /\ u.id = t.id}
        /\ run'.sent = Nothing
        /\ run'.map = IF t.op = "create" /\ t.kind \in {"group", "flag"} THEN Put(run.map, t.id, id) ELSE run.map
    BY DEF consumeDraft, PageInv, RunShape
  <1> SUFFICES ASSUME run.calm PROVE RunInv'
    BY <1>2 DEF RunInv, Undisturbed
  <1>3. /\ b.last = b.env /\ run.env = b.env
        /\ Steps /\ MapInv /\ SentInv /\ NotEarly /\ Held
        /\ \A data \in ListData : IdleTrue(data) /\ PairsTrue(data)
        /\ PairsTrue(live)
    BY <1>1 DEF RunInv, Undisturbed
  <1>4. t \in run.todo /\ run.sent.id \in Nat /\ Related(live, run.sent.id) /\ t.kind \in DraftKinds
    BY <1>1, <1>3 DEF SentInv, Steps
  <1>5. /\ InScope(b') /\ b'.env = b.env /\ b'.lists = b.lists
        /\ Fewer(b'.drafts, b.drafts)
        /\ \A k \in DraftKinds : DOMAIN b'.drafts[k] = DOMAIN b.drafts[k] \ (IF k = t.kind THEN {t.id} ELSE {})
    <2>1. InScope(b)
      BY <1>3 DEF PageInv, InScope
    <2> HIDE DEF t
    <2> QED
      BY <1>1, <1>4, <2>1, DiscardIds
  <1> HIDE DEF t, id
  <1>6. TempMap(run'.map) /\ \A s \in run'.todo : InRecords(live, run'.map, s) <=> InRecords(live, run.map, s)
    <2>1. CASE run'.map = run.map
      BY <1>3, <2>1 DEF MapInv
    <2>2. CASE t.op = "create" /\ run'.map = Put(run.map, t.id, id)
      <3>1. isDraftTempId(t.id) /\ t.id \notin DOMAIN run.map
        BY <1>3, <1>4, <2>2 DEF Steps, MapInv, TempOf
      <3>2. \A s \in run'.todo : s.kind \in DraftKinds
        BY <1>2, <1>3 DEF Steps
      <3> QED
        BY <1>3, <1>4, <2>2, <3>1, <3>2, NamedKeeps DEF MapInv, id
    <2> QED
      BY <1>2, <2>1, <2>2
  <1>7. \A s \in run'.todo : s \in run.todo /\ (OnServer(s)' <=> OnServer(s)) /\ (IsMoot(s)' <=> IsMoot(s))
    BY <1>1, <1>2, <1>6, OnServerIs DEF IsMoot
  <1>8. Steps'
    <2>1. \A k \in DraftKinds : \A x \in DOMAIN b'.drafts[k] : StepOf(k, x)' \in run'.todo
      <3> SUFFICES ASSUME NEW k \in DraftKinds, NEW x \in DOMAIN b'.drafts[k]
                   PROVE  StepOf(k, x)' \in run'.todo
        OBVIOUS
      <3>1. x \in DOMAIN b.drafts[k] /\ b'.drafts[k][x] = b.drafts[k][x]
        BY <1>5 DEF Fewer
      <3>2. StepOf(k, x)' = StepOf(k, x) /\ StepOf(k, x) \in run.todo
        BY <1>3, <3>1 DEF StepOf, Steps
      <3>3. ~(k = t.kind /\ x = t.id)
        BY <1>5
      <3> QED
        BY <1>2, <3>2, <3>3 DEF StepOf
    <2> QED
      BY <1>1, <1>2, <1>3, <2>1 DEF Steps
  <1>9. MapInv' /\ SentInv'
    <2>1. \A s \in run'.todo : s.op = "create" => s.id \notin DOMAIN run'.map
      <3> SUFFICES ASSUME NEW s \in run'.todo, s.op = "create" PROVE s.id \notin DOMAIN run'.map
        OBVIOUS
      <3>1. s \in run.todo /\ s.id \notin DOMAIN run.map /\ TempOf(s.kind, s.id)
        BY <1>2, <1>3 DEF MapInv, Steps
      <3>2. t.op = "create" => s.id # t.id
        BY <1>2, <1>3, <1>4, <3>1 DEF Steps, TempOf
      <3> QED
        BY <1>2, <3>1, <3>2 DEF Put
    <2> QED
      BY <1>2, <1>6, <2>1 DEF MapInv, SentInv
  <1>10. NotEarly'
    <2>1. \A s \in run'.todo : ~Sent(s)
      BY <1>2 DEF Sent, t
    <2> QED
      BY <1>1, <1>3, <1>7, <2>1 DEF NotEarly
  <1>11. Held'
    <2>1. ASSUME NEW s \in run'.todo, InMemory(s)
          PROVE  InMemory(s)'
      BY <1>2, <1>3, <1>5, <2>1 DEF InMemory, Steps
    <2> QED
      BY <1>3, <1>7, <2>1 DEF Held
  <1>12. \A data \in ListData' : IdleTrue(data)' /\ PairsTrue(data)'
    <2>1. ListData' = ListData
      BY <1>1, <1>5 DEF ListData
    <2>2. \A data : IdleTrue(data) => IdleTrue(data)'
      BY <1>7 DEF IdleTrue
    <2>3. \A data : PairsTrue(data) => PairsTrue(data)'
      BY <1>7 DEF PairsTrue
    <2> QED
      BY <1>3, <2>1, <2>2, <2>3
  <1>13. PairsTrue(live)'
    BY <1>1, <1>3, <1>7 DEF PairsTrue
  <1> QED
    BY <1>2, <1>3, <1>5, <1>8, <1>9, <1>10, <1>11, <1>12, <1>13 DEF RunInv, InScope

LEMMA FailedKeepsRun ==
    ASSUME PageInv, IdsInv, RunInv, applyFailed
    PROVE  RunInv'
  <1> DEFINE c == persistDrafts(b)
  <1>1. /\ b' = ensureScope(c)
        /\ run' = [run EXCEPT !.phase = "failed", !.sent = Nothing]
        /\ UNCHANGED <<inbox, live, nextId>> /\ run.phase = "applying"
    BY DEF applyFailed
  <1>2. /\ run'.calm = run.calm /\ run'.phase = "failed" /\ run'.env = run.env /\ run'.moot = run.moot
        /\ run'.todo = run.todo /\ run'.map = run.map
    BY <1>1 DEF PageInv, RunShape
  <1>3. InScope(c) /\ c.env = b.env /\ c.drafts = b.drafts /\ c.lists = b.lists
    BY PersistInScope DEF PageInv, Agrees, Browser, persistDrafts
  <1>4. b' = c
    BY <1>1, <1>3, EnsureAgain DEF InScope
  <1> HIDE DEF c
  <1> SUFFICES ASSUME run.calm PROVE RunInv'
    BY <1>2 DEF RunInv, Undisturbed
  <1>5. /\ run.env = b.env
        /\ Steps /\ MapInv /\ Held
        /\ \A data \in ListData : IdleTrue(data) /\ PairsTrue(data)
        /\ PairsTrue(live)
    BY <1>1 DEF RunInv, Undisturbed
  <1>6. \A s : (OnServer(s)' <=> OnServer(s)) /\ (IsMoot(s)' <=> IsMoot(s)) /\ (InMemory(s)' <=> InMemory(s))
    BY <1>1, <1>2, <1>3, <1>4, OnServerIs DEF IsMoot, InMemory
  <1>7. Steps' /\ MapInv' /\ SentInv' /\ NotEarly' /\ Held'
    BY <1>1, <1>2, <1>3, <1>4, <1>5, <1>6 DEF Steps, StepOf, MapInv, SentInv, NotEarly, Held
  <1>8. \A data : (IdleTrue(data)' <=> IdleTrue(data)) /\ (PairsTrue(data)' <=> PairsTrue(data))
    BY <1>2, <1>6 DEF IdleTrue, PairsTrue
  <1>9. ListData' = ListData
    BY <1>1, <1>3, <1>4 DEF ListData
  <1>10. PairsTrue(live)'
    BY <1>1, <1>2, <1>5, <1>6 DEF PairsTrue
  <1> QED
    BY <1>2, <1>3, <1>4, <1>5, <1>7, <1>8, <1>9, <1>10 DEF RunInv, InScope

LEMMA AskFromLive ==
    ASSUME NEW what \in {"flags", "rules", "experiments", "releases"}, NEW gen, NEW then
    PROVE  FromLive(Ask(what, gen, then).data)
  <1> DEFINE m == Ask(what, gen, then)
  <1>1. DOMAIN m.data \subseteq DraftKinds /\ \A k \in DOMAIN m.data : m.data[k] = live[k]
    BY Asked
  <1> HIDE DEF m
  <1> QED
    BY <1>1 DEF FromLive, m

(* A list replaces what memory shows, and drops the drafts that it makes   *)
(* idle: the server has their change, or they were moot at the click.      *)
LEMMA ListsKeepRun ==
    ASSUME PageInv, IdsInv, RunInv, loadFlags \/ loadRules \/ loadExperiments
    PROVE  RunInv'
  <1>1. PICK c, data :
              /\ data = live \/ \E m \in inbox : data = m.data
              /\ ListsOf(c, data)
              /\ Shown(restoreDrafts(c))
              /\ run' = [run EXCEPT !.shared = FALSE]
              /\ \A x \in inbox' : x \in inbox \/ x = Ask("rules", page.gen, "")
                                               \/ x = Ask("experiments", page.gen, "")
              /\ UNCHANGED <<live, nextId>>
    BY EachLoads
  <1>2. /\ run'.calm = run.calm /\ run'.phase = run.phase /\ run'.todo = run.todo /\ run'.map = run.map
        /\ run'.env = run.env /\ run'.moot = run.moot /\ run'.sent = run.sent
    BY <1>1 DEF PageInv, RunShape
  <1> SUFFICES ASSUME Undisturbed PROVE RunInv'
    BY <1>2 DEF RunInv, Undisturbed
  <1>3. /\ b.last = b.env /\ run.env = b.env
        /\ Steps /\ MapInv /\ SentInv /\ NotEarly /\ Held
        /\ \A x \in ListData : IdleTrue(x) /\ PairsTrue(x)
        /\ PairsTrue(live)
    BY DEF RunInv
  <1> DEFINE d == restoreDrafts(c)
  <1>4. /\ d.env = b.env /\ d.last = b.env /\ d.lists = c.lists
        /\ Fewer(d.drafts, b.drafts)
        /\ \A k \in DraftKinds : \A id \in DOMAIN b.drafts[k] \ DOMAIN d.drafts[k] :
              \/ /\ b.drafts[k][id].op = "update" /\ id \in DOMAIN c.lists[k]
                 /\ Same(c.lists[k][id], b.drafts[k][id].body)
              \/ k = "rule" /\ \E other : \/ PairIn(c.lists, StepOf("rule", id), StepOf("rule", other))
                                             /\ other \in DOMAIN b.drafts.rule
                                          \/ PairIn(c.lists, StepOf("rule", other), StepOf("rule", id))
                                             /\ other \in DOMAIN b.drafts.rule
    BY <1>1, <1>3, RestoreDrops DEF PageInv
  <1>5. b' = d
    BY <1>1 DEF Shown
  <1> HIDE DEF d
  <1>6. FromLive(live)
    BY DEF FromLive, IdsInv, ServerIds
  <1>7. /\ IdleTrue(data) /\ PairsTrue(data)
        /\ IdleTrue(b.lists) /\ PairsTrue(b.lists)
    BY <1>1, <1>3, <1>6, FromLiveTrue DEF ListData, MapInv
  <1>8. IdleTrue(c.lists) /\ PairsTrue(c.lists)
    <2>1. ASSUME NEW s \in run.todo, IdleIn(c.lists, s)
          PROVE  IdleIn(data, s) \/ IdleIn(b.lists, s)
      <3>1. DOMAIN b.lists = DraftKinds /\ s.kind \in DraftKinds
        BY <1>3 DEF IdsInv, BrowserIds, Steps
      <3> QED
        BY <1>1, <2>1, <3>1 DEF ListsOf, IdleIn
    <2>2. ASSUME NEW x \in run.todo, NEW y \in run.todo, PairIn(c.lists, x, y)
          PROVE  PairIn(data, x, y) \/ PairIn(b.lists, x, y)
      <3>1. DOMAIN b.lists = DraftKinds /\ "rule" \in DraftKinds
        BY DEF IdsInv, BrowserIds, DraftKinds
      <3>2. c.lists["rule"] = b.lists["rule"]
            \/ /\ "rule" \in DOMAIN data
               /\ DOMAIN c.lists["rule"] \subseteq DOMAIN data["rule"]
               /\ \A id \in DOMAIN c.lists["rule"] : c.lists["rule"][id] = data["rule"][id]
        BY <1>1, <3>1 DEF ListsOf
      <3> QED
        BY <2>2, <3>1, <3>2 DEF PairIn
    <2> QED
      BY <1>7, <2>1, <2>2 DEF IdleTrue, PairsTrue
  <1>9. ASSUME NEW s \in run.todo, InMemory(s), s.id \notin DOMAIN d.drafts[s.kind]
        PROVE  OnServer(s) \/ IsMoot(s)
    <2>1. s.kind \in DraftKinds /\ s.id \in DOMAIN b.drafts[s.kind]
      BY <1>3, <1>9 DEF Steps, InMemory
    <2>2. \A k \in DraftKinds : \A id \in DOMAIN b.drafts[k] : StepOf(k, id) \in run.todo
      BY <1>3 DEF Steps
    <2>3. StepOf(s.kind, s.id) = s
      <3>1. StepOf(s.kind, s.id) \in run.todo
        BY <2>1, <2>2
      <3> QED
        BY <1>3, <3>1 DEF Steps, StepOf
    <2>4. s.op = b.drafts[s.kind][s.id].op /\ s.body = b.drafts[s.kind][s.id].body
      BY <2>3 DEF StepOf
    <2>5. CASE /\ b.drafts[s.kind][s.id].op = "update" /\ s.id \in DOMAIN c.lists[s.kind]
               /\ Same(c.lists[s.kind][s.id], b.drafts[s.kind][s.id].body)
      <3>1. IdleIn(c.lists, s)
        BY <1>1, <2>1, <2>4, <2>5 DEF IdleIn, ListsOf
      <3> QED
        BY <1>8, <3>1 DEF IdleTrue
    <2>6. ASSUME s.kind = "rule", NEW other \in DOMAIN b.drafts.rule,
                 \/ PairIn(c.lists, StepOf("rule", s.id), StepOf("rule", other))
                 \/ PairIn(c.lists, StepOf("rule", other), StepOf("rule", s.id))
          PROVE  IsMoot(s)
      <3>1. StepOf("rule", other) \in run.todo
        BY <2>2 DEF DraftKinds
      <3> QED
        BY <1>8, <2>3, <2>6, <3>1 DEF PairsTrue
    <2> QED
      BY <1>4, <1>9, <2>1, <2>5, <2>6
  <1>10. \A s : (OnServer(s)' <=> OnServer(s)) /\ (IsMoot(s)' <=> IsMoot(s)) /\ (Sent(s)' <=> Sent(s))
    BY <1>1, <1>2, OnServerIs DEF IsMoot, Sent
  <1>11. Steps'
    <2>1. ASSUME NEW k \in DraftKinds, NEW id \in DOMAIN d.drafts[k]
          PROVE  StepOf(k, id)' \in run.todo
      <3>1. id \in DOMAIN b.drafts[k] /\ d.drafts[k][id] = b.drafts[k][id]
        BY <1>4 DEF Fewer
      <3>2. StepOf(k, id)' = StepOf(k, id)
        BY <1>5, <3>1 DEF StepOf
      <3> QED
        BY <1>3, <3>1, <3>2 DEF Steps
    <2> QED
      BY <1>1, <1>2, <1>3, <1>5, <2>1 DEF Steps
  <1>12. MapInv' /\ SentInv' /\ NotEarly'
    BY <1>1, <1>2, <1>3, <1>10 DEF MapInv, SentInv, NotEarly
  <1>13. Held'
    <2>1. \A s \in run.todo : InMemory(s)' <=> s.id \in DOMAIN d.drafts[s.kind]
      BY <1>5 DEF InMemory
    <2> QED
      BY <1>2, <1>3, <1>9, <1>10, <2>1 DEF Held
  <1>14. \A x : (IdleTrue(x)' <=> IdleTrue(x)) /\ (PairsTrue(x)' <=> PairsTrue(x))
    BY <1>2, <1>10 DEF IdleTrue, PairsTrue
  <1>15. \A x \in ListData' : IdleTrue(x) /\ PairsTrue(x)
    <2>1. ASSUME NEW m \in inbox'
          PROVE  m.data \in ListData \/ FromLive(m.data)
      <3>1. CASE m \in inbox
        BY <3>1 DEF ListData
      <3>2. CASE m \notin inbox
        <4>1. m = Ask("rules", page.gen, "") \/ m = Ask("experiments", page.gen, "")
          BY <1>1, <3>2
        <4> QED
          BY <4>1, AskFromLive
      <3> QED
        BY <3>1, <3>2
    <2>2. \A m \in inbox' : IdleTrue(m.data) /\ PairsTrue(m.data)
      BY <1>3, <2>1, FromLiveTrue DEF MapInv
    <2>3. b'.lists = c.lists
      BY <1>4, <1>5
    <2> QED
      BY <1>8, <2>2, <2>3 DEF ListData
  <1>16. PairsTrue(live)'
    BY <1>1, <1>3, <1>14
  <1> QED
    BY <1>2, <1>3, <1>4, <1>5, <1>11, <1>12, <1>13, <1>14, <1>15, <1>16 DEF RunInv

(* At the click of a run that is calm the lists are the server's, and what *)
(* is idle or a pair over them is moot.                                    *)
LEMMA SubmitKeepsRun ==
    ASSUME PageInv, IdsInv, RunInv, publishSubmit
    PROVE  RunInv'
  <1>1. /\ run'.calm = (UpToDate /\ b.last = b.env) /\ run'.phase = "applying" /\ run'.env = b.env
        /\ run'.todo = AllSteps /\ run'.map = <<>> /\ run'.sent = Nothing /\ run'.moot = Moot
        /\ UNCHANGED <<b, inbox, live, nextId>>
    BY DEF publishSubmit, IdleRun, buildApplySteps
  <1> SUFFICES ASSUME UpToDate, b.last = b.env PROVE RunInv'
    BY <1>1 DEF RunInv, Undisturbed
  <1>2. b.lists = live /\ DOMAIN live = DraftKinds /\ ServerIds(live, nextId) /\ BrowserIds(b, nextId)
    BY DEF UpToDate, IdsInv, ServerIds
  <1>3. \A s : s \in AllSteps <=> \E k \in DraftKinds : \E id \in DOMAIN b.drafts[k] : s = StepOf(k, id)
    BY AllStepsAre
  <1>4. TempMap(<<>>) /\ DOMAIN <<>> = {}
    BY DEF TempMap
  <1>5. Steps'
    <2>1. \A k \in DraftKinds : \A id \in DOMAIN b.drafts[k] : StepOf(k, id)' = StepOf(k, id)
      BY <1>1 DEF StepOf
    <2>2. \A s, t \in AllSteps : s.kind = t.kind /\ s.id = t.id => s = t
      BY <1>3 DEF StepOf
    <2>3. ASSUME NEW s \in AllSteps
          PROVE  /\ s.kind \in DraftKinds /\ KnownId(s.kind, s.id, nextId)
                 /\ s.op = "create" => TempOf(s.kind, s.id)
      BY <1>2, <1>3 DEF StepOf, KnownId, BrowserIds, DraftIds
    <2> QED
      BY <1>1, <1>3, <2>1, <2>2, <2>3 DEF Steps
  <1>6. MapInv' /\ SentInv'
    BY <1>1, <1>4 DEF MapInv, SentInv
  <1>7. ASSUME NEW s \in AllSteps, s.op = "update", s.id \in DOMAIN live[s.kind],
               Same(live[s.kind][s.id], s.body)
        PROVE  IsMoot(s)'
    <2>0. PICK k \in DraftKinds : \E id \in DOMAIN b.drafts[k] : s = StepOf(k, id)
      BY <1>3
    <2>1. PICK id \in DOMAIN b.drafts[k] : s = StepOf(k, id)
      BY <2>0
    <2>2. /\ s.kind = k /\ s.id = id
          /\ id \in DOMAIN b.lists[k] /\ b.drafts[k][id].op = "update"
          /\ Same(b.lists[k][id], b.drafts[k][id].body)
      BY <1>2, <1>7, <2>1 DEF StepOf
    <2>3. <<k, id>> \in Moot
      <3> DEFINE idle(j) == {i \in DOMAIN b.drafts[j] \intersect DOMAIN b.lists[j] :
                                /\ b.drafts[j][i].op = "update"
                                /\ Same(b.lists[j][i], b.drafts[j][i].body)}
      <3>1. id \in idle(k)
        BY <2>2
      <3>2. UNION {{j} \X idle(j) : j \in DraftKinds} \subseteq Moot
        BY Zenon DEF Moot
      <3> HIDE DEF idle
      <3> QED
        BY <3>1, <3>2
    <2> QED
      BY <1>1, <2>2, <2>3 DEF IsMoot
  <1>8. ASSUME NEW c \in AllSteps, NEW d \in AllSteps, PairIn(live, c, d)
        PROVE  IsMoot(c)' /\ IsMoot(d)'
    <2> DEFINE drafts == b.drafts.rule
               creates == {id \in DOMAIN drafts : drafts[id].op = "create"}
               undone(x) == Undone(b, drafts, drafts[x].body)
    <2>1. /\ c.kind = "rule" /\ c.id \in DOMAIN drafts /\ drafts[c.id].op = "create"
          /\ d.kind = "rule" /\ d.id \in DOMAIN drafts /\ drafts[d.id].op = "delete"
          /\ c.body = drafts[c.id].body
          /\ d.id \in DOMAIN live.rule /\ DOMAIN c.body # {} /\ Undoes(live.rule[d.id], c.body)
      BY <1>3, <1>8 DEF PairIn, StepOf
    <2>2. d.id \in undone(c.id)
      BY <1>2, <2>1 DEF Undone, ruleCreateMatchesDelete, liveBaseFor, Undoes
    <2>3. c.id \in {x \in creates : undone(x) # {}}
      BY <2>1, <2>2
    <2> DEFINE S == UNION {{"rule"} \X ({x} \union undone(x)) : x \in {y \in creates : undone(y) # {}}}
    <2>4. S \subseteq Moot
      BY Zenon DEF Moot
    <2>5. <<"rule", c.id>> \in S /\ <<"rule", d.id>> \in S
      <3> HIDE DEF creates, undone
      <3> QED
        BY <2>2, <2>3
    <2> HIDE DEF S
    <2> QED
      BY <1>1, <2>1, <2>4, <2>5 DEF IsMoot
  <1>9. NotEarly'
    <2>1. ASSUME NEW s \in AllSteps, OnServer(s)'
          PROVE  IsMoot(s)'
      <3>1. InRecords(live, <<>>, s)
        BY <1>1, <2>1, OnServerIs
      <3>2. s.kind \in DraftKinds
        BY <1>1, <1>5, <2>1 DEF Steps
      <3>3. /\ s.op = "update" /\ s.id \in DOMAIN live[s.kind]
            /\ Same(live[s.kind][s.id], Remapped(s, <<>>))
            /\ Relates(live[s.kind][s.id], Issued("group", nextId), Issued("flag", nextId))
        BY <1>2, <3>1, <3>2 DEF InRecords, ServerIds, Related, Issues
      <3>4. Same(live[s.kind][s.id], s.body)
        BY <1>4, <3>3, SameRemapped
      <3> QED
        BY <1>7, <2>1, <3>3, <3>4
    <2> QED
      BY <1>1, <2>1 DEF NotEarly
  <1>10. Held'
    <2>1. \A s \in AllSteps : InMemory(s)'
      BY <1>1, <1>3 DEF InMemory, StepOf
    <2> QED
      BY <1>1, <2>1 DEF Held
  <1>11. ASSUME NEW data, FromLive(data)
         PROVE  IdleTrue(data)' /\ PairsTrue(data)'
    <2>1. \A s \in AllSteps : IdleIn(data, s) => IsMoot(s)'
      BY <1>2, <1>7, <1>11 DEF FromLive, IdleIn
    <2>2. \A c, d \in AllSteps : PairIn(data, c, d) => PairIn(live, c, d)
      BY <1>2, <1>11 DEF FromLive, PairIn
    <2> QED
      BY <1>1, <1>8, <2>1, <2>2 DEF IdleTrue, PairsTrue
  <1>12. \A data \in ListData' : IdleTrue(data)' /\ PairsTrue(data)'
    <2>1. \A data \in ListData' : FromLive(data)
      <3>1. FromLive(b.lists)
        BY <1>2 DEF FromLive
      <3>2. \A m \in inbox : FromLive(m.data)
        BY DEF FromLive, UpToDate, IdsInv, MailIds, Answers
      <3> QED
        BY <1>1, <3>1, <3>2 DEF ListData
    <2> QED
      BY <1>11, <2>1
  <1>13. PairsTrue(live)'
    <2>1. FromLive(live)
      BY <1>2 DEF FromLive
    <2> QED
      BY <1>1, <1>11, <2>1
  <1> QED
    BY <1>1, <1>5, <1>6, <1>9, <1>10, <1>12, <1>13 DEF RunInv

(* Steps that end the run, or after which it is not undisturbed.           *)
LEMMA EndsRun ==
    ASSUME PageInv, IdsInv,
           \/ StageSomething \/ discardUnpublished \/ publish \/ markPublished
           \/ envSelectChange \/ Reload
    PROVE  RunInv'
  <1>1. CASE StageSomething
    <2>1. PICK kind \in DraftKinds, op \in {"create", "update", "delete"} :
             \E i, x, m : Stage(kind, op, i, x, m)
      BY <1>1, EachStagesOne DEF StagesOne, IdsInv
    <2>2. PICK id, c : Staged(kind, op, id, c)
      BY <2>1 DEF Stage
    <2>3. run'.calm = FALSE
      BY <2>2 DEF Staged, Follow, IdleRun, PageInv, RunShape
    <2> QED
      BY <2>3, Disturbed
  <1>2. CASE discardUnpublished \/ Reload
    <2>1. run' = IdleRun
      BY <1>2, Zenon DEF discardUnpublished, Reload
    <2>2. run'.calm = FALSE
      BY <2>1 DEF IdleRun
    <2> QED
      BY <2>2, Disturbed
  <1>3. CASE envSelectChange
    <2>1. run'.calm = FALSE
      BY <1>3 DEF envSelectChange, PageInv, RunShape
    <2> QED
      BY <2>1, Disturbed
  <1>4. CASE publish \/ markPublished
    <2>1. run'.phase \notin {"applying", "failed"}
      BY <1>4 DEF publish, markPublished, PageInv, RunShape
    <2> QED
      BY <2>1, Disturbed
  <1> QED
    BY <1>1, <1>2, <1>3, <1>4

LEMMA OthersKeepRun ==
    ASSUME IdsInv, RunInv,
           \/ rollback \/ openPromoteDialog \/ submitPromote \/ closePromoteDialog
           \/ loadReleases \/ Dropped \/ OtherPublishes
    PROVE  RunInv'
  <1>1. UNCHANGED <<b, run, live, nextId>>
    BY DEF rollback, openPromoteDialog, submitPromote, closePromoteDialog, loadReleases, Dropped,
           OtherPublishes
  <1>2. \A m \in inbox' : m \in inbox \/ \E gen, then : m = Ask("releases", gen, then)
    <2>1. CASE rollback
      BY <2>1 DEF rollback
    <2>2. CASE submitPromote
      BY <2>2 DEF submitPromote
    <2>3. CASE loadReleases \/ Dropped
      BY <2>3 DEF loadReleases, Dropped
    <2>4. CASE openPromoteDialog \/ closePromoteDialog \/ OtherPublishes
      BY <2>4 DEF openPromoteDialog, closePromoteDialog, OtherPublishes
    <2> QED
      BY <2>1, <2>2, <2>3, <2>4
  <1>3. \A m \in inbox' : m \in inbox \/ FromLive(m.data)
    BY <1>2, AskFromLive
  <1> QED
    BY <1>1, <1>3, QuietRun

LEMMA InitRun == Init => RunInv
  BY DEF Init, IdleRun, RunInv, Undisturbed

LEMMA StepKeepsRun ==
    ASSUME PageInv, IdsInv, RunInv, [Next]_vars
    PROVE  RunInv'
  <1>1. CASE UNCHANGED vars
    BY <1>1, QuietRun DEF vars
  <1>2. CASE Next
    BY <1>2, EndsRun, SubmitKeepsRun, RunKeepsRun, ConsumeKeepsRun, FailedKeepsRun, ListsKeepRun,
       OthersKeepRun DEF Next
  <1> QED
    BY <1>1, <1>2

(* What is behind an undisturbed run is in the store, since memory is.     *)
LEMMA HeldIsStored == PageInv /\ RunInv => KeptUntilConfirmed
  <1> SUFFICES ASSUME PageInv, RunInv, run.calm, run.phase \in {"applying", "failed"},
                      NEW s \in run.todo, ~OnServer(s), ~IsMoot(s)
               PROVE  /\ b.store[run.env] # NothingSaved
                      /\ s.id \in DOMAIN b.store[run.env].drafts[s.kind]
    BY DEF KeptUntilConfirmed, IsMoot
  <1>1. /\ b.last = b.env /\ run.env = b.env
        /\ s.kind \in DraftKinds /\ s.id \in DOMAIN b.drafts[s.kind]
    BY DEF RunInv, Undisturbed, Held, InMemory, Steps
  <1>2. b.last # NoScope /\ b.drafts = Bucket(b.store[b.last])
    BY <1>1, ScopeAssumption DEF PageInv, Agrees, Browser
  <1>3. ASSUME b.store[run.env] = NothingSaved
        PROVE  FALSE
    BY <1>1, <1>2, <1>3 DEF Bucket, ensureDraftShape
  <1> QED
    BY <1>1, <1>2, <1>3 DEF Bucket

(* A draft leaves the browser only when the server has it: while a run     *)
(* that nobody disturbed goes on, and after it has failed, every draft     *)
(* whose change is not among the server's records is in the store,         *)
(* whatever lists arrive, and whichever requests or answers are lost.      *)
THEOREM DraftsKept == Spec => []KeptUntilConfirmed
  <1> DEFINE Inv == PageInv /\ IdsInv /\ RunInv
  <1>1. Init => Inv
    BY InitPage, InitIds, InitRun
  <1>2. Inv /\ [Next]_vars => Inv'
    BY StepKeepsPage, StepKeepsIds, StepKeepsRun
  <1>3. Inv => KeptUntilConfirmed
    BY HeldIsStored
  <1> HIDE DEF Inv
  <1> QED
    BY <1>1, <1>2, <1>3, PTL DEF Spec

-----------------------------------------------------------------------------
(* What an undisturbed run still has to do: the goal is what the records   *)
(* show with the steps that are left laid over them.                       *)
IdOf(born, x) == IF x \in DOMAIN born THEN born[x] ELSE x

Pending(todo, k, id) == {s \in todo : s.kind = k /\ s.id = id}

(* A reference to what the goal has not, and never will.  A flag of such a *)
(* group is shown in none.                                                 *)
Lost(goal, born, k, ref) == ref \notin DOMAIN goal[k] /\ \A y \in DOMAIN born : born[y] # ref

Refers(born, w, r) == w = r \/ (r \in DOMAIN born /\ w = born[r])

ShowsField(goal, born, k, f, w, r) ==
    IF f \in {"group", "flag"}
    THEN \/ Refers(born, w, r)
         \/ k = "flag" /\ f = "group" /\ r = NoRef /\ w # NoRef /\ Lost(goal, born, "group", w)
    ELSE w = r

Shows(goal, born, k, w, r) ==
    DOMAIN w = DOMAIN r /\ \A f \in DOMAIN r : ShowsField(goal, born, k, f, w[f], r[f])

GoalOk(goal) ==
    /\ DOMAIN goal = DraftKinds
    /\ \A k \in DraftKinds : \A x \in DOMAIN goal[k] :
          /\ HasRelation(k, goal[k][x])
          /\ k = "flag" => goal[k][x].group \in DOMAIN goal.group \union {NoRef}
          /\ k \in {"rule", "experiment"} => goal[k][x].flag \in DOMAIN goal.flag

(* One step for a draft, none for what the run has created; a record that  *)
(* is to be created is of the goal, or hangs on a flag that is lost.       *)
StepsOk(goal, todo, born) ==
    /\ \A s, t \in todo : s.kind = t.kind /\ s.id = t.id => s = t
    /\ \A s \in todo : \A y \in DOMAIN born : s.id # born[y]
    /\ \A s \in todo : s.op = "create" =>
          /\ s.id \notin DOMAIN born
          /\ \/ s.id \in DOMAIN goal[s.kind]
             \/ s.kind \in {"rule", "experiment"} /\ Lost(goal, born, "flag", s.body.flag)

(* What the run created is of the goal. *)
BornOk(goal, map, born, next) ==
    /\ \A y \in DOMAIN born :
          \E k \in DraftKinds : TempOf(k, y) /\ born[y] \in Issued(k, next) /\ y \in DOMAIN goal[k]
    /\ \A y \in DOMAIN map : y \in DOMAIN born /\ map[y] = born[y]

(* Each record of the goal is there, or comes with a step. *)
Comes(goal, records, todo, born, k, x) ==
    /\ \A s \in Pending(todo, k, x) :
          /\ s.op # "delete" /\ x \notin DOMAIN born
          /\ s.op = "create" => Shows(goal, born, k, s.body, goal[k][x])
          /\ s.op = "update" /\ x \in DOMAIN records[k] =>
                Shows(goal, born, k, applyBody(records[k][x], s.body), goal[k][x])
    /\ Pending(todo, k, x) = {} =>
          /\ IdOf(born, x) \in DOMAIN records[k]
          /\ Shows(goal, born, k, records[k][IdOf(born, x)], goal[k][x])

(* Each record is of the goal, or goes with a step; or a step for it will  *)
(* be refused.                                                             *)
Deletes(todo, k, id) == \E s \in todo : s.kind = k /\ s.id = id /\ s.op = "delete"
Refused(goal, born, s) == s.op = "update" /\ "flag" \in DOMAIN s.body /\ Lost(goal, born, "flag", s.body.flag)

Goes(goal, records, todo, born, k, id) ==
    \/ \E x \in DOMAIN goal[k] : id = IdOf(born, x)
    \/ Deletes(todo, k, id)
    \/ /\ k \in {"rule", "experiment"}
       /\ \/ Deletes(todo, "flag", records[k][id].flag)
          \/ \E s \in Pending(todo, k, id) : Refused(goal, born, s)

Remains(goal, records, todo, map, born, next) ==
    /\ GoalOk(goal)
    /\ StepsOk(goal, todo, born) /\ BornOk(goal, map, born, next)
    /\ \A k \in DraftKinds : \A x \in DOMAIN goal[k] : Comes(goal, records, todo, born, k, x)
    /\ \A k \in DraftKinds : \A id \in DOMAIN records[k] : Goes(goal, records, todo, born, k, id)

(* Deleting a group takes no flag along that has left it. *)
MembersTrue(records, todo, data) ==
    "flag" \in DOMAIN data =>
        \A s \in todo : s.kind = "group" /\ s.op = "delete" =>
            \A f \in DOMAIN data.flag \intersect DOMAIN records.flag :
                data.flag[f].group = s.id => records.flag[f].group \in {s.id, NoRef}

(* The run after an answer that is there and was not read yet. *)
Answered == run.sent # Nothing
Left == IF Answered THEN run.todo \ Pending(run.todo, run.sent.step.kind, run.sent.step.id) ELSE run.todo
Creates(s, map, id) == Put(map, s.id, Live(s.kind, id))
BornBy(born, s, id) == IF s.op = "create" THEN Creates(s, born, id) ELSE born
MapBy(map, s, id) == IF s.op = "create" /\ s.kind \in {"group", "flag"} THEN Creates(s, map, id) ELSE map
Born == IF Answered THEN BornBy(run.born, run.sent.step, run.sent.id) ELSE run.born
Map == IF Answered THEN MapBy(run.map, run.sent.step, run.sent.id) ELSE run.map

AppliedInv ==
    run.calm =>
        /\ run.phase = "applying" /\ (Answered => run.sent.outcome = "ok") =>
              /\ Remains(run.goal, live, Left, Map, Born, nextId)
              /\ \A data \in ListData : MembersTrue(live, Left, data)
        /\ run.phase = "publishing" => Remains(run.goal, live, {}, run.map, run.born, nextId)

LEMMA TempsDiffer ==
    ASSUME NEW j, NEW k, NEW x, TempOf(j, x), TempOf(k, x)
    PROVE  j = k
  BY DEF TempOf

LEMMA IssuedNotTemp ==
    ASSUME NEW k \in DraftKinds, NEW n, NEW x \in Issued(k, n)
    PROVE  \A j : ~TempOf(j, x)
  BY IssuedIsPlain DEF TempOf

(* The id that the server gives next is no id that is known. *)
LEMMA NextIsNew ==
    ASSUME NEW n \in Nat, NEW k \in DraftKinds
    PROVE  /\ \A j : \A x : KnownId(j, x, n) => x # Live(k, n)
           /\ Live(k, n) # NoRef /\ ~isDraftTempId(Live(k, n))
  <1>1. Live(k, n) \in Issued(k, n + 1)
    BY NextIsFresh
  <1>2. Live(k, n) # NoRef /\ ~isDraftTempId(Live(k, n))
    BY <1>1, IssuedIsPlain
  <1>3. \A j : Live(k, n) \notin Issued(j, n)
    BY NextIsFresh
  <1> QED
    BY <1>2, <1>3 DEF KnownId, TempOf

(* Groups go first, then flags. *)
LEMMA PhaseOrder ==
    ASSUME NEW todo, NEW t \in NextSteps(todo), NEW s \in todo,
           s.kind \in DraftKinds, t.kind \in DraftKinds,
           s.op \in {"create", "update", "delete"}, t.op \in {"create", "update", "delete"}
    PROVE  /\ s.kind = "group" => t.kind = "group"
           /\ s.kind = "flag" => t.kind \in {"group", "flag"}
  <1> DEFINE kinds == <<"group", "flag", "rule", "experiment">>
             ops == <<"create", "update", "delete">>
             At(x, seq) == CHOOSE i \in DOMAIN seq : seq[i] = x
  <1>1. /\ At("group", kinds) = 1 /\ At("flag", kinds) = 2
        /\ At("rule", kinds) = 3 /\ At("experiment", kinds) = 4
    OBVIOUS
  <1>2. At("create", ops) = 1 /\ At("update", ops) = 2 /\ At("delete", ops) = 3
    OBVIOUS
  <1>3. \A x : Phase(x) = 3 * At(x.kind, kinds) + At(x.op, ops)
    BY DEF Phase
  <1>4. Phase(t) <= Phase(s)
    BY DEF NextSteps
  <1> HIDE DEF At, kinds, ops
  <1> QED
    BY <1>1, <1>2, <1>3, <1>4 DEF DraftKinds

(* An accepted request of a run with something left to do. *)
Request(goal, todo, map, born, t) ==
    /\ nextId \in Nat /\ ServerIds(live, nextId) /\ TodoIds(todo, nextId)
    /\ Remains(goal, live, todo, map, born, nextId)
    /\ "flag" \in DOMAIN b.lists /\ MembersTrue(live, todo, b.lists)
    /\ t \in NextSteps(todo) /\ ~Dangles(t, map) /\ Accepts(t, Remapped(t, map))

LEMMA TheRequest ==
    ASSUME NEW goal, NEW todo, NEW map, NEW born, NEW t, Request(goal, todo, map, born, t)
    PROVE  /\ nextId \in Nat /\ DOMAIN live = DraftKinds
           /\ \A s \in todo : StepIds(s, nextId)
           /\ t \in todo /\ StepIds(t, nextId)
           /\ \A s \in todo : s.kind = t.kind /\ s.id = t.id => s = t
           /\ \A k \in DraftKinds : DOMAIN live[k] \subseteq Issued(k, nextId)
           /\ \A k \in DraftKinds : \A id \in DOMAIN live[k] :
                 Hanging(live, k, live[k][id]) /\ KnownRefs(live[k][id], nextId)
           /\ Wrote(t, Remapped(t, map), Written(t, Remapped(t, map)))
  <1>1. DOMAIN live = DraftKinds /\ nextId \in Nat
    BY DEF Request, ServerIds
  <1>2. t \in todo
    BY DEF Request, NextSteps
  <1>3. StepIds(t, nextId)
    BY <1>2 DEF Request, TodoIds
  <1>4. Wrote(t, Remapped(t, map), Written(t, Remapped(t, map)))
    BY <1>1, <1>3, WrittenTables DEF Request, StepIds
  <1>5. \A k \in DraftKinds : /\ DOMAIN live[k] \subseteq Issued(k, nextId)
                              /\ \A id \in DOMAIN live[k] : Issues(live[k][id], nextId)
    BY DEF Request, ServerIds, ListIds
  <1>6. \A rec : Issues(rec, nextId) => KnownRefs(rec, nextId)
    BY DEF Issues, Relates, KnownRefs, KnownId
  <1> QED
    BY <1>1, <1>2, <1>3, <1>4, <1>5, <1>6 DEF Request, ServerIds, TodoIds, Remains, StepsOk

(* When rules and experiments are sent the flags are what the goal has:    *)
(* what hangs on another flag is refused.                                  *)
LEMMA Found ==
    ASSUME NEW goal, NEW todo, NEW map, NEW born, NEW t, Request(goal, todo, map, born, t),
           t.kind \in {"rule", "experiment"}, "flag" \in DOMAIN t.body
    PROVE  ~Lost(goal, born, "flag", t.body.flag)
  <1> DEFINE ref == t.body["flag"]
  <1>0. "flag" \in DraftKinds
    BY DEF DraftKinds
  <1> SUFFICES ASSUME Lost(goal, born, "flag", ref) PROVE FALSE
    OBVIOUS
  <1>1. ref \notin DOMAIN map
    <2> SUFFICES ASSUME ref \in DOMAIN map PROVE FALSE
      OBVIOUS
    <2>1. ref \in DOMAIN born
      BY DEF Request, Remains, BornOk
    <2>2. PICK k \in DraftKinds : TempOf(k, ref) /\ ref \in DOMAIN goal[k]
      BY <2>1 DEF Request, Remains, BornOk
    <2>3. KnownId("flag", ref, nextId)
      BY TheRequest DEF StepIds, KnownRefs
    <2>4. k = "flag"
      BY <1>0, <2>2, <2>3, TempsDiffer, IssuedNotTemp DEF KnownId
    <2> QED
      BY <2>2, <2>4 DEF Lost
  <1>2. ref \in DOMAIN live["flag"]
    <2>1. Remapped(t, map)["flag"] = resolveFlagRef(ref, map) /\ "flag" \in DOMAIN Remapped(t, map)
      BY RemappedIs
    <2>2. resolveFlagRef(ref, map) # Dangling
      BY DEF Request, Dangles
    <2>3. Remapped(t, map)["flag"] = ref
      BY <1>1, <2>1, <2>2 DEF resolveFlagRef
    <2> QED
      BY <2>1, <2>3 DEF Request, Accepts
  <1>3. Goes(goal, live, todo, born, "flag", ref)
    BY <1>0, <1>2 DEF Request, Remains
  <1>4. ~\E x \in DOMAIN goal["flag"] : ref = IdOf(born, x)
    BY DEF Lost, IdOf
  <1>5. PICK s \in todo : s.kind = "flag"
    BY <1>3, <1>4 DEF Goes, Deletes
  <1>6. t.kind \in {"group", "flag"}
    BY <1>5, PhaseOrder, TheRequest DEF Request, StepIds
  <1> QED
    BY <1>6

(* What the run has created, after the answer. *)
LEMMA BornIs ==
    ASSUME NEW goal, NEW todo, NEW map, NEW born, NEW t, Request(goal, todo, map, born, t)
    PROVE  LET more == BornBy(born, t, nextId)
           IN /\ \A y : y \in DOMAIN more <=> y \in DOMAIN born \/ (t.op = "create" /\ y = t.id)
              /\ \A y \in DOMAIN born : more[y] = born[y]
              /\ t.op = "create" => /\ more[t.id] = Live(t.kind, nextId) /\ t.id \notin DOMAIN born
                                    /\ TempOf(t.kind, t.id) /\ t.id \in DOMAIN goal[t.kind]
              /\ t.op # "create" => more = born
  <1>1. CASE t.op # "create"
    BY <1>1 DEF BornBy
  <1>2. CASE t.op = "create"
    <2>1. TempOf(t.kind, t.id) /\ HasRelation(t.kind, t.body)
      BY <1>2, TheRequest DEF StepIds
    <2>2. t.id \notin DOMAIN born
      BY <1>2, TheRequest DEF Request, Remains, StepsOk
    <2>3. t.id \in DOMAIN goal[t.kind]
      <3>1. \/ t.id \in DOMAIN goal[t.kind]
            \/ t.kind \in {"rule", "experiment"} /\ Lost(goal, born, "flag", t.body.flag)
        BY <1>2, TheRequest DEF Request, Remains, StepsOk
      <3> QED
        BY <2>1, <3>1, Found DEF HasRelation
    <2> QED
      BY <1>2, <2>1, <2>2, <2>3 DEF BornBy, Creates, Put
  <1> QED
    BY <1>1, <1>2

(* What is lost stays lost, what shows a record of the goal goes on to. *)
LEMMA LostStays ==
    ASSUME NEW goal, NEW todo, NEW map, NEW born, NEW t, Request(goal, todo, map, born, t),
           NEW k, NEW ref, Lost(goal, born, k, ref), ref # Live(t.kind, nextId)
    PROVE  Lost(goal, BornBy(born, t, nextId), k, ref)
  <1> DEFINE more == BornBy(born, t, nextId)
  <1>1. /\ \A y : y \in DOMAIN more <=> y \in DOMAIN born \/ (t.op = "create" /\ y = t.id)
        /\ \A y \in DOMAIN born : more[y] = born[y]
        /\ t.op = "create" => more[t.id] = Live(t.kind, nextId)
    BY BornIs
  <1> HIDE DEF more
  <1> QED
    BY <1>1 DEF Lost, more

LEMMA ShowsGrows ==
    ASSUME NEW goal, NEW todo, NEW map, NEW born, NEW t, Request(goal, todo, map, born, t),
           NEW k, NEW w, NEW r, Shows(goal, born, k, w, r),
           "group" \in DOMAIN w => w.group # Live(t.kind, nextId)
    PROVE  Shows(goal, BornBy(born, t, nextId), k, w, r)
  <1> DEFINE more == BornBy(born, t, nextId)
  <1>1. \A x, y : Refers(born, x, y) => Refers(more, x, y)
    BY BornIs DEF Refers
  <1>2. "group" \in DOMAIN w /\ Lost(goal, born, "group", w.group) => Lost(goal, more, "group", w.group)
    BY LostStays
  <1> HIDE DEF more
  <1>3. ASSUME NEW f \in DOMAIN r
        PROVE  ShowsField(goal, more, k, f, w[f], r[f])
    <2>1. ShowsField(goal, born, k, f, w[f], r[f]) /\ f \in DOMAIN w
      BY DEF Shows
    <2> QED
      BY <1>1, <1>2, <2>1 DEF ShowsField
  <1> QED
    BY <1>3 DEF Shows, more

(* The ids that the server gave take the place of the temp ids. *)
LEMMA ShowsRemapped ==
    ASSUME NEW goal, NEW todo, NEW map, NEW born, NEW t, Request(goal, todo, map, born, t),
           NEW k, NEW f \in DOMAIN t.body, NEW r, ShowsField(goal, born, k, f, t.body[f], r)
    PROVE  ShowsField(goal, born, k, f, Remapped(t, map)[f], r)
  <1> DEFINE w == t.body[f]
             sent == Remapped(t, map)[f]
  <1>1. \A y \in DOMAIN born : \E j \in DraftKinds :
           TempOf(j, y) /\ born[y] \in Issued(j, nextId) /\ y \in DOMAIN goal[j]
    BY DEF Request, Remains, BornOk
  <1>2. \A y \in DOMAIN map : y \in DOMAIN born /\ map[y] = born[y]
    BY DEF Request, Remains, BornOk
  <1>3. CASE f \notin {"group", "flag"}
    BY <1>3, RemappedIs
  <1>4. CASE f \in {"group", "flag"}
    <2>1. sent = w \/ (w \in DOMAIN map /\ sent = map[w])
      <3>1. CASE f = "group"
        BY <3>1, RemappedIs DEF remapGroupRef
      <3>2. CASE f = "flag"
        BY <3>2, RemappedIs DEF Request, Dangles, resolveFlagRef
      <3> QED
        BY <1>4, <3>1, <3>2
    <2>2. CASE sent = w
      BY <2>2
    <2>3. CASE w \in DOMAIN map /\ sent = map[w]
      <3>1. w \in DOMAIN born /\ sent = born[w]
        BY <1>2, <2>3
      <3>2. PICK j \in DraftKinds : TempOf(j, w) /\ w \in DOMAIN goal[j]
        BY <1>1, <3>1
      <3>3. CASE Refers(born, w, r)
        <4>1. \A y \in DOMAIN born : born[y] # w
          BY <1>1, <3>2, IssuedNotTemp
        <4>2. w = r
          BY <3>3, <4>1 DEF Refers
        <4> QED
          BY <1>4, <3>1, <4>2 DEF ShowsField, Refers
      <3>4. CASE f = "group" /\ w # NoRef /\ Lost(goal, born, "group", w)
        <4>1. KnownId("group", w, nextId)
          BY <3>4, TheRequest DEF StepIds, KnownRefs
        <4>2. j = "group"
          BY <3>2, <4>1, TempsDiffer, IssuedNotTemp DEF KnownId, DraftKinds
        <4> QED
          BY <3>2, <3>4, <4>2 DEF Lost
      <3> QED
        BY <1>4, <3>3, <3>4 DEF ShowsField
    <2> QED
      BY <2>1, <2>2, <2>3
  <1> QED
    BY <1>3, <1>4

(* What the request does to the records that are there: the one it is for  *)
(* aside, they stay, but for what hangs on a flag that is deleted, and for *)
(* the flags of a group that is.                                           *)
HangsOnDeleted(t, k, rec) ==
    t.op = "delete" /\ t.kind = "flag" /\ k \in {"rule", "experiment"} /\ rec.flag = t.id

LeftGroup(t, k, rec, after) ==
    /\ t.op = "delete" /\ t.kind = "group" /\ k = "flag"
    /\ rec.group \in {t.id, NoRef} /\ after = [rec EXCEPT !.group = NoRef]

LEMMA MembersAre ==
    ASSUME NEW goal, NEW todo, NEW map, NEW born, NEW t, Request(goal, todo, map, born, t),
           t.op = "delete", t.kind = "group", NEW f \in DOMAIN live["flag"], LeavesGroup(t.id, f)
    PROVE  live["flag"][f].group \in {t.id, NoRef}
  <1>1. CASE live["flag"][f].group = t.id
    BY <1>1
  <1>2. CASE f \in liveGroupMembers(t.id)
    <2>1. f \in DOMAIN b.lists["flag"] /\ b.lists["flag"][f].group = t.id
      BY <1>2 DEF liveGroupMembers
    <2> QED
      BY <2>1, TheRequest DEF Request, MembersTrue
  <1> QED
    BY <1>1, <1>2 DEF LeavesGroup

LEMMA RecordAfter ==
    ASSUME NEW goal, NEW todo, NEW map, NEW born, NEW t, Request(goal, todo, map, born, t),
           NEW W, W = Written(t, Remapped(t, map)),
           NEW k \in DraftKinds, NEW id \in DOMAIN live[k], ~(t.kind = k /\ t.id = id),
           ~HangsOnDeleted(t, k, live[k][id])
    PROVE  id \in DOMAIN W[k] /\ (W[k][id] = live[k][id] \/ LeftGroup(t, k, live[k][id], W[k][id]))
  <1>1. Wrote(t, Remapped(t, map), W) /\ StepIds(t, nextId)
    BY TheRequest
  <1>2. id # Live(t.kind, nextId)
    BY TheRequest, NextIsNew DEF StepIds, KnownId
  <1>3. CASE t.op = "create"
    BY <1>1, <1>2, <1>3 DEF Wrote, Only, Put
  <1>4. CASE t.op = "update"
    BY <1>1, <1>4 DEF Wrote, Only
  <1>5. CASE t.op = "delete" /\ t.kind \in {"rule", "experiment"}
    BY <1>1, <1>5 DEF Wrote, Only, Without
  <1>6. CASE t.op = "delete" /\ t.kind = "flag"
    <2>1. CASE k \in {"group", "flag"}
      BY <1>1, <1>6, <2>1 DEF Wrote, Without
    <2>2. CASE k \in {"rule", "experiment"}
      <3>1. W[k] = Without(live[k], HangsOn(k, t.id)) /\ live[k][id].flag # t.id
        BY <1>1, <1>6, <2>2 DEF Wrote, HangsOnDeleted
      <3> QED
        BY <3>1 DEF Without, HangsOn
    <2> QED
      BY <2>1, <2>2 DEF DraftKinds
  <1>7. CASE t.op = "delete" /\ t.kind = "group"
    <2>1. CASE k # "flag"
      BY <1>1, <1>7, <2>1 DEF Wrote, Without, DraftKinds
    <2>2. CASE k = "flag"
      <3>1. /\ id \in DOMAIN W["flag"]
            /\ W["flag"][id] = IF LeavesGroup(t.id, id)
                               THEN [live["flag"][id] EXCEPT !.group = NoRef] ELSE live["flag"][id]
        BY <1>1, <1>7, <2>2 DEF Wrote
      <3>2. LeavesGroup(t.id, id) => live["flag"][id].group \in {t.id, NoRef}
        BY <1>7, <2>2, MembersAre
      <3> QED
        BY <1>7, <2>2, <3>1, <3>2 DEF LeftGroup
    <2> QED
      BY <2>1, <2>2
  <1> QED
    BY <1>1, <1>3, <1>4, <1>5, <1>6, <1>7 DEF StepIds, DraftKinds

LEMMA RecordBefore ==
    ASSUME NEW goal, NEW todo, NEW map, NEW born, NEW t, Request(goal, todo, map, born, t),
           NEW W, W = Written(t, Remapped(t, map)),
           NEW k \in DraftKinds, NEW id \in DOMAIN W[k]
    PROVE  \/ t.op = "create" /\ k = t.kind /\ id = Live(t.kind, nextId)
           \/ /\ id \in DOMAIN live[k]
              /\ ~(t.op = "delete" /\ t.kind = k /\ t.id = id)
              /\ ~HangsOnDeleted(t, k, live[k][id])
  <1>1. Wrote(t, Remapped(t, map), W) /\ StepIds(t, nextId)
    BY TheRequest
  <1>3. CASE t.op = "create"
    BY <1>1, <1>3 DEF Wrote, Only, Put, HangsOnDeleted
  <1>4. CASE t.op = "update"
    BY <1>1, <1>4 DEF Wrote, Only, HangsOnDeleted
  <1>5. CASE t.op = "delete" /\ t.kind \in {"rule", "experiment"}
    BY <1>1, <1>5 DEF Wrote, Only, Without, HangsOnDeleted
  <1>6. CASE t.op = "delete" /\ t.kind = "flag"
    <2>1. CASE k \in {"group", "flag"}
      BY <1>1, <1>6, <2>1 DEF Wrote, Without, HangsOnDeleted
    <2>2. CASE k \in {"rule", "experiment"}
      <3>1. W[k] = Without(live[k], HangsOn(k, t.id))
        BY <1>1, <1>6, <2>2 DEF Wrote
      <3> QED
        BY <1>6, <2>2, <3>1 DEF Without, HangsOn, HangsOnDeleted
    <2> QED
      BY <2>1, <2>2 DEF DraftKinds
  <1>7. CASE t.op = "delete" /\ t.kind = "group"
    BY <1>1, <1>7 DEF Wrote, Without, HangsOnDeleted, DraftKinds
  <1> QED
    BY <1>1, <1>3, <1>4, <1>5, <1>6, <1>7 DEF StepIds, DraftKinds

(* The record of the request itself. *)
LEMMA RecordOf ==
    ASSUME NEW goal, NEW todo, NEW map, NEW born, NEW t, Request(goal, todo, map, born, t),
           NEW W, W = Written(t, Remapped(t, map))
    PROVE  /\ t.op = "create" => /\ Live(t.kind, nextId) \in DOMAIN W[t.kind]
                                 /\ W[t.kind][Live(t.kind, nextId)] = Remapped(t, map)
           /\ t.op = "update" => /\ t.id \in DOMAIN live[t.kind] /\ t.id \in DOMAIN W[t.kind]
                                 /\ W[t.kind][t.id] = applyBody(live[t.kind][t.id], Remapped(t, map))
  <1>1. Wrote(t, Remapped(t, map), W)
    BY TheRequest
  <1>2. CASE t.op = "create"
    BY <1>1, <1>2 DEF Wrote, Put
  <1>3. CASE t.op = "update"
    <2>1. /\ t.id \in DOMAIN live[t.kind]
          /\ W[t.kind] = [live[t.kind] EXCEPT ![t.id] = applyBody(live[t.kind][t.id], Remapped(t, map))]
      BY <1>1, <1>3 DEF Wrote
    <2> QED
      BY <1>3, <2>1
  <1> QED
    BY <1>2, <1>3

(* What is deleted is not of the goal. *)
LEMMA DeletedIsGone ==
    ASSUME NEW goal, NEW todo, NEW map, NEW born, NEW t, Request(goal, todo, map, born, t),
           t.op = "delete", NEW r, r \in DOMAIN goal[t.kind]
    PROVE  ~Refers(born, t.id, r)
  <1>1. t \in todo /\ t.kind \in DraftKinds
    BY TheRequest DEF StepIds
  <1>2. r # t.id
    <2>1. r = t.id => t \in Pending(todo, t.kind, r)
      BY <1>1 DEF Pending
    <2> QED
      BY <1>1, <2>1 DEF Request, Remains, Comes
  <1>3. \A y \in DOMAIN born : t.id # born[y]
    BY <1>1 DEF Request, Remains, StepsOk
  <1> QED
    BY <1>2, <1>3 DEF Refers

(* A flag of the goal may leave a group that is deleted. *)
LEMMA UngroupedShows ==
    ASSUME NEW goal, NEW todo, NEW map, NEW born, NEW t, Request(goal, todo, map, born, t),
           t.op = "delete", t.kind = "group", NEW x \in DOMAIN goal["flag"],
           NEW w, Shows(goal, born, "flag", w, goal["flag"][x]), w.group \in {t.id, NoRef}
    PROVE  Shows(goal, born, "flag", [w EXCEPT !.group = NoRef], goal["flag"][x])
  <1> DEFINE r == goal["flag"][x]
             v == [w EXCEPT !.group = NoRef]
  <1>0. "flag" \in DraftKinds
    BY DEF DraftKinds
  <1>1. "group" \in DOMAIN r /\ r["group"] \in DOMAIN goal["group"] \union {NoRef}
    BY <1>0 DEF Request, Remains, GoalOk, HasRelation
  <1>2. DOMAIN w = DOMAIN r /\ \A f \in DOMAIN r : ShowsField(goal, born, "flag", f, w[f], r[f])
    BY DEF Shows
  <1>3. r["group"] = NoRef
    <2>1. CASE w["group"] = NoRef
      <3>1. Refers(born, NoRef, r["group"])
        BY <1>1, <1>2, <2>1 DEF ShowsField
      <3>2. \A y \in DOMAIN born : born[y] # NoRef
        BY IssuedIsPlain DEF Request, Remains, BornOk
      <3> QED
        BY <3>1, <3>2 DEF Refers
    <2>2. CASE w["group"] = t.id
      <3>1. r["group"] \in DOMAIN goal["group"] => ~Refers(born, t.id, r["group"])
        BY DeletedIsGone
      <3> QED
        BY <1>1, <1>2, <2>2, <3>1 DEF ShowsField
    <2> QED
      BY <2>1, <2>2
  <1>4. DOMAIN v = DOMAIN r /\ \A f \in DOMAIN r : v[f] = IF f = "group" THEN NoRef ELSE w[f]
    BY <1>2
  <1>5. ShowsField(goal, born, "flag", "group", NoRef, NoRef)
    BY DEF ShowsField, Refers
  <1> HIDE DEF v
  <1> QED
    BY <1>2, <1>3, <1>4, <1>5 DEF Shows, v

(* What is left after the request. *)
LEMMA StepsAfter ==
    ASSUME NEW goal, NEW todo, NEW map, NEW born, NEW t, Request(goal, todo, map, born, t)
    PROVE  StepsOk(goal, todo \ Pending(todo, t.kind, t.id), BornBy(born, t, nextId))
  <1> DEFINE more == BornBy(born, t, nextId)
             left == todo \ Pending(todo, t.kind, t.id)
  <1>1. /\ \A y : y \in DOMAIN more <=> y \in DOMAIN born \/ (t.op = "create" /\ y = t.id)
        /\ \A y \in DOMAIN born : more[y] = born[y]
        /\ t.op = "create" => more[t.id] = Live(t.kind, nextId) /\ TempOf(t.kind, t.id)
    BY BornIs
  <1>2. \A s \in left : s \in todo /\ ~(s.kind = t.kind /\ s.id = t.id)
    BY DEF Pending
  <1> HIDE DEF more, left
  <1>3. /\ \A s, u \in todo : s.kind = u.kind /\ s.id = u.id => s = u
        /\ \A s \in todo : \A y \in DOMAIN born : s.id # born[y]
        /\ \A s \in todo : s.op = "create" =>
              /\ s.id \notin DOMAIN born
              /\ \/ s.id \in DOMAIN goal[s.kind]
                 \/ s.kind \in {"rule", "experiment"} /\ Lost(goal, born, "flag", s.body.flag)
    BY DEF Request, Remains, StepsOk
  <1>4. nextId \in Nat /\ t.kind \in DraftKinds /\ \A s \in todo : StepIds(s, nextId)
    BY TheRequest DEF StepIds
  <1>5. ASSUME NEW s \in left, NEW y \in DOMAIN more
        PROVE  s.id # more[y]
    <2>1. s.id # Live(t.kind, nextId)
      BY <1>2, <1>4, NextIsNew DEF StepIds
    <2> QED
      BY <1>1, <1>2, <1>3, <2>1
  <1>6. ASSUME NEW s \in left, s.op = "create"
        PROVE  /\ s.id \notin DOMAIN more
               /\ \/ s.id \in DOMAIN goal[s.kind]
                  \/ s.kind \in {"rule", "experiment"} /\ Lost(goal, more, "flag", s.body.flag)
    <2>1. TempOf(s.kind, s.id) /\ HasRelation(s.kind, s.body) /\ KnownRefs(s.body, nextId)
      BY <1>2, <1>4, <1>6 DEF StepIds
    <2>2. t.op = "create" => s.id # t.id
      BY <1>1, <1>2, <2>1, TempsDiffer
    <2>3. s.id \notin DOMAIN more
      BY <1>1, <1>2, <1>3, <1>6, <2>2
    <2>4. s.kind \in {"rule", "experiment"} => s.body.flag # Live(t.kind, nextId)
      BY <1>4, <2>1, NextIsNew DEF HasRelation, KnownRefs
    <2>5. s.kind \in {"rule", "experiment"} /\ Lost(goal, born, "flag", s.body.flag)
             => Lost(goal, more, "flag", s.body.flag)
      BY <2>4, LostStays DEF more
    <2> QED
      BY <1>2, <1>3, <1>6, <2>3, <2>5
  <1>7. \A s, u \in left : s.kind = u.kind /\ s.id = u.id => s = u
    BY <1>2, <1>3
  <1> QED
    BY <1>5, <1>6, <1>7 DEF StepsOk, more, left

LEMMA BornAfter ==
    ASSUME NEW goal, NEW todo, NEW map, NEW born, NEW t, Request(goal, todo, map, born, t)
    PROVE  BornOk(goal, MapBy(map, t, nextId), BornBy(born, t, nextId), nextId + 1)
  <1> DEFINE more == BornBy(born, t, nextId)
             named == MapBy(map, t, nextId)
  <1>1. /\ \A y : y \in DOMAIN more <=> y \in DOMAIN born \/ (t.op = "create" /\ y = t.id)
        /\ \A y \in DOMAIN born : more[y] = born[y]
        /\ t.op = "create" => /\ more[t.id] = Live(t.kind, nextId) /\ t.id \notin DOMAIN born
                              /\ TempOf(t.kind, t.id) /\ t.id \in DOMAIN goal[t.kind]
    BY BornIs
  <1>2. /\ \A y \in DOMAIN born : \E k \in DraftKinds :
              TempOf(k, y) /\ born[y] \in Issued(k, nextId) /\ y \in DOMAIN goal[k]
        /\ \A y \in DOMAIN map : y \in DOMAIN born /\ map[y] = born[y]
    BY DEF Request, Remains, BornOk
  <1>3. nextId \in Nat /\ t.kind \in DraftKinds
    BY TheRequest DEF StepIds
  <1>4. /\ \A k \in DraftKinds : Issued(k, nextId) \subseteq Issued(k, nextId + 1)
        /\ Live(t.kind, nextId) \in Issued(t.kind, nextId + 1)
    BY <1>3, IssuedGrows, NextIsFresh
  <1>5. \A y \in DOMAIN named :
           \/ y \in DOMAIN map /\ named[y] = map[y]
           \/ t.op = "create" /\ y = t.id /\ named[y] = Live(t.kind, nextId)
    BY DEF MapBy, Creates, Put
  <1> HIDE DEF more, named
  <1>6. ASSUME NEW y \in DOMAIN more
        PROVE  \E k \in DraftKinds : TempOf(k, y) /\ more[y] \in Issued(k, nextId + 1) /\ y \in DOMAIN goal[k]
    <2>1. CASE y \in DOMAIN born
      BY <1>1, <1>2, <1>4, <2>1
    <2>2. CASE y \notin DOMAIN born
      BY <1>1, <1>3, <1>4, <2>2
    <2> QED
      BY <2>1, <2>2
  <1>7. \A y \in DOMAIN named : y \in DOMAIN more /\ named[y] = more[y]
    BY <1>1, <1>2, <1>5
  <1> QED
    BY <1>6, <1>7 DEF BornOk, more, named

(* What is laid over a record that the request does not write shows what   *)
(* it did.                                                                 *)
LEMMA LaidOver ==
    ASSUME NEW goal, NEW todo, NEW map, NEW born, NEW t, Request(goal, todo, map, born, t),
           NEW k \in DraftKinds, NEW x \in DOMAIN goal[k], NEW rec, NEW after, NEW body,
           HasRelation(k, rec), after = rec \/ LeftGroup(t, k, rec, after),
           Shows(goal, born, k, applyBody(rec, body), goal[k][x])
    PROVE  Shows(goal, born, k, applyBody(after, body), goal[k][x])
  <1>1. CASE after = rec
    BY <1>1
  <1>2. CASE LeftGroup(t, k, rec, after)
    <2> DEFINE w == applyBody(rec, body)
    <2>1. /\ t.op = "delete" /\ t.kind = "group" /\ k = "flag" /\ "group" \in DOMAIN rec
          /\ rec.group \in {t.id, NoRef} /\ after = [rec EXCEPT !.group = NoRef]
      BY <1>2 DEF LeftGroup, HasRelation
    <2>2. CASE "group" \in DOMAIN body
      <3>1. applyBody(after, body) = w
        BY <2>1, <2>2 DEF applyBody
      <3> QED
        BY <3>1
    <2>3. CASE "group" \notin DOMAIN body
      <3>1. applyBody(after, body) = [w EXCEPT !.group = NoRef] /\ w.group = rec.group
        BY <2>1, <2>3 DEF applyBody
      <3> HIDE DEF w
      <3> QED
        BY <2>1, <3>1, UngroupedShows DEF w
    <2> QED
      BY <2>2, <2>3
  <1> QED
    BY <1>1, <1>2

LEMMA NotTheNext ==
    ASSUME NEW n \in Nat, NEW k \in DraftKinds, NEW rec, KnownRefs(rec, n)
    PROVE  "group" \in DOMAIN rec => rec.group # Live(k, n)
  BY NextIsNew DEF KnownRefs

(* A step of the goal that was not sent goes on to bring what it did. *)
LEMMA PendingAfter ==
    ASSUME NEW goal, NEW todo, NEW map, NEW born, NEW t, Request(goal, todo, map, born, t),
           NEW W, W = Written(t, Remapped(t, map)),
           NEW k \in DraftKinds, NEW x \in DOMAIN goal[k],
           NEW s \in Pending(todo, k, x), ~(t.kind = k /\ t.id = x)
    PROVE  LET more == BornBy(born, t, nextId)
           IN /\ s.op # "delete" /\ x \notin DOMAIN more
              /\ s.op = "create" => Shows(goal, more, k, s.body, goal[k][x])
              /\ s.op = "update" /\ x \in DOMAIN W[k] =>
                    Shows(goal, more, k, applyBody(W[k][x], s.body), goal[k][x])
  <1> DEFINE more == BornBy(born, t, nextId)
             next == Live(t.kind, nextId)
  <1>1. s \in todo /\ s.kind = k /\ s.id = x
    BY DEF Pending
  <1>2. /\ s.op # "delete" /\ x \notin DOMAIN born
        /\ s.op = "create" => Shows(goal, born, k, s.body, goal[k][x])
        /\ s.op = "update" /\ x \in DOMAIN live[k] =>
              Shows(goal, born, k, applyBody(live[k][x], s.body), goal[k][x])
    BY DEF Request, Remains, Comes
  <1>3. StepIds(s, nextId) /\ nextId \in Nat /\ t.kind \in DraftKinds
    BY <1>1, TheRequest DEF StepIds
  <1>4. KnownId(k, x, nextId) /\ KnownRefs(s.body, nextId)
    BY <1>1, <1>3 DEF StepIds
  <1>5. x \notin DOMAIN more
    <2>1. t.op = "create" => t.id # x
      BY <1>4, BornIs, TempsDiffer, IssuedNotTemp DEF KnownId
    <2> QED
      BY <1>2, <2>1, BornIs
  <1>6. s.op = "create" => Shows(goal, more, k, s.body, goal[k][x])
    <2>1. "group" \in DOMAIN s.body => s.body.group # next
      BY <1>3, <1>4, NotTheNext
    <2> QED
      BY <1>2, <2>1, ShowsGrows
  <1>7. ASSUME s.op = "update", x \in DOMAIN W[k]
        PROVE  Shows(goal, more, k, applyBody(W[k][x], s.body), goal[k][x])
    <2>1. x # next
      BY <1>3, <1>4, NextIsNew
    <2>2. x \in DOMAIN live[k] /\ ~HangsOnDeleted(t, k, live[k][x])
      BY <1>7, <2>1, RecordBefore
    <2>3. W[k][x] = live[k][x] \/ LeftGroup(t, k, live[k][x], W[k][x])
      BY <2>2, RecordAfter
    <2>4. HasRelation(k, live[k][x]) /\ KnownRefs(live[k][x], nextId)
      BY <2>2, TheRequest DEF Hanging
    <2>5. Shows(goal, born, k, applyBody(W[k][x], s.body), goal[k][x])
      BY <1>2, <1>7, <2>2, <2>3, <2>4, LaidOver
    <2>6. "group" \in DOMAIN W[k][x] => W[k][x].group # next
      <3>1. CASE W[k][x] = live[k][x]
        BY <1>3, <2>4, <3>1, NotTheNext
      <3>2. CASE LeftGroup(t, k, live[k][x], W[k][x])
        <4>1. next # NoRef
          BY <1>3, NextIsNew
        <4> QED
          BY <3>2, <4>1 DEF LeftGroup
      <3> QED
        BY <2>3, <3>1, <3>2
    <2>7. "group" \in DOMAIN s.body => s.body.group # next
      BY <1>3, <1>4, NotTheNext
    <2> DEFINE w == applyBody(W[k][x], s.body)
    <2>8. "group" \in DOMAIN w => w.group # next
      BY <2>6, <2>7 DEF applyBody
    <2> HIDE DEF w, next, more
    <2> QED
      BY <2>5, <2>8, ShowsGrows DEF w, next, more
  <1> QED
    BY <1>2, <1>5, <1>6, <1>7

(* The step that was sent brought its record. *)
LEMMA SentBrings ==
    ASSUME NEW goal, NEW todo, NEW map, NEW born, NEW t, Request(goal, todo, map, born, t),
           NEW W, W = Written(t, Remapped(t, map)),
           NEW x, x = t.id, NEW k, k = t.kind, x \in DOMAIN goal[k]
    PROVE  LET more == BornBy(born, t, nextId)
           IN /\ IdOf(more, x) \in DOMAIN W[k]
              /\ Shows(goal, more, k, W[k][IdOf(more, x)], goal[k][x])
  <1> DEFINE more == BornBy(born, t, nextId)
             body == Remapped(t, map)
             next == Live(t.kind, nextId)
  <1>1. t \in Pending(todo, k, x) /\ k \in DraftKinds /\ StepIds(t, nextId)
    BY TheRequest DEF Pending, StepIds
  <1>2. /\ t.op # "delete" /\ x \notin DOMAIN born
        /\ t.op = "create" => Shows(goal, born, k, t.body, goal[k][x])
        /\ t.op = "update" /\ x \in DOMAIN live[k] =>
              Shows(goal, born, k, applyBody(live[k][x], t.body), goal[k][x])
    BY <1>1 DEF Request, Remains, Comes
  <1>3. DOMAIN body = DOMAIN t.body
    BY RemappedIs
  <1>4. "group" \in DOMAIN body => body.group # next
    <2>1. "group" \in DOMAIN body => body.group \in DOMAIN live["group"] \union {NoRef}
      BY DEF Request, Accepts
    <2>2. KnownId("group", body.group, nextId) => body.group # next
      BY <1>1, TheRequest, NextIsNew
    <2>3. DOMAIN live["group"] \subseteq Issued("group", nextId) /\ next # NoRef
      BY <1>1, TheRequest, NextIsNew DEF DraftKinds
    <2> QED
      BY <2>1, <2>2, <2>3 DEF KnownId
  <1>5. CASE t.op = "create"
    <2>1. IdOf(more, x) = next /\ next \in DOMAIN W[k] /\ W[k][next] = body
      BY <1>5, BornIs, RecordOf DEF IdOf
    <2>2. Shows(goal, born, k, body, goal[k][x])
      BY <1>2, <1>3, <1>5, ShowsRemapped DEF Shows
    <2>3. Shows(goal, more, k, body, goal[k][x])
      BY <1>4, <2>2, ShowsGrows
    <2> QED
      BY <2>1, <2>3
  <1>6. CASE t.op = "update"
    <2> DEFINE w == applyBody(live[k][x], body)
               laid == applyBody(live[k][x], t.body)
    <2>1. more = born /\ IdOf(more, x) = x
      BY <1>2, <1>6, BornIs DEF IdOf
    <2>2. x \in DOMAIN live[k] /\ x \in DOMAIN W[k] /\ W[k][x] = w
      BY <1>6, RecordOf
    <2>3. Shows(goal, born, k, laid, goal[k][x])
      BY <1>2, <1>6, <2>2
    <2>4. /\ DOMAIN w = DOMAIN laid
          /\ \A f \in DOMAIN laid : \/ f \in DOMAIN t.body /\ laid[f] = t.body[f] /\ w[f] = body[f]
                                    \/ w[f] = laid[f]
      BY <1>3 DEF applyBody
    <2> HIDE DEF w, laid, body
    <2>5. Shows(goal, born, k, w, goal[k][x])
      <3>1. ASSUME NEW f \in DOMAIN goal[k][x]
            PROVE  ShowsField(goal, born, k, f, w[f], goal[k][x][f])
        <4>1. f \in DOMAIN laid /\ ShowsField(goal, born, k, f, laid[f], goal[k][x][f])
          BY <2>3 DEF Shows
        <4> QED
          BY <2>4, <4>1, ShowsRemapped DEF body
      <3> QED
        BY <2>3, <2>4, <3>1 DEF Shows
    <2> QED
      BY <2>1, <2>2, <2>5
  <1> QED
    BY <1>1, <1>2, <1>5, <1>6 DEF StepIds

(* The records of the goal are there after the request, or come with what  *)
(* is left.                                                                *)
LEMMA StaysShown ==
    ASSUME NEW goal, NEW todo, NEW map, NEW born, NEW t, Request(goal, todo, map, born, t),
           NEW W, W = Written(t, Remapped(t, map)),
           NEW k \in DraftKinds, NEW x \in DOMAIN goal[k], Pending(todo, k, x) = {}
    PROVE  LET more == BornBy(born, t, nextId)
           IN /\ IdOf(more, x) \in DOMAIN W[k]
              /\ Shows(goal, more, k, W[k][IdOf(more, x)], goal[k][x])
  <1> DEFINE more == BornBy(born, t, nextId)
             next == Live(t.kind, nextId)
             id == IdOf(born, x)
  <1>1. id \in DOMAIN live[k] /\ Shows(goal, born, k, live[k][id], goal[k][x])
    BY DEF Request, Remains, Comes
  <1>2. t \in todo /\ StepIds(t, nextId) /\ nextId \in Nat
    BY TheRequest
  <1>3. id \in Issued(k, nextId) /\ KnownRefs(live[k][id], nextId) /\ Hanging(live, k, live[k][id])
    BY <1>1, TheRequest
  <1>4. IdOf(more, x) = id
    <2>1. CASE x \in DOMAIN born
      BY <2>1, BornIs DEF IdOf
    <2>2. CASE x \notin DOMAIN born
      <3>1. x \in Issued(k, nextId)
        BY <1>3, <2>2 DEF IdOf
      <3>2. t.op = "create" => t.id # x
        BY <3>1, BornIs, IssuedNotTemp
      <3> QED
        BY <2>2, <3>2, BornIs DEF IdOf
    <2> QED
      BY <2>1, <2>2
  <1>5. ~(t.kind = k /\ t.id = id)
    <2>1. CASE x \in DOMAIN born
      BY <1>2, <2>1 DEF IdOf, Request, Remains, StepsOk
    <2>2. CASE x \notin DOMAIN born
      BY <1>2, <2>2 DEF IdOf, Pending
    <2> QED
      BY <2>1, <2>2
  <1>6. ~HangsOnDeleted(t, k, live[k][id])
    <2> SUFFICES ASSUME HangsOnDeleted(t, k, live[k][id]) PROVE FALSE
      OBVIOUS
    <2>1. /\ t.op = "delete" /\ t.kind = "flag" /\ k \in {"rule", "experiment"}
          /\ live[k][id]["flag"] = t.id
      BY DEF HangsOnDeleted
    <2>2. "flag" \in DOMAIN goal[k][x] /\ goal[k][x]["flag"] \in DOMAIN goal["flag"]
      BY <2>1 DEF Request, Remains, GoalOk, HasRelation
    <2>3. Refers(born, t.id, goal[k][x]["flag"])
      BY <1>1, <2>1, <2>2 DEF Shows, ShowsField
    <2> QED
      BY <2>1, <2>2, <2>3, DeletedIsGone
  <1>7. /\ id \in DOMAIN W[k]
        /\ W[k][id] = live[k][id] \/ LeftGroup(t, k, live[k][id], W[k][id])
    BY <1>1, <1>5, <1>6, RecordAfter
  <1>8. /\ Shows(goal, born, k, W[k][id], goal[k][x])
        /\ "group" \in DOMAIN W[k][id] => W[k][id].group # next
    <2>1. CASE W[k][id] = live[k][id]
      BY <1>1, <1>2, <1>3, <2>1, NotTheNext DEF StepIds
    <2>2. CASE LeftGroup(t, k, live[k][id], W[k][id])
      <3>1. next # NoRef
        BY <1>2, NextIsNew DEF StepIds
      <3>2. "group" \in DOMAIN live[k][id]
        BY <1>3, <2>2 DEF LeftGroup, Hanging, HasRelation
      <3> QED
        BY <1>1, <2>2, <3>1, <3>2, UngroupedShows DEF LeftGroup
    <2> QED
      BY <1>7, <2>1, <2>2
  <1>9. Shows(goal, more, k, W[k][id], goal[k][x])
    BY <1>8, ShowsGrows
  <1> QED
    BY <1>4, <1>7, <1>9

LEMMA ComesAfter ==
    ASSUME NEW goal, NEW todo, NEW map, NEW born, NEW t, Request(goal, todo, map, born, t),
           NEW W, W = Written(t, Remapped(t, map)),
           NEW k \in DraftKinds, NEW x \in DOMAIN goal[k]
    PROVE  Comes(goal, W, todo \ Pending(todo, t.kind, t.id), BornBy(born, t, nextId), k, x)
  <1> DEFINE more == BornBy(born, t, nextId)
             left == todo \ Pending(todo, t.kind, t.id)
  <1>1. \A s : s \in Pending(left, k, x) <=> s \in Pending(todo, k, x) /\ ~(t.kind = k /\ t.id = x)
    BY DEF Pending
  <1>2. \A s \in Pending(left, k, x) :
           /\ s.op # "delete" /\ x \notin DOMAIN more
           /\ s.op = "create" => Shows(goal, more, k, s.body, goal[k][x])
           /\ s.op = "update" /\ x \in DOMAIN W[k] =>
                 Shows(goal, more, k, applyBody(W[k][x], s.body), goal[k][x])
    BY <1>1, PendingAfter
  <1>3. CASE t.kind = k /\ t.id = x
    <2>1. IdOf(more, x) \in DOMAIN W[k] /\ Shows(goal, more, k, W[k][IdOf(more, x)], goal[k][x])
      BY <1>3, SentBrings
    <2> HIDE DEF more, left
    <2> QED
      BY <1>2, <2>1 DEF Comes, more, left
  <1>4. CASE ~(t.kind = k /\ t.id = x)
    <2>1. Pending(left, k, x) = {} => Pending(todo, k, x) = {}
      BY <1>1, <1>4
    <2>2. Pending(todo, k, x) = {} =>
             IdOf(more, x) \in DOMAIN W[k] /\ Shows(goal, more, k, W[k][IdOf(more, x)], goal[k][x])
      BY StaysShown
    <2> HIDE DEF more, left
    <2> QED
      BY <1>2, <2>1, <2>2 DEF Comes, more, left
  <1> QED
    BY <1>3, <1>4

(* Each record there after the request is of the goal, or goes with what   *)
(* is left.                                                                *)
LEMMA GoesAfter ==
    ASSUME NEW goal, NEW todo, NEW map, NEW born, NEW t, Request(goal, todo, map, born, t),
           NEW W, W = Written(t, Remapped(t, map)),
           NEW k \in DraftKinds, NEW id \in DOMAIN W[k]
    PROVE  Goes(goal, W, todo \ Pending(todo, t.kind, t.id), BornBy(born, t, nextId), k, id)
  <1> DEFINE more == BornBy(born, t, nextId)
             left == todo \ Pending(todo, t.kind, t.id)
             next == Live(t.kind, nextId)
  <1>0. /\ \A s : s \in left <=> s \in todo /\ ~(s.kind = t.kind /\ s.id = t.id)
        /\ \A j, y : \A s : s \in Pending(left, j, y) <=> s \in Pending(todo, j, y) /\ s \in left
    BY DEF Pending
  <1>1. /\ t \in todo /\ StepIds(t, nextId) /\ nextId \in Nat
        /\ \A s \in todo : StepIds(s, nextId)
        /\ \A s \in todo : s.kind = t.kind /\ s.id = t.id => s = t
    BY TheRequest
  <1> HIDE DEF left, more
  <1>2. CASE t.op = "create" /\ k = t.kind /\ id = next
    BY <1>2, BornIs DEF Goes, IdOf, more
  <1>3. CASE /\ id \in DOMAIN live[k]
             /\ ~(t.op = "delete" /\ t.kind = k /\ t.id = id)
             /\ ~HangsOnDeleted(t, k, live[k][id])
    <2>1. Goes(goal, live, todo, born, k, id)
      BY <1>3 DEF Request, Remains
    <2>2. id \in Issued(k, nextId) /\ Hanging(live, k, live[k][id]) /\ KnownRefs(live[k][id], nextId)
      BY <1>3, TheRequest
    <2>3. ASSUME NEW x \in DOMAIN goal[k], id = IdOf(born, x)
          PROVE  Goes(goal, W, left, more, k, id)
      <3>1. CASE x \in DOMAIN born
        BY <2>3, <3>1, BornIs DEF Goes, IdOf, more
      <3>2. CASE x \notin DOMAIN born
        <4>1. x = id
          BY <2>3, <3>2 DEF IdOf
        <4>2. t.op = "create" => t.id # x
          BY <2>2, <4>1, BornIs, IssuedNotTemp
        <4>3. x \notin DOMAIN more
          BY <3>2, <4>2, BornIs DEF more
        <4> QED
          BY <2>3, <4>1, <4>3 DEF Goes, IdOf
      <3> QED
        BY <3>1, <3>2
    <2>4. ASSUME Deletes(todo, k, id)
          PROVE  Goes(goal, W, left, more, k, id)
      <3>1. PICK s \in todo : s.kind = k /\ s.id = id /\ s.op = "delete"
        BY <2>4 DEF Deletes
      <3>2. s \in left
        BY <1>0, <1>1, <1>3, <3>1
      <3> QED
        BY <3>1, <3>2 DEF Goes, Deletes
    <2>5. ASSUME k \in {"rule", "experiment"}, Deletes(todo, "flag", live[k][id].flag)
          PROVE  Goes(goal, W, left, more, k, id)
      <3>1. PICK s \in todo : s.kind = "flag" /\ s.id = live[k][id].flag /\ s.op = "delete"
        BY <2>5 DEF Deletes
      <3>2. t.kind \in {"group", "flag"}
        BY <1>1, <3>1, PhaseOrder DEF Request, StepIds
      <3>3. W[k][id] = live[k][id]
        <4>1. ~(t.kind = k /\ t.id = id) /\ k # "flag"
          BY <2>5, <3>2
        <4>2. W[k][id] = live[k][id] \/ LeftGroup(t, k, live[k][id], W[k][id])
          BY <1>3, <4>1, RecordAfter
        <4> QED
          BY <4>1, <4>2 DEF LeftGroup
      <3>4. s # t
        BY <1>3, <2>5, <3>1 DEF HangsOnDeleted
      <3>5. s \in left
        BY <1>0, <1>1, <3>4
      <3> QED
        BY <2>5, <3>1, <3>3, <3>5 DEF Goes, Deletes
    <2>6. ASSUME k \in {"rule", "experiment"},
                 NEW s \in Pending(todo, k, id), Refused(goal, born, s)
          PROVE  Goes(goal, W, left, more, k, id)
      <3>1. /\ s \in todo /\ s.kind = k
            /\ s.op = "update" /\ "flag" \in DOMAIN s.body /\ Lost(goal, born, "flag", s.body.flag)
        BY <2>6 DEF Pending, Refused
      <3>2. s # t
        BY <2>6, <3>1, Found
      <3>3. s.body.flag # next
        BY <1>1, <3>1, NextIsNew DEF StepIds, KnownRefs
      <3>4. Lost(goal, more, "flag", s.body.flag)
        BY <3>1, <3>3, LostStays DEF more
      <3>5. s \in Pending(left, k, id)
        BY <1>0, <1>1, <2>6, <3>1, <3>2
      <3> QED
        BY <2>6, <3>1, <3>4, <3>5 DEF Goes, Refused
    <2>7. \/ \E x \in DOMAIN goal[k] : id = IdOf(born, x)
          \/ Deletes(todo, k, id)
          \/ k \in {"rule", "experiment"} /\ Deletes(todo, "flag", live[k][id].flag)
          \/ k \in {"rule", "experiment"} /\ \E s \in Pending(todo, k, id) : Refused(goal, born, s)
      BY <2>1, Zenon DEF Goes
    <2> QED
      BY <2>3, <2>4, <2>5, <2>6, <2>7, Zenon DEF left, more
  <1> QED
    BY <1>2, <1>3, RecordBefore DEF left, more

(* What remains after the request. *)
LEMMA RemainsAfter ==
    ASSUME NEW goal, NEW todo, NEW map, NEW born, NEW t, Request(goal, todo, map, born, t),
           NEW W, W = Written(t, Remapped(t, map))
    PROVE  Remains(goal, W, todo \ Pending(todo, t.kind, t.id),
                   MapBy(map, t, nextId), BornBy(born, t, nextId), nextId + 1)
  <1> DEFINE more == BornBy(born, t, nextId)
             left == todo \ Pending(todo, t.kind, t.id)
             named == MapBy(map, t, nextId)
  <1>1. GoalOk(goal) /\ StepsOk(goal, left, more) /\ BornOk(goal, named, more, nextId + 1)
    BY StepsAfter, BornAfter DEF Request, Remains
  <1>2. \A k \in DraftKinds : \A x \in DOMAIN goal[k] : Comes(goal, W, left, more, k, x)
    BY ComesAfter
  <1>3. \A k \in DraftKinds : \A id \in DOMAIN W[k] : Goes(goal, W, left, more, k, id)
    BY GoesAfter
  <1> HIDE DEF more, left, named
  <1> QED
    BY <1>1, <1>2, <1>3 DEF Remains, more, left, named

(* The members of a group that is still to be deleted are the flags that   *)
(* the lists show in it.                                                   *)
LEMMA MembersAfter ==
    ASSUME NEW goal, NEW todo, NEW map, NEW born, NEW t, Request(goal, todo, map, born, t),
           NEW W, W = Written(t, Remapped(t, map)),
           NEW data, MembersTrue(live, todo, data), ListIds(data, nextId)
    PROVE  MembersTrue(W, todo \ Pending(todo, t.kind, t.id), data)
  <1> SUFFICES ASSUME "flag" \in DOMAIN data,
                      NEW s \in todo, ~(s.kind = t.kind /\ s.id = t.id), s.kind = "group", s.op = "delete",
                      NEW f \in DOMAIN data["flag"], f \in DOMAIN W["flag"],
                      data["flag"][f].group = s.id
               PROVE  W["flag"][f].group \in {s.id, NoRef}
    BY DEF MembersTrue, Pending
  <1>0. "flag" \in DraftKinds
    BY DEF DraftKinds
  <1>1. t.kind = "group" /\ t \in todo /\ nextId \in Nat
    BY TheRequest, PhaseOrder DEF Request, StepIds
  <1>2. f \in Issued("flag", nextId)
    BY DEF ListIds
  <1>3. f \in DOMAIN live["flag"] /\ ~HangsOnDeleted(t, "flag", live["flag"][f])
    BY <1>0, <1>1, RecordBefore
  <1>4. live["flag"][f].group \in {s.id, NoRef}
    BY <1>3 DEF MembersTrue
  <1>5. W["flag"][f] = live["flag"][f] \/ LeftGroup(t, "flag", live["flag"][f], W["flag"][f])
    BY <1>0, <1>1, <1>3, RecordAfter
  <1>6. "group" \in DOMAIN live["flag"][f]
    BY <1>0, <1>3, TheRequest DEF Hanging, HasRelation
  <1> QED
    BY <1>4, <1>5, <1>6 DEF LeftGroup

-----------------------------------------------------------------------------
(* Each action keeps what remains of a run. *)

(* The flags of a list are those of lists that are known, or the server's. *)
FlagsOf(data) ==
    "flag" \in DOMAIN data =>
        \E from \in ListData \union {live} :
            /\ "flag" \in DOMAIN from
            /\ \A f \in DOMAIN data["flag"] : f \in DOMAIN from["flag"] /\ data["flag"][f] = from["flag"][f]

LEMMA StillApplied ==
    ASSUME IdsInv, AppliedInv, UNCHANGED <<live, nextId>>,
           run'.calm = run.calm, run'.phase = run.phase, run'.goal = run.goal,
           run.phase = "publishing" => run'.map = run.map /\ run'.born = run.born,
           run.phase = "applying" => /\ Left' = Left /\ Map' = Map /\ Born' = Born
                                     /\ Answered' = Answered \/ (Answered => run.sent.outcome = "ok")
                                     /\ Answered' => run'.sent = run.sent,
           \A data \in ListData' : FlagsOf(data)
    PROVE  AppliedInv'
  <1> SUFFICES ASSUME run.calm PROVE AppliedInv'
    BY DEF AppliedInv
  <1>1. ASSUME run.phase = "applying", Answered' => run'.sent.outcome = "ok"
        PROVE  /\ Remains(run.goal, live, Left, Map, Born, nextId)'
               /\ \A data \in ListData' : MembersTrue(live', Left', data)
    <2>1. Answered => run.sent.outcome = "ok"
      BY <1>1
    <2>2. /\ Remains(run.goal, live, Left, Map, Born, nextId)
          /\ \A data \in ListData : MembersTrue(live, Left, data)
      BY <1>1, <2>1 DEF AppliedInv
    <2>3. MembersTrue(live, Left, live)
      BY DEF MembersTrue
    <2>4. ASSUME NEW data \in ListData'
          PROVE  MembersTrue(live, Left, data)
      BY <2>2, <2>3 DEF FlagsOf, MembersTrue
    <2> QED
      BY <1>1, <2>2, <2>4
  <1>2. ASSUME run.phase = "publishing"
        PROVE  Remains(run.goal, live, {}, run.map, run.born, nextId)'
    BY <1>2 DEF AppliedInv
  <1> QED
    BY <1>1, <1>2 DEF AppliedInv

LEMMA ListsAreTrue ==
    ASSUME IdsInv
    PROVE  /\ \A data : data \in ListData \/ FromLive(data) => FlagsOf(data)
           /\ DOMAIN live = DraftKinds /\ DOMAIN b.lists = DraftKinds
  <1>1. DOMAIN live = DraftKinds /\ DOMAIN b.lists = DraftKinds /\ "flag" \in DraftKinds
    BY DEF IdsInv, ServerIds, BrowserIds, DraftKinds
  <1> QED
    BY <1>1 DEF FlagsOf, FromLive

LEMMA NotApplied ==
    ASSUME run'.calm = FALSE \/ run'.phase \notin {"applying", "publishing"}
    PROVE  AppliedInv'
  BY DEF AppliedInv

(* The request of an undisturbed run. *)
LEMMA RunKeepsApplied ==
    ASSUME PageInv, IdsInv, AppliedInv, runApplyStep
    PROVE  AppliedInv'
  <1>1. PICK t \in NextSteps(run.todo) :
           \E o : /\ run' = [run EXCEPT !.sent = [step |-> t, outcome |-> o, id |-> nextId]]
                  /\ \/ o # "ok"
                     \/ /\ ~Dangles(t, run.map) /\ Accepts(t, Remapped(t, run.map))
                        /\ live' = Written(t, Remapped(t, run.map)) /\ nextId' = nextId + 1
    BY DEF runApplyStep
  <1>2. UNCHANGED <<b, page, inbox>> /\ run.phase = "applying" /\ run.sent = Nothing
    BY DEF runApplyStep
  <1>3. PICK o : /\ run' = [run EXCEPT !.sent = [step |-> t, outcome |-> o, id |-> nextId]]
                 /\ \/ o # "ok"
                    \/ /\ ~Dangles(t, run.map) /\ Accepts(t, Remapped(t, run.map))
                       /\ live' = Written(t, Remapped(t, run.map)) /\ nextId' = nextId + 1
    BY <1>1
  <1>4. /\ run'.calm = run.calm /\ run'.phase = "applying" /\ run'.todo = run.todo /\ run'.map = run.map
        /\ run'.born = run.born /\ run'.goal = run.goal
        /\ run'.sent = [step |-> t, outcome |-> o, id |-> nextId]
    BY <1>2, <1>3 DEF PageInv, RunShape
  <1>5. run'.sent # Nothing /\ run'.sent.step = t /\ run'.sent.outcome = o /\ run'.sent.id = nextId
    BY <1>4, AnAnswer
  <1> SUFFICES ASSUME run.calm, o = "ok" PROVE AppliedInv'
    BY <1>4, <1>5 DEF AppliedInv, Answered
  <1>6. /\ Remains(run.goal, live, run.todo, run.map, run.born, nextId)
        /\ \A data \in ListData : MembersTrue(live, run.todo, data)
    BY <1>2 DEF AppliedInv, Answered, Left, Map, Born
  <1>7. Request(run.goal, run.todo, run.map, run.born, t)
    <2>1. "flag" \in DOMAIN b.lists
      BY ListsAreTrue DEF DraftKinds
    <2> QED
      BY <1>3, <1>6, <2>1 DEF Request, IdsInv, ListData
  <1>8. live' = Written(t, Remapped(t, run.map)) /\ nextId' = nextId + 1
    BY <1>3
  <1>9. /\ Left' = run.todo \ Pending(run.todo, t.kind, t.id)
        /\ Map' = MapBy(run.map, t, nextId) /\ Born' = BornBy(run.born, t, nextId)
    BY <1>4, <1>5 DEF Answered, Left, Map, Born
  <1>10. Remains(run.goal, live, Left, Map, Born, nextId)'
    BY <1>4, <1>7, <1>8, <1>9, RemainsAfter
  <1>11. ASSUME NEW data \in ListData'
         PROVE  MembersTrue(live', Left', data)
    <2>1. ListIds(data, nextId) /\ MembersTrue(live, run.todo, data)
      BY <1>2, <1>6 DEF ListData, IdsInv, BrowserIds, MailIds, Answers
    <2> QED
      BY <1>7, <1>8, <1>9, <2>1, MembersAfter
  <1> QED
    BY <1>4, <1>10, <1>11 DEF AppliedInv

(* Its confirmation is only read. *)
LEMMA ConsumeKeepsApplied ==
    ASSUME PageInv, IdsInv, RunInv, AppliedInv, consumeDraft
    PROVE  AppliedInv'
  <1> DEFINE t == run.sent.step
             id == run.sent.id
  <1>1. /\ run.phase = "applying" /\ run.sent # Nothing /\ run.sent.outcome = "ok"
        /\ b' = draftDiscard(b, t.kind, t.id)
        /\ UNCHANGED <<page, inbox, live, nextId>>
    BY DEF consumeDraft
  <1>2. /\ run'.calm = run.calm /\ run'.phase = run.phase /\ run'.goal = run.goal
        /\ run'.todo = run.todo \ {u \in run.todo : u.kind = t.kind /\ u.id = t.id}
        /\ run'.sent = Nothing
        /\ run'.born = IF t.op = "create" THEN Put(run.born, t.id, Live(t.kind, id)) ELSE run.born
        /\ run'.map = IF t.op = "create" /\ t.kind \in {"group", "flag"}
                      THEN Put(run.map, t.id, Live(t.kind, id)) ELSE run.map
    BY DEF consumeDraft, PageInv, RunShape
  <1> SUFFICES ASSUME run.calm PROVE AppliedInv'
    BY <1>2 DEF AppliedInv
  <1>3. b'.lists = b.lists
    <2>1. InScope(b) /\ t \in run.todo /\ t.kind \in DraftKinds
      BY <1>1 DEF RunInv, Undisturbed, PageInv, InScope, SentInv, Steps
    <2> HIDE DEF t
    <2> QED
      BY <1>1, <2>1, DiscardIds
  <1>4. /\ Left = run'.todo /\ Born = run'.born /\ Map = run'.map
        /\ Left' = run'.todo /\ Born' = run'.born /\ Map' = run'.map
        /\ Answered /\ ~Answered'
    BY <1>1, <1>2 DEF Answered, Left, Born, Map, Pending, BornBy, MapBy, Creates
  <1>5. ListData' = ListData
    BY <1>1, <1>3 DEF ListData
  <1>6. \A data \in ListData' : FlagsOf(data)
    BY <1>5, ListsAreTrue
  <1> QED
    BY <1>1, <1>2, <1>4, <1>6, StillApplied

(* A list shows flags as they are, or as they were known. *)
LEMMA ListsKeepApplied ==
    ASSUME PageInv, IdsInv, AppliedInv, loadFlags \/ loadRules \/ loadExperiments
    PROVE  AppliedInv'
  <1>1. PICK c, data :
              /\ data = live \/ \E m \in inbox : data = m.data
              /\ ListsOf(c, data)
              /\ Shown(restoreDrafts(c))
              /\ run' = [run EXCEPT !.shared = FALSE]
              /\ \A x \in inbox' : x \in inbox \/ x = Ask("rules", page.gen, "")
                                               \/ x = Ask("experiments", page.gen, "")
              /\ UNCHANGED <<live, nextId>>
    BY EachLoads
  <1>2. /\ run'.calm = run.calm /\ run'.phase = run.phase /\ run'.todo = run.todo /\ run'.map = run.map
        /\ run'.born = run.born /\ run'.goal = run.goal /\ run'.sent = run.sent
    BY <1>1 DEF PageInv, RunShape
  <1>3. b'.lists = c.lists
    <2>1. BrowserIds(c, nextId) /\ Browser(c)
      <3>1. ListsOf(c, data) /\ (data = live \/ \E m \in inbox : data = m.data)
        BY <1>1
      <3>2. BrowserIds(c, nextId)
        BY <3>1, ListedIds
      <3> QED
        BY <3>1, <3>2 DEF ListsOf
    <2>2. restoreDrafts(c).lists = c.lists
      BY <2>1, RestoreIds
    <2> QED
      BY <1>1, <2>2 DEF Shown
  <1>4. FlagsOf(c.lists)
    <2>1. "flag" \in DraftKinds /\ DOMAIN live = DraftKinds /\ DOMAIN b.lists = DraftKinds
      BY ListsAreTrue DEF DraftKinds
    <2>2. \/ c.lists["flag"] = b.lists["flag"]
          \/ /\ "flag" \in DOMAIN data
             /\ DOMAIN c.lists["flag"] \subseteq DOMAIN data["flag"]
             /\ \A f \in DOMAIN c.lists["flag"] : c.lists["flag"][f] = data["flag"][f]
      BY <1>1, <2>1 DEF ListsOf
    <2>3. data \in ListData \union {live} /\ b.lists \in ListData
      BY <1>1 DEF ListData
    <2> QED
      BY <2>1, <2>2, <2>3 DEF FlagsOf
  <1>5. ASSUME NEW x \in ListData'
        PROVE  FlagsOf(x)
    <2>1. CASE x = b'.lists
      BY <1>3, <1>4, <2>1
    <2>2. ASSUME NEW m \in inbox', x = m.data
          PROVE  FlagsOf(x)
      <3>1. CASE m \in inbox
        BY <2>2, <3>1, ListsAreTrue DEF ListData
      <3>2. CASE m \notin inbox
        <4>1. m = Ask("rules", page.gen, "") \/ m = Ask("experiments", page.gen, "")
          BY <1>1, <3>2
        <4> QED
          BY <2>2, <4>1, AskFromLive, ListsAreTrue
      <3> QED
        BY <3>1, <3>2
    <2> QED
      BY <2>1, <2>2 DEF ListData
  <1>6. Left' = Left /\ Map' = Map /\ Born' = Born /\ Answered' = Answered
    BY <1>2 DEF Left, Map, Born, Answered
  <1> QED
    BY <1>1, <1>2, <1>5, <1>6, StillApplied

(* A release is made of what the run has left when nothing remains. *)
LEMMA ReleaseKeepsApplied ==
    ASSUME PageInv, IdsInv, AppliedInv, publish
    PROVE  AppliedInv'
  <1>1. /\ run.phase = "applying" /\ run.todo = {} /\ run.sent = Nothing
        /\ UNCHANGED <<live, nextId>>
        /\ \E o : run' = [run EXCEPT !.phase = "publishing", !.sent = o]
    BY DEF publish
  <1>2. /\ run'.calm = run.calm /\ run'.phase = "publishing" /\ run'.goal = run.goal
        /\ run'.map = run.map /\ run'.born = run.born
    BY <1>1 DEF PageInv, RunShape
  <1>3. run.calm => Remains(run.goal, live, {}, run.map, run.born, nextId)
    BY <1>1 DEF AppliedInv, Answered, Left, Map, Born
  <1> QED
    BY <1>1, <1>2, <1>3 DEF AppliedInv

LEMMA EndsApplied ==
    ASSUME PageInv, IdsInv,
           \/ StageSomething \/ discardUnpublished \/ applyFailed \/ markPublished
           \/ envSelectChange \/ Reload
    PROVE  AppliedInv'
  <1>1. CASE StageSomething
    <2>1. PICK kind \in DraftKinds, op \in {"create", "update", "delete"} :
             \E i, x, m : Stage(kind, op, i, x, m)
      BY <1>1, EachStagesOne DEF StagesOne, IdsInv
    <2>2. PICK id, c : Staged(kind, op, id, c)
      BY <2>1 DEF Stage
    <2>3. run'.calm = FALSE
      BY <2>2 DEF Staged, Follow, IdleRun, PageInv, RunShape
    <2> QED
      BY <2>3, NotApplied
  <1>2. CASE discardUnpublished \/ Reload
    <2>1. run' = IdleRun
      BY <1>2, Zenon DEF discardUnpublished, Reload
    <2>2. run'.calm = FALSE
      BY <2>1 DEF IdleRun
    <2> QED
      BY <2>2, NotApplied
  <1>3. CASE envSelectChange
    <2>1. run'.calm = FALSE
      BY <1>3 DEF envSelectChange, PageInv, RunShape
    <2> QED
      BY <2>1, NotApplied
  <1>4. CASE applyFailed \/ markPublished
    <2>1. run'.phase \notin {"applying", "publishing"}
      BY <1>4 DEF applyFailed, markPublished, PageInv, RunShape
    <2> QED
      BY <2>1, NotApplied
  <1> QED
    BY <1>1, <1>2, <1>3, <1>4

LEMMA OthersKeepApplied ==
    ASSUME IdsInv, AppliedInv,
           \/ rollback \/ openPromoteDialog \/ submitPromote \/ closePromoteDialog
           \/ loadReleases \/ Dropped \/ OtherPublishes \/ UNCHANGED vars
    PROVE  AppliedInv'
  <1>1. UNCHANGED <<b, run, live, nextId>>
    BY DEF rollback, openPromoteDialog, submitPromote, closePromoteDialog, loadReleases, Dropped,
           OtherPublishes, vars
  <1>2. \A m \in inbox' : m \in inbox \/ \E gen, then : m = Ask("releases", gen, then)
    <2>1. CASE rollback
      BY <2>1 DEF rollback
    <2>2. CASE submitPromote
      BY <2>2 DEF submitPromote
    <2>3. CASE loadReleases \/ Dropped
      BY <2>3 DEF loadReleases, Dropped
    <2>4. CASE openPromoteDialog \/ closePromoteDialog \/ OtherPublishes \/ UNCHANGED vars
      BY <2>4 DEF openPromoteDialog, closePromoteDialog, OtherPublishes, vars
    <2> QED
      BY <2>1, <2>2, <2>3, <2>4
  <1>3. \A data \in ListData' : data \in ListData \/ FromLive(data)
    <2>1. \A m \in inbox' : m \in inbox \/ FromLive(m.data)
      BY <1>2, AskFromLive
    <2> QED
      BY <1>1, <2>1 DEF ListData
  <1>4. Left' = Left /\ Map' = Map /\ Born' = Born /\ Answered' = Answered
    BY <1>1 DEF Left, Map, Born, Answered
  <1> QED
    BY <1>1, <1>3, <1>4, ListsAreTrue, StillApplied

-----------------------------------------------------------------------------
(* The click of a run that is calm: the goal is what the tables show over  *)
(* the server's records.                                                   *)
Drafted(k, id, op) == id \in DOMAIN b.drafts[k] /\ b.drafts[k][id].op = op

ShownAs(k, id) ==
    IF Drafted(k, id, "create") THEN b.drafts[k][id].body
    ELSE IF Drafted(k, id, "update") THEN applyBody(live[k][id], b.drafts[k][id].body)
    ELSE live[k][id]

InTable(k, id) == Drafted(k, id, "create") \/ id \in DOMAIN live[k]
Stays(k, id) == InTable(k, id) /\ ~Drafted(k, id, "delete")

Homed(r, groups) == IF r.group \in groups \union {NoRef} THEN r ELSE [r EXCEPT !.group = NoRef]

Calm == PageInv /\ IdsInv /\ b.lists = live /\ b.last = b.env

LEMMA Tables ==
    ASSUME Calm, NEW k \in DraftKinds
    PROVE  /\ \A id : id \in DOMAIN Merged(b, k) <=> InTable(k, id)
           /\ \A id \in DOMAIN Merged(b, k) : /\ Merged(b, k)[id].rec = ShownAs(k, id)
                                              /\ Merged(b, k)[id].deleted <=> Drafted(k, id, "delete")
  <1> DEFINE bucket == b.drafts[k]
             created == {id \in DOMAIN bucket : bucket[id].op = "create"}
             all(id) == IF id \in created THEN bucket[id].body ELSE live[k][id]
  <1>1. Merged(b, k) = overlayById(live[k], bucket)
    BY EnsureAgain DEF Calm, Merged
  <1>2. DOMAIN overlayById(live[k], bucket) = created \union DOMAIN live[k]
    BY DEF overlayById
  <1>3. \A id \in created \union DOMAIN live[k] :
           overlayById(live[k], bucket)[id] =
               [rec |-> IF OpOf(bucket, id) = "update" THEN applyBody(all(id), bucket[id].body) ELSE all(id),
                deleted |-> OpOf(bucket, id) = "delete"]
    BY DEF overlayById
  <1>4. \A id : /\ id \in created <=> Drafted(k, id, "create")
                /\ OpOf(bucket, id) = "update" <=> Drafted(k, id, "update")
                /\ OpOf(bucket, id) = "delete" <=> Drafted(k, id, "delete")
    BY DEF Drafted, OpOf
  <1>5. \A id : Drafted(k, id, "update") => ~Drafted(k, id, "create")
    BY DEF Drafted
  <1> HIDE DEF created
  <1>6. \A id : id \in DOMAIN Merged(b, k) <=> InTable(k, id)
    BY <1>1, <1>2, <1>4 DEF InTable
  <1>7. ASSUME NEW id \in DOMAIN Merged(b, k)
        PROVE  /\ Merged(b, k)[id].rec = ShownAs(k, id)
               /\ Merged(b, k)[id].deleted <=> Drafted(k, id, "delete")
    <2> DEFINE row == overlayById(live[k], bucket)[id]
               upd == applyBody(all(id), bucket[id].body)
    <2>1. row = [rec |-> IF OpOf(bucket, id) = "update" THEN upd ELSE all(id),
                 deleted |-> OpOf(bucket, id) = "delete"]
      BY <1>1, <1>2, <1>3, <1>7
    <2>2. all(id) = IF Drafted(k, id, "create") THEN bucket[id].body ELSE live[k][id]
      BY <1>4
    <2>3. row.rec = IF Drafted(k, id, "update") THEN upd ELSE all(id)
      BY <1>4, <2>1
    <2>4. row.deleted <=> Drafted(k, id, "delete")
      <3>1. row.deleted = (OpOf(bucket, id) = "delete")
        BY <2>1
      <3>2. (OpOf(bucket, id) = "delete") <=> Drafted(k, id, "delete")
        BY <1>4
      <3> HIDE DEF row
      <3> QED
        BY <3>1, <3>2, Zenon
    <2>5. row.rec = ShownAs(k, id)
      BY <1>5, <2>2, <2>3 DEF ShownAs
    <2> QED
      BY <1>1, <2>4, <2>5
  <1> QED
    BY <1>6, <1>7

LEMMA TheGoal ==
    ASSUME Calm
    PROVE  /\ DOMAIN Promised = DraftKinds
           /\ \A x : x \in DOMAIN Promised["group"] <=> Stays("group", x)
           /\ \A x : x \in DOMAIN Promised["flag"] <=> Stays("flag", x)
           /\ \A k \in {"rule", "experiment"} : \A x :
                 x \in DOMAIN Promised[k] <=> Stays(k, x) /\ ShownAs(k, x).flag \in DOMAIN Promised["flag"]
           /\ \A k \in DraftKinds : \A x \in DOMAIN Promised[k] :
                 Promised[k][x] = IF k = "flag" THEN Homed(ShownAs(k, x), DOMAIN Promised["group"])
                                  ELSE ShownAs(k, x)
  <1> DEFINE groups == Kept(mergedGroups(b))
             rules == Kept(mergedRules(b))
             exps == {y \in Kept(mergedExperiments(b)) : mergedExperiments(b)[y].rec.flag \in ValidFlags(b)}
  <1>0. "group" \in DraftKinds /\ "flag" \in DraftKinds /\ "rule" \in DraftKinds /\ "experiment" \in DraftKinds
    BY DEF DraftKinds
  <1>1. /\ DOMAIN Promised = {"group", "flag", "rule", "experiment"}
        /\ Promised["group"] = [g \in groups |-> mergedGroups(b)[g].rec]
        /\ Promised["flag"] = [f \in ValidFlags(b) |-> Homed(mergedFlags(b)[f].rec, groups)]
        /\ Promised["rule"] = [r \in rules |-> mergedRules(b)[r].rec]
        /\ Promised["experiment"] = [x \in exps |-> mergedExperiments(b)[x].rec]
    BY DEF Promised, Homed
  <1>2. \A x : x \in groups <=> Stays("group", x)
    BY <1>0, Tables DEF Kept, mergedGroups, Stays
  <1>3. \A x : x \in ValidFlags(b) <=> Stays("flag", x)
    BY <1>0, Tables DEF ValidFlags, NotDeleted, mergedFlags, Stays
  <1>4. /\ \A x : x \in rules <=> Stays("rule", x) /\ ShownAs("rule", x).flag \in ValidFlags(b)
        /\ \A x \in rules : mergedRules(b)[x].rec = ShownAs("rule", x)
    BY <1>0, Tables DEF Kept, mergedRules, ListedOf, Stays
  <1>5. /\ \A x : x \in exps <=> Stays("experiment", x) /\ ShownAs("experiment", x).flag \in ValidFlags(b)
        /\ \A x \in exps : mergedExperiments(b)[x].rec = ShownAs("experiment", x)
    BY <1>0, Tables DEF Kept, mergedExperiments, ListedOf, Stays
  <1>6. /\ \A x \in groups : mergedGroups(b)[x].rec = ShownAs("group", x)
        /\ \A x \in ValidFlags(b) : mergedFlags(b)[x].rec = ShownAs("flag", x)
    BY <1>0, Tables DEF Kept, ValidFlags, NotDeleted, mergedGroups, mergedFlags
  <1> HIDE DEF groups, rules, exps
  <1> QED
    BY <1>1, <1>2, <1>3, <1>4, <1>5, <1>6 DEF DraftKinds

LEMMA ClickSteps ==
    ASSUME NEW k \in DraftKinds, NEW x
    PROVE  \A s : s \in Pending(AllSteps, k, x) <=> x \in DOMAIN b.drafts[k] /\ s = StepOf(k, x)
  <1>1. \A s : s \in AllSteps <=> \E j \in DraftKinds : \E id \in DOMAIN b.drafts[j] : s = StepOf(j, id)
    BY AllStepsAre
  <1>2. \A j, id : StepOf(j, id).kind = j /\ StepOf(j, id).id = id
    BY DEF StepOf
  <1> QED
    BY <1>1, <1>2 DEF Pending

(* Every record of the tables has its relation. *)
LEMMA ShownHas ==
    ASSUME Calm, NEW k \in DraftKinds, NEW id, InTable(k, id)
    PROVE  HasRelation(k, ShownAs(k, id))
  <1>1. Drafted(k, id, "create") => HasRelation(k, b.drafts[k][id].body)
    BY DEF Calm, IdsInv, BrowserIds, DraftIds, EntryOk, Drafted
  <1>2. id \in DOMAIN live[k] => HasRelation(k, live[k][id])
    BY DEF Calm, IdsInv, ServerIds, Hanging
  <1>3. \A rec, body : HasRelation(k, rec) => HasRelation(k, applyBody(rec, body))
    BY DEF HasRelation, applyBody
  <1> QED
    BY <1>1, <1>2, <1>3 DEF InTable, ShownAs

(* What the tables show shows the goal: a flag of a group that is not kept *)
(* is in none.                                                             *)
LEMMA ShownShows ==
    ASSUME Calm, NEW k \in DraftKinds, NEW x \in DOMAIN Promised[k], InTable(k, x)
    PROVE  Shows(Promised, <<>>, k, ShownAs(k, x), Promised[k][x])
  <1> DEFINE r == ShownAs(k, x)
             groups == DOMAIN Promised["group"]
  <1>1. Promised[k][x] = IF k = "flag" THEN Homed(r, groups) ELSE r
    BY TheGoal
  <1>2. HasRelation(k, r)
    BY ShownHas
  <1>3. \A f : ShowsField(Promised, <<>>, k, f, r[f], r[f])
    BY DEF ShowsField, Refers
  <1>4. CASE Promised[k][x] = r
    BY <1>3, <1>4 DEF Shows
  <1>5. CASE Promised[k][x] # r
    <2>1. k = "flag" /\ "group" \in DOMAIN r /\ r.group \notin groups \union {NoRef}
      BY <1>1, <1>2, <1>5 DEF Homed, HasRelation
    <2>2. Promised[k][x] = [r EXCEPT !.group = NoRef]
      BY <1>1, <2>1 DEF Homed
    <2>3. ShowsField(Promised, <<>>, k, "group", r["group"], NoRef)
      BY <2>1 DEF ShowsField, Lost
    <2> DEFINE v == [r EXCEPT !.group = NoRef]
    <2>4. DOMAIN v = DOMAIN r /\ \A f \in DOMAIN r : v[f] = IF f = "group" THEN NoRef ELSE r[f]
      OBVIOUS
    <2> HIDE DEF v, r
    <2> QED
      BY <1>3, <2>2, <2>3, <2>4 DEF Shows, v, r
  <1> QED
    BY <1>4, <1>5

LEMMA ClickRemains ==
    ASSUME Calm
    PROVE  Remains(Promised, live, AllSteps, <<>>, <<>>, nextId)
  <1> DEFINE goal == Promised
  <1>0. DOMAIN <<>> = {} /\ \A x : IdOf(<<>>, x) = x
    BY DEF IdOf
  <1>1. /\ \A k \in DraftKinds : \A id \in DOMAIN b.drafts[k] :
              /\ b.drafts[k][id].op \in {"create", "update", "delete"}
              /\ b.drafts[k][id].op = "create" <=> TempOf(k, id)
              /\ b.drafts[k][id].op = "create" => HasRelation(k, b.drafts[k][id].body)
        /\ \A k \in DraftKinds : \A id \in DOMAIN live[k] :
              Hanging(live, k, live[k][id]) /\ ~TempOf(k, id)
    BY IssuedNotTemp DEF Calm, IdsInv, BrowserIds, DraftIds, EntryOk, ServerIds, ListIds
  <1>2. \A k \in DraftKinds : \A x \in DOMAIN goal[k] : Stays(k, x)
    BY TheGoal DEF DraftKinds
  <1>3. GoalOk(goal)
    <2>1. ASSUME NEW k \in DraftKinds, NEW x \in DOMAIN goal[k]
          PROVE  /\ HasRelation(k, goal[k][x])
                 /\ k = "flag" => goal[k][x].group \in DOMAIN goal.group \union {NoRef}
                 /\ k \in {"rule", "experiment"} => goal[k][x].flag \in DOMAIN goal.flag
      <3>1. HasRelation(k, ShownAs(k, x))
        BY <1>2, <2>1, ShownHas DEF Stays
      <3>2. goal[k][x] = IF k = "flag" THEN Homed(ShownAs(k, x), DOMAIN goal["group"]) ELSE ShownAs(k, x)
        BY TheGoal
      <3>3. k \in {"rule", "experiment"} => ShownAs(k, x).flag \in DOMAIN goal["flag"]
        BY TheGoal
      <3> QED
        BY <3>1, <3>2, <3>3 DEF HasRelation, Homed
    <2> QED
      BY <2>1, TheGoal DEF GoalOk
  <1>4. StepsOk(goal, AllSteps, <<>>)
    <2>1. ASSUME NEW s \in AllSteps, s.op = "create"
          PROVE  \/ s.id \in DOMAIN goal[s.kind]
                 \/ s.kind \in {"rule", "experiment"} /\ Lost(goal, <<>>, "flag", s.body.flag)
      <3>1. PICK k \in DraftKinds : \E id \in DOMAIN b.drafts[k] : s = StepOf(k, id)
        BY AllStepsAre
      <3>2. PICK id \in DOMAIN b.drafts[k] : s = StepOf(k, id)
        BY <3>1
      <3>3. s.kind = k /\ s.id = id /\ Drafted(k, id, "create") /\ s.body = ShownAs(k, id)
        BY <2>1, <3>2 DEF StepOf, Drafted, ShownAs
      <3>4. Stays(k, id)
        BY <3>3 DEF Stays, InTable, Drafted
      <3> QED
        BY <1>0, <3>3, <3>4, TheGoal DEF Lost, DraftKinds
    <2>2. \A s, t \in AllSteps : s.kind = t.kind /\ s.id = t.id => s = t
      BY AllStepsAre DEF StepOf
    <2> QED
      BY <1>0, <2>1, <2>2 DEF StepsOk
  <1>5. BornOk(goal, <<>>, <<>>, nextId)
    BY <1>0 DEF BornOk
  <1>6. ASSUME NEW k \in DraftKinds, NEW x \in DOMAIN goal[k]
        PROVE  Comes(goal, live, AllSteps, <<>>, k, x)
    <2>1. Stays(k, x)
      BY <1>2, <1>6
    <2>2. Shows(goal, <<>>, k, ShownAs(k, x), goal[k][x])
      BY <1>6, <2>1, ShownShows DEF Stays
    <2>3. ASSUME x \in DOMAIN b.drafts[k]
          PROVE  LET s == StepOf(k, x)
                 IN /\ s.op # "delete"
                    /\ s.op = "create" => s.body = ShownAs(k, x)
                    /\ s.op = "update" => applyBody(live[k][x], s.body) = ShownAs(k, x)
      BY <2>1, <2>3 DEF StepOf, Stays, Drafted, ShownAs
    <2>4. x \notin DOMAIN b.drafts[k] => x \in DOMAIN live[k] /\ live[k][x] = ShownAs(k, x)
      BY <2>1 DEF Stays, InTable, Drafted, ShownAs
    <2>5. \A s : s \in Pending(AllSteps, k, x) <=> x \in DOMAIN b.drafts[k] /\ s = StepOf(k, x)
      BY ClickSteps
    <2> HIDE DEF goal
    <2> QED
      BY <1>0, <2>2, <2>3, <2>4, <2>5 DEF Comes
  <1>7. ASSUME NEW k \in DraftKinds, NEW id \in DOMAIN live[k]
        PROVE  Goes(goal, live, AllSteps, <<>>, k, id)
    <2>1. \A j \in DraftKinds : \A y : Drafted(j, y, "delete") => Deletes(AllSteps, j, y)
      <3>1. ASSUME NEW j \in DraftKinds, NEW y, Drafted(j, y, "delete")
            PROVE  Deletes(AllSteps, j, y)
        <4>1. StepOf(j, y) \in Pending(AllSteps, j, y) /\ StepOf(j, y).op = "delete"
          BY <3>1, ClickSteps DEF Drafted, StepOf
        <4> QED
          BY <4>1 DEF Pending, Deletes
      <3> QED
        BY <3>1
    <2>2. CASE Drafted(k, id, "delete")
      BY <2>1, <2>2 DEF Goes
    <2>3. CASE id \in DOMAIN goal[k]
      BY <1>0, <2>3 DEF Goes
    <2>4. CASE ~Drafted(k, id, "delete") /\ id \notin DOMAIN goal[k]
      <3>1. Stays(k, id)
        BY <1>7, <2>4 DEF Stays, InTable
      <3>2. k \in {"rule", "experiment"} /\ ShownAs(k, id).flag \notin DOMAIN goal["flag"]
        BY <2>4, <3>1, TheGoal DEF DraftKinds
      <3>3. ~Drafted(k, id, "create")
        BY <1>1, <1>7 DEF Drafted
      <3>4. CASE Drafted(k, id, "update") /\ "flag" \in DOMAIN b.drafts[k][id].body
        <4>1. ShownAs(k, id).flag = b.drafts[k][id].body.flag
          BY <3>3, <3>4 DEF ShownAs, applyBody
        <4>2. Lost(goal, <<>>, "flag", b.drafts[k][id].body.flag)
          BY <1>0, <3>2, <4>1 DEF Lost
        <4>3. StepOf(k, id) \in Pending(AllSteps, k, id)
          BY <3>4, ClickSteps DEF Drafted
        <4>4. Refused(goal, <<>>, StepOf(k, id))
          BY <3>4, <4>2 DEF Refused, StepOf, Drafted
        <4> QED
          BY <3>2, <4>3, <4>4 DEF Goes
      <3>5. CASE ~(Drafted(k, id, "update") /\ "flag" \in DOMAIN b.drafts[k][id].body)
        <4>1. "flag" \in DOMAIN live[k][id] /\ live[k][id].flag \in DOMAIN live["flag"]
          BY <1>1, <1>7, <3>2 DEF Hanging, HasRelation
        <4>2. ShownAs(k, id).flag = live[k][id].flag
          BY <3>3, <3>5, <4>1 DEF ShownAs, applyBody
        <4>3. Drafted("flag", live[k][id].flag, "delete")
          BY <3>2, <4>1, <4>2, TheGoal DEF Stays, InTable
        <4>4. Deletes(AllSteps, "flag", live[k][id].flag)
          BY <2>1, <4>3 DEF DraftKinds
        <4> QED
          BY <3>2, <4>4 DEF Goes
      <3> QED
        BY <3>4, <3>5
    <2> QED
      BY <2>2, <2>3, <2>4
  <1> HIDE DEF goal
  <1> QED
    BY <1>3, <1>4, <1>5, <1>6, <1>7 DEF Remains, goal

LEMMA SubmitKeepsApplied ==
    ASSUME PageInv, IdsInv, publishSubmit
    PROVE  AppliedInv'
  <1>1. /\ run'.calm = (UpToDate /\ b.last = b.env) /\ run'.phase = "applying" /\ run'.goal = Promised
        /\ run'.todo = AllSteps /\ run'.map = <<>> /\ run'.born = <<>> /\ run'.sent = Nothing
        /\ UNCHANGED <<b, inbox, live, nextId>>
    BY DEF publishSubmit, IdleRun, buildApplySteps
  <1> SUFFICES ASSUME UpToDate, b.last = b.env PROVE AppliedInv'
    BY <1>1 DEF AppliedInv
  <1>2. Calm
    BY DEF Calm, UpToDate
  <1>3. /\ Left' = AllSteps /\ Map' = <<>> /\ Born' = <<>>
    BY <1>1 DEF Left, Map, Born, Answered
  <1>4. Remains(run.goal, live, Left, Map, Born, nextId)'
    BY <1>1, <1>2, <1>3, ClickRemains
  <1>5. ASSUME NEW data \in ListData'
        PROVE  MembersTrue(live', Left', data)
    <2>1. "flag" \in DOMAIN data => data["flag"] = live["flag"]
      BY <1>1 DEF ListData, UpToDate
    <2> QED
      BY <1>1, <2>1 DEF MembersTrue
  <1> QED
    BY <1>1, <1>4, <1>5 DEF AppliedInv

LEMMA InitApplied == Init => AppliedInv
  BY DEF Init, IdleRun, AppliedInv

LEMMA StepKeepsApplied ==
    ASSUME PageInv, IdsInv, RunInv, AppliedInv, [Next]_vars
    PROVE  AppliedInv'
  BY EndsApplied, SubmitKeepsApplied, RunKeepsApplied, ConsumeKeepsApplied, ReleaseKeepsApplied,
     ListsKeepApplied, OthersKeepApplied DEF Next

(* When nothing remains the records are the goal's: the references of the  *)
(* server's records are there, so none of them is lost, and none is a temp *)
(* id.                                                                     *)
LEMMA NothingRemains == IdsInv /\ AppliedInv => AppliedAsShown
  <1> DEFINE goal == run.goal
             born == run.born
             Ref(f, x) == IF f \in {"group", "flag"} THEN IdOf(born, x) ELSE x
  <1> SUFFICES ASSUME IdsInv, AppliedInv, run.calm, run.phase = "publishing",
                      NEW k \in DraftKinds
               PROVE  /\ DOMAIN live[k] = {IdOf(born, x) : x \in DOMAIN goal[k]}
                      /\ \A x \in DOMAIN goal[k] :
                            live[k][IdOf(born, x)] =
                                [f \in DOMAIN goal[k][x] |-> Ref(f, goal[k][x][f])]
    BY DEF AppliedAsShown, IdOf
  <1>1. Remains(goal, live, {}, run.map, born, nextId)
    BY DEF AppliedInv
  <1>2. /\ \A j, y : Pending({}, j, y) = {} /\ ~Deletes({}, j, y)
        /\ \A y \in DOMAIN born : \E j \in DraftKinds : TempOf(j, y)
    BY <1>1 DEF Pending, Deletes, Remains, BornOk
  <1>3. \A j \in DraftKinds : \A x \in DOMAIN goal[j] :
           IdOf(born, x) \in DOMAIN live[j] /\ Shows(goal, born, j, live[j][IdOf(born, x)], goal[j][x])
    BY <1>1, <1>2 DEF Remains, Comes
  <1>4. \A j \in DraftKinds : \A id \in DOMAIN live[j] : \E x \in DOMAIN goal[j] : id = IdOf(born, x)
    BY <1>1, <1>2 DEF Remains, Goes
  <1> HIDE DEF goal, born
  <1>5. ASSUME NEW x \in DOMAIN goal[k]
        PROVE  live[k][IdOf(born, x)] = [f \in DOMAIN goal[k][x] |-> Ref(f, goal[k][x][f])]
    <2> DEFINE rec == live[k][IdOf(born, x)]
               r == goal[k][x]
    <2>1. IdOf(born, x) \in DOMAIN live[k] /\ Shows(goal, born, k, rec, r)
      BY <1>3
    <2>2. Hanging(live, k, rec) /\ Issues(rec, nextId)
      BY <2>1 DEF IdsInv, ServerIds, Related
    <2> HIDE DEF rec, r
    <2>3. ASSUME NEW f \in DOMAIN r
          PROVE  rec[f] = Ref(f, r[f])
      <3>1. f \in DOMAIN rec /\ ShowsField(goal, born, k, f, rec[f], r[f])
        BY <2>1, <2>3 DEF Shows
      <3>2. CASE f \notin {"group", "flag"}
        BY <3>1, <3>2 DEF ShowsField
      <3>3. CASE f \in {"group", "flag"} /\ Refers(born, rec[f], r[f])
        <4>1. rec[f] \notin DOMAIN born
          <5>1. \A j : ~TempOf(j, rec[f])
            <6>1. CASE rec[f] = NoRef
              BY <6>1, NoRefIsPlain DEF TempOf
            <6>2. CASE rec[f] # NoRef
              <7>1. rec[f] \in Issued("group", nextId) \/ rec[f] \in Issued("flag", nextId)
                BY <2>2, <3>1, <3>3, <6>2 DEF Issues, Relates
              <7> QED
                BY <7>1, IssuedNotTemp DEF DraftKinds
            <6> QED
              BY <6>1, <6>2
          <5> QED
            BY <1>2, <5>1
        <4> QED
          BY <3>3, <4>1 DEF Refers, IdOf
      <3>4. CASE /\ k = "flag" /\ f = "group" /\ rec[f] # NoRef
                 /\ Lost(goal, born, "group", rec[f])
        <4>1. rec[f] \in DOMAIN live["group"]
          BY <2>2, <3>4 DEF Hanging
        <4>2. PICK y \in DOMAIN goal["group"] : rec[f] = IdOf(born, y)
          BY <1>4, <4>1 DEF DraftKinds
        <4> QED
          BY <3>4, <4>2 DEF Lost, IdOf
      <3> QED
        BY <3>1, <3>2, <3>3, <3>4 DEF ShowsField
    <2>4. rec = [f \in DOMAIN rec |-> rec[f]] /\ DOMAIN rec = DOMAIN r
      BY <2>1, <2>2 DEF Hanging, Record, Shows
    <2>5. rec = [f \in DOMAIN r |-> Ref(f, r[f])]
      <3> HIDE DEF Ref
      <3> QED
        BY <2>3, <2>4
    <2> QED
      BY <2>5 DEF rec, r
  <1>6. DOMAIN live[k] = {IdOf(born, x) : x \in DOMAIN goal[k]}
    BY <1>3, <1>4
  <1> QED
    BY <1>5, <1>6

(* What is published is what was shown: when a run that nobody disturbed   *)
(* has applied all its drafts, the server's records are the ones the       *)
(* tables showed at the click (boot.js, publishSubmit; releases.js, the    *)
(* apply run), temp ids replaced by the ids of the records created for     *)
(* them, in whichever order the steps of a phase went and the lists came.  *)
THEOREM PublishedAsShown == Spec => []AppliedAsShown
  <1> DEFINE Inv == PageInv /\ IdsInv /\ RunInv /\ AppliedInv
  <1>1. Init => Inv
    BY InitPage, InitIds, InitRun, InitApplied
  <1>2. Inv /\ [Next]_vars => Inv'
    BY StepKeepsPage, StepKeepsIds, StepKeepsRun, StepKeepsApplied
  <1>3. Inv => AppliedAsShown
    BY NothingRemains
  <1> HIDE DEF Inv
  <1> QED
    BY <1>1, <1>2, <1>3, PTL DEF Spec
=============================================================================
