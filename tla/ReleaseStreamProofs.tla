------------------------ MODULE ReleaseStreamProofs ------------------------
(***************************************************************************)
(* What SDK clients see of the releases of one process, for any requests,  *)
(* connections, keys and channel capacity: theorems about ReleaseStream.   *)
(*                                                                         *)
(* Every step of the composition is a step of Releases or leaves it alone, *)
(* so the invariants proved of Releases hold under it (RefInv is the       *)
(* conjunction of them all).  The slots of the hub do not depend on what   *)
(* is published.                                                           *)
(***************************************************************************)
EXTENDS ReleaseStream, ReleasesProofs

-----------------------------------------------------------------------------
(* The composition takes the steps of Releases and no others. *)
LEMMA StreamStepIsStep == [StreamNext]_streamVars => [Next]_vars
  <1>1. ASSUME NEW r \in Reqs, FanOut(r)
        PROVE  [Next]_vars
    BY <1>1 DEF FanOut, FanOutStart, FanOutSend, FanOutEnd, Next, Notify
  <1>2. ASSUME NEW c \in Streams, Stream(c)
        PROVE  UNCHANGED vars
    BY <1>2 DEF Stream
  <1>3. ASSUME NEW c \in Clients, Fetch(c)
        PROVE  UNCHANGED vars
    BY <1>3 DEF Fetch, FetchAuth, FetchFresh, FetchNotModified
  <1>4. UNCHANGED streamVars => UNCHANGED vars
    BY DEF streamVars
  <1> QED
    BY <1>1, <1>2, <1>3, <1>4 DEF StreamNext, ProcessCrash, Next

LEMMA StepKeepsReleases == RefInv /\ [StreamNext]_streamVars => RefInv'
  BY StreamStepIsStep, StepKeepsRefInv

(* MaxVersionForEnv of a live environment has a value. *)
LEMMA MaxVersionExists ==
    ASSUME RefInv, NEW e \in environments
    PROVE  \E m : IsMaxVersion(e, m)
  <1>1. /\ Cardinality(RowsOf(e)) \in Nat
        /\ Versions(e) = 1..Cardinality(RowsOf(e))
    BY VersionsCounted
  <1>2. IsMaxVersion(e, Cardinality(RowsOf(e)))
    BY <1>1 DEF IsMaxVersion
  <1> QED
    BY <1>2

-----------------------------------------------------------------------------
(* What a client holds: the etag is always one of the version beside it,   *)
(* and that version, once fetched, stays in the log of its environment.    *)
Held(c) ==
    /\ cached[c].version \in Nat
    /\ \E s : cached[c].etag = EtagFor(cached[c].version, s)
    /\ cached[c].version # 0 /\ EnvOf[c] \in environments =>
         cached[c].version \in Versions(EnvOf[c])
ClientsInv ==
    /\ cached \in [Clients -> [version : Nat, etag : Nat \X Snapshot]]
    /\ \A c \in Clients : Held(c)

(* A live environment keeps its versions. *)
LEMMA VersionsKept ==
    ASSUME RefInv, [Next]_vars, NEW e \in environments'
    PROVE  e \in environments /\ RowsOf(e) \subseteq RowsOf(e)' /\ Versions(e) \subseteq Versions(e)'
  <1>0. TypeInv
    BY DEF RefInv, WinnersInv, SafeInv
  <1>1. /\ environments' \subseteq environments
        /\ \A x \in releases : x.env \in environments' => x \in releases'
    <2>1. CASE Environment
      BY <2>1, EnvironmentEffect
    <2>2. ASSUME NEW r \in Reqs, Arrive(r)
          PROVE  UNCHANGED <<releases, environments>>
      BY <1>0, <2>2, ArriveEffect
    <2>3. ASSUME NEW r \in Reqs, Handle(r) \/ Notify(r)
          PROVE  environments' = environments /\ releases \subseteq releases'
      <3>1. CASE Insert(r)
        BY <3>1 DEF Insert
      <3>2. CASE Acquire(r) \/ PublishCheckBase(r) \/ BuildFlags(r) \/ BuildRules(r)
        BY <3>2 DEF Acquire, PublishCheckBase, BuildFlags, BuildRules, Answer, Goto
      <3>3. CASE RollbackPick(r) \/ PromotePick(r) \/ PromoteCheckBase(r) \/ ReadMax(r)
        BY <3>3 DEF RollbackPick, PromotePick, PromoteCheckBase, ReadMax, CopySource, Answer, Goto
      <3>4. CASE SaveValidate(r) \/ SaveFails(r) \/ Respond(r) \/ Notify(r)
        BY <3>4 DEF SaveValidate, SaveFails, Respond, Notify, NotifyStart, NotifyEnd, Answer, Goto
      <3>5. CASE MapVersionConflict(r) \/ ReadFails(r)
        BY <3>5 DEF MapVersionConflict, ReadFails, PassOn, Answer
      <3> QED
        BY <2>3, <3>1, <3>2, <3>3, <3>4, <3>5 DEF Handle
    <2>4. ASSUME NEW p \in Procs, Crash(p)
          PROVE  UNCHANGED <<releases, environments>>
      BY <2>4 DEF Crash
    <2>5. CASE UNCHANGED vars
      BY <2>5 DEF vars
    <2> QED
      BY <2>1, <2>2, <2>3, <2>4, <2>5 DEF Next, AllAnswered
  <1> QED
    BY <1>1 DEF RowsOf, Versions

LEMMA ClientsInitially == StreamInit => ClientsInv
  <1> SUFFICES ASSUME StreamInit
               PROVE  ClientsInv
    OBVIOUS
  <1>1. cached = [c \in Clients |-> [version |-> 0, etag |-> <<0, Empty>>]]
    BY DEF StreamInit, NoRelease
  <1>2. Empty \in Snapshot
    BY DEF Empty, Snapshot
  <1> QED
    BY <1>1, <1>2 DEF ClientsInv, Held, EtagFor

(* A fetch that changes what the client holds. *)
LEMMA FetchKeepsClients ==
    ASSUME RefInv, ClientsInv, NEW c \in Clients, FetchFresh(c)
    PROVE  ClientsInv'
  <1>0. /\ UNCHANGED <<environments, releases>>
        /\ \A e : Versions(e)' = Versions(e)
    BY DEF FetchFresh, vars, Versions, RowsOf
  <1>1. ASSUME NEW h \in [version : Nat, etag : Nat \X Snapshot],
               NEW s, h.etag = EtagFor(h.version, s),
               h.version # 0 => h.version \in Versions(EnvOf[c]),
               cached' = [cached EXCEPT ![c] = h]
        PROVE  ClientsInv'
    <2>1. cached' \in [Clients -> [version : Nat, etag : Nat \X Snapshot]]
      BY <1>1 DEF ClientsInv
    <2>2. ASSUME NEW d \in Clients PROVE Held(d)'
      <3>1. CASE d = c
        BY <1>0, <1>1, <3>1 DEF ClientsInv, Held
      <3>2. CASE d # c
        BY <1>0, <1>1, <3>2 DEF ClientsInv, Held
      <3> QED
        BY <3>1, <3>2
    <2> QED
      BY <2>1, <2>2 DEF ClientsInv
  <1>2. CASE cached' = [cached EXCEPT ![c] = NoRelease]
    <2>1. /\ NoRelease \in [version : Nat, etag : Nat \X Snapshot]
          /\ NoRelease.etag = EtagFor(NoRelease.version, Empty)
          /\ NoRelease.version = 0
      BY DEF NoRelease, EtagFor, Empty, Snapshot
    <2> QED
      BY <1>1, <1>2, <2>1
  <1>3. ASSUME NEW x \in LatestRelease(EnvOf[c]),
               cached' = [cached EXCEPT ![c] = [version |-> x.version, etag |-> x.etag]]
        PROVE  ClientsInv'
    <2>1. /\ x \in releases /\ x.version \in Versions(EnvOf[c])
      BY <1>3 DEF LatestRelease, RowsOf, Versions
    <2>2. /\ x.version \in Nat /\ x.snapshot \in Snapshot
          /\ x = ReleaseRow(x.env, x.version, x.snapshot, x.author)
      BY <2>1 DEF RefInv, WinnersInv, SafeInv, TypeInv, TypeOK
    <2>3. x.etag = EtagFor(x.version, x.snapshot)
      BY <2>2 DEF ReleaseRow
    <2> DEFINE h == [version |-> x.version, etag |-> x.etag]
    <2>4. /\ h \in [version : Nat, etag : Nat \X Snapshot]
          /\ h.version = x.version /\ h.etag = x.etag
      BY <2>2, <2>3 DEF EtagFor
    <2>5. cached' = [cached EXCEPT ![c] = h]
      BY <1>3
    <2> HIDE DEF h
    <2> QED
      BY <1>1, <2>1, <2>3, <2>4, <2>5
  <1> QED
    BY <1>2, <1>3 DEF FetchFresh

(* Nothing but a fetch changes what a client holds. *)
LEMMA CachedChangesByFetch ==
    ASSUME [StreamNext]_streamVars
    PROVE  UNCHANGED cached \/ \E c \in Clients : FetchFresh(c)
  <1>1. ASSUME NEW r \in Reqs, FanOut(r) PROVE UNCHANGED cached
    BY <1>1 DEF FanOut, FanOutStart, FanOutSend, FanOutEnd, clientVars
  <1>2. ASSUME NEW p \in Procs, ProcessCrash(p) PROVE UNCHANGED cached
    BY <1>2 DEF ProcessCrash, clientVars
  <1>3. ASSUME NEW c \in Streams, Stream(c) PROVE UNCHANGED cached
    BY <1>3 DEF Stream
  <1>4. ASSUME NEW c \in Clients, Fetch(c) PROVE UNCHANGED cached \/ FetchFresh(c)
    BY <1>4 DEF Fetch, FetchAuth, FetchNotModified
  <1>5. Quiet \/ UNCHANGED streamVars => UNCHANGED cached
    BY DEF Quiet, streamVars, clientVars
  <1> QED
    BY <1>1, <1>2, <1>3, <1>4, <1>5 DEF StreamNext

LEMMA StepKeepsClients ==
    RefInv /\ ClientsInv /\ [StreamNext]_streamVars => ClientsInv'
  <1> SUFFICES ASSUME RefInv, ClientsInv, [StreamNext]_streamVars
               PROVE  ClientsInv'
    OBVIOUS
  <1>1. CASE UNCHANGED cached
    <2>1. [Next]_vars
      BY StreamStepIsStep
    <2>2. ASSUME NEW c \in Clients PROVE Held(c)'
      BY <1>1, <2>1, VersionsKept DEF ClientsInv, Held
    <2> QED
      BY <1>1, <2>2 DEF ClientsInv
  <1>2. CASE \E c \in Clients : FetchFresh(c)
    BY <1>2, FetchKeepsClients
  <1>3. UNCHANGED cached \/ \E c \in Clients : FetchFresh(c)
    BY CachedChangesByFetch
  <1> QED
    BY <1>1, <1>2, <1>3

-----------------------------------------------------------------------------
(* A 304 confirms the newest version of the environment: an etag names its *)
(* version, so a client whose etag matches the newest release holds that   *)
(* version, even when a rollback republished the very same bytes.          *)
THEOREM ConfirmsTheNewest == StreamSpec => []NotModifiedIsCurrent
  <1>1. StreamInit => RefInv /\ ClientsInv
    BY RefInitially, ClientsInitially DEF StreamInit
  <1>2. RefInv /\ ClientsInv /\ [StreamNext]_streamVars => (RefInv /\ ClientsInv)'
    BY StepKeepsReleases, StepKeepsClients
  <1>3. RefInv /\ ClientsInv => NotModifiedIsCurrent
    <2> SUFFICES ASSUME RefInv, ClientsInv, NEW c \in Clients, NEW x \in LatestRelease(EnvOf[c]),
                        EtagMatches(cached[c].etag, x.etag)
                 PROVE  cached[c].version = x.version
      BY DEF NotModifiedIsCurrent
    <2>1. x = ReleaseRow(x.env, x.version, x.snapshot, x.author)
      BY DEF LatestRelease, RowsOf, RefInv, WinnersInv, SafeInv, TypeInv, TypeOK
    <2>2. x.etag = <<x.version, x.snapshot>>
      BY <2>1 DEF ReleaseRow, EtagFor
    <2> QED
      BY <2>2 DEF ClientsInv, Held, EtagFor, EtagMatches
  <1> QED
    BY <1>1, <1>2, <1>3, PTL DEF StreamSpec

(* A client never goes back to an older version while its environment      *)
(* lives: what it holds stays in the log, and a fetch takes the maximum.   *)
THEOREM NeverGoesBack == StreamSpec => ClientsMonotonic
  <1> DEFINE NotBack == \A c \in Clients : EnvOf[c] \in environments =>
                            cached'[c].version >= cached[c].version
  <1>1. StreamInit => RefInv /\ ClientsInv
    BY RefInitially, ClientsInitially DEF StreamInit
  <1>2. RefInv /\ ClientsInv /\ [StreamNext]_streamVars => (RefInv /\ ClientsInv)'
    BY StepKeepsReleases, StepKeepsClients
  <1>3. ASSUME RefInv, ClientsInv, [StreamNext]_streamVars
        PROVE  [NotBack]_streamVars
    <2> SUFFICES ASSUME NEW c \in Clients, EnvOf[c] \in environments
                 PROVE  cached'[c].version >= cached[c].version
      OBVIOUS
    <2>0. cached[c].version \in Nat
      BY <1>3 DEF ClientsInv, Held
    <2>1. CASE UNCHANGED cached
      BY <2>0, <2>1
    <2>2. ASSUME NEW d \in Clients, FetchFresh(d)
          PROVE  cached'[c].version >= cached[c].version
      <3>1. CASE d # c
        BY <1>3, <2>0, <2>2, <3>1 DEF FetchFresh, ClientsInv
      <3>2. CASE d = c /\ LatestRelease(EnvOf[c]) = {}
        <4>1. PICK m : IsMaxVersion(EnvOf[c], m)
          BY <1>3, MaxVersionExists
        <4>2. m \notin Versions(EnvOf[c])
          BY <3>2, <4>1 DEF LatestRelease, Versions
        <4>3. \A v \in Versions(EnvOf[c]) : v <= 0
          BY <4>1, <4>2 DEF IsMaxVersion
        <4>4. cached[c].version = 0
          BY <1>3, <2>0, <4>3 DEF ClientsInv, Held
        <4>5. cached' = [cached EXCEPT ![c] = NoRelease]
          BY <2>2, <3>2 DEF FetchFresh
        <4>6. cached'[c].version = 0
          BY <1>3, <4>5 DEF ClientsInv, NoRelease
        <4> QED
          BY <4>4, <4>6
      <3>3. CASE d = c /\ LatestRelease(EnvOf[c]) # {}
        <4>1. PICK x \in LatestRelease(EnvOf[c]) :
                cached' = [cached EXCEPT ![c] = [version |-> x.version, etag |-> x.etag]]
          BY <2>2, <3>3 DEF FetchFresh
        <4>2. cached'[c].version = x.version
          BY <1>3, <4>1 DEF ClientsInv
        <4>3. \A v \in Versions(EnvOf[c]) : v <= x.version
          BY DEF LatestRelease, IsMaxVersion
        <4>4. x.version \in Nat
          BY <1>3 DEF LatestRelease, RowsOf, RefInv, WinnersInv, SafeInv, TypeInv, TypeOK
        <4> QED
          BY <1>3, <2>0, <4>2, <4>3, <4>4 DEF ClientsInv, Held
      <3> QED
        BY <3>1, <3>2, <3>3
    <2>3. UNCHANGED cached \/ \E d \in Clients : FetchFresh(d)
      BY <1>3, CachedChangesByFetch
    <2> QED
      BY <2>1, <2>2, <2>3
  <1> QED
    BY <1>1, <1>2, <1>3, PTL DEF StreamSpec, ClientsMonotonic

-----------------------------------------------------------------------------
(* What a connection has seen, and the sends a notifier still has to make. *)
SeenIn(s) == {s[i] : i \in 1..Len(s)}
InOrder(s) == \A i, j \in 1..Len(s) : i < j => s[i].version < s[j].version
Seen(c) == SeenIn(Arriving(c))
Behind(c, v) == \A u \in Seen(c) : u.version < v

Told == [version : Nat, etag : Nat \X Snapshot, env : Envs]
Committed(u) == u.env \in environments => \E x \in Picked(u.env, u.version) : x.etag = u.etag

HubTypes ==
    /\ conn \in [Streams -> {"new", "refused", "closed"} \union Counted]
    /\ subs \in [StreamEnvs -> SUBSET Streams]
    /\ chan \in [Streams -> Seq(Told)]
    /\ received \in [Streams -> Seq(Told)]
    /\ dropped \in [Streams -> SUBSET Told]
    /\ sending \in [Reqs -> SUBSET [to : Streams, update : Told]]
    /\ since = [c \in Streams |-> since[c]]

(* An open connection is in the hub, under its own environment. *)
HubHolds ==
    /\ \A c \in Streams : conn[c] = "open" => c \in subs[EnvOf[c]]
    /\ \A e \in StreamEnvs : \A c \in subs[e] : EnvOf[c] = e

(* Sends are left only while their request fans out, and carry its row.    *)
Pending ==
    \A r \in Reqs : \A s \in sending[r] :
        pc[r] = "notifying" /\ s.update = Update(r) /\ EnvOf[s.to] = task[r].env

(* A handler that has chosen its version, in an environment that lives (or *)
(* did when the row was validated), is ahead of all that anybody was told. *)
Choosing(r) ==
    /\ pc[r] \in ChosenPCs \union {"notify"}
    /\ pc[r] \in {"insert", "notify"} \/ task[r].env \in environments
Ahead ==
    \A r \in Reqs, c \in Streams :
        Choosing(r) /\ task[r].env = EnvOf[c] => Behind(c, want[r])
SendsAhead == \A r \in Reqs : \A s \in sending[r] : Behind(s.to, want[r])

(* NoSilentGap, and what becomes of it while the fan-out is under way. *)
Reached(r, c) ==
    \/ Update(r) \in dropped[c]
    \/ Update(r) \in Seen(c)
    \/ [to |-> c, update |-> Update(r)] \in sending[r]
Misses(r, c) ==
    /\ conn[c] = "open" /\ pc[r] \in {"notifying", "respond"}
    /\ task[r].env = EnvOf[c] /\ task[r].env \in environments
    /\ want[r] > since[c]
NoGapYet == \A r \in Reqs, c \in Streams : Misses(r, c) => Reached(r, c)

StreamsInv ==
    /\ HubTypes /\ HubHolds /\ Pending
    /\ UpdatesCommitted /\ UpdatesInOrder
    /\ Ahead /\ SendsAhead /\ NoGapYet

-----------------------------------------------------------------------------
(* Queues. *)
LEMMA AppendSeen ==
    ASSUME NEW S, NEW s \in Seq(S), NEW u \in S
    PROVE  SeenIn(Append(s, u)) = SeenIn(s) \union {u}
  <1>1. /\ Append(s, u) \in Seq(S) /\ Len(Append(s, u)) = Len(s) + 1 /\ Len(s) \in Nat
        /\ \A i \in 1..Len(s) : Append(s, u)[i] = s[i]
        /\ Append(s, u)[Len(s) + 1] = u
    BY AppendProperties
  <1>2. 1..(Len(s) + 1) = 1..Len(s) \union {Len(s) + 1}
    BY <1>1
  <1> QED
    BY <1>1, <1>2 DEF SeenIn

LEMMA AppendOrdered ==
    ASSUME NEW s \in Seq(Told), NEW u \in Told, InOrder(s),
           \A x \in SeenIn(s) : x.version < u.version
    PROVE  InOrder(Append(s, u))
  <1>1. /\ Len(Append(s, u)) = Len(s) + 1 /\ Len(s) \in Nat
        /\ \A i \in 1..Len(s) : Append(s, u)[i] = s[i]
        /\ Append(s, u)[Len(s) + 1] = u
    BY AppendProperties
  <1> SUFFICES ASSUME NEW i \in 1..(Len(s) + 1), NEW j \in 1..(Len(s) + 1), i < j
               PROVE  Append(s, u)[i].version < Append(s, u)[j].version
    BY <1>1 DEF InOrder
  <1>2. i \in 1..Len(s)
    BY <1>1
  <1>3. CASE j \in 1..Len(s)
    BY <1>1, <1>2, <1>3 DEF InOrder
  <1>4. CASE j = Len(s) + 1
    BY <1>1, <1>2, <1>4 DEF SeenIn
  <1> QED
    BY <1>1, <1>3, <1>4

LEMMA PrefixOrdered ==
    ASSUME NEW s \in Seq(Told), NEW t \in Seq(Told)
    PROVE  /\ InOrder(s \o t) => InOrder(s)
           /\ SeenIn(s) \subseteq SeenIn(s \o t)
  <1>1. /\ Len(s \o t) = Len(s) + Len(t) /\ Len(s) \in Nat /\ Len(t) \in Nat
        /\ \A i \in 1..Len(s) : (s \o t)[i] = s[i]
    BY ConcatProperties
  <1>2. 1..Len(s) \subseteq 1..(Len(s) + Len(t))
    BY <1>1
  <1> QED
    BY <1>1, <1>2 DEF InOrder, SeenIn

LEMMA ForwardMoves ==
    ASSUME NEW s \in Seq(Told), NEW t \in Seq(Told), t # <<>>
    PROVE  Append(s, Head(t)) \o Tail(t) = s \o t
  <1>1. Head(t) \in Told /\ Tail(t) \in Seq(Told) /\ t = <<Head(t)>> \o Tail(t)
    BY HeadTailProperties
  <1>2. Append(s, Head(t)) = s \o <<Head(t)>>
    BY <1>1, AppendIsConcat
  <1>3. <<Head(t)>> \in Seq(Told)
    BY <1>1
  <1>4. (s \o <<Head(t)>>) \o Tail(t) = s \o (<<Head(t)>> \o Tail(t))
    BY <1>1, <1>3, ConcatAssociative
  <1> QED
    BY <1>1, <1>2, <1>4

LEMMA SendQueues ==
    ASSUME NEW s \in Seq(Told), NEW t \in Seq(Told), NEW u \in Told
    PROVE  s \o Append(t, u) = Append(s \o t, u)
  <1>1. <<u>> \in Seq(Told) /\ s \o t \in Seq(Told)
    BY ConcatProperties
  <1>2. Append(t, u) = t \o <<u>> /\ Append(s \o t, u) = (s \o t) \o <<u>>
    BY <1>1, AppendIsConcat
  <1> QED
    BY <1>1, <1>2, ConcatAssociative

-----------------------------------------------------------------------------
(* One process: its mutex admits one handler. *)
LEMMA OneHandler ==
    ASSUME RefInv, NEW r \in Reqs, NEW q \in Reqs, pc[r] \in HoldingPCs, pc[q] \in HoldingPCs
    PROVE  r = q
  <1>1. task[r].proc \in Procs /\ task[q].proc \in Procs
    BY DEF RefInv, WinnersInv, SafeInv, TypeInv, TypeOK, HoldingPCs, Task
  <1> QED
    BY <1>1, OneProcess DEF RefInv, WinnersInv, SafeInv, LockHeld

(* What a notifier announces is in the collection as announced. *)
LEMMA UpdateCommitted ==
    ASSUME RefInv, NEW r \in Reqs, pc[r] \in WrittenPCs
    PROVE  /\ Update(r) \in Told /\ Committed(Update(r)) /\ Update(r).version = want[r]
           /\ Update(r).env = task[r].env /\ task[r].env \in Envs
           /\ task[r].env \in environments => want[r] \in Versions(task[r].env)
  <1>1. task[r] \in Task /\ want[r] \in Nat /\ built[r] \in Snapshot
    BY DEF RefInv, WinnersInv, SafeInv, TypeInv, TypeOK, WrittenPCs
  <1>2. Update(r) \in Told /\ Update(r).version = want[r] /\ Update(r).env = task[r].env
    BY <1>1 DEF Update, Told, EtagFor, Task
  <1>3. ASSUME task[r].env \in environments
        PROVE  \E x \in Picked(task[r].env, want[r]) : x.etag = Update(r).etag
    <2> DEFINE row == ReleaseRow(task[r].env, want[r], built[r], r)
    <2>1. row \in releases
      BY <1>3 DEF RefInv, WinnersInv, SafeInv, Answers, WrittenAfter, Mine
    <2>2. /\ row.env = task[r].env /\ row.version = want[r]
          /\ row.etag = Update(r).etag
      BY DEF ReleaseRow, Update
    <2> HIDE DEF row
    <2> QED
      BY <2>1, <2>2 DEF Picked, RowsOf
  <1> QED
    BY <1>1, <1>2, <1>3 DEF Committed, Picked, Versions, Task

LEMMA CommittedKept ==
    ASSUME RefInv, [Next]_vars, NEW u, Committed(u)
    PROVE  Committed(u)'
  BY VersionsKept DEF Committed, Picked

(* A version somebody was told of is in the log of a live environment. *)
LEMMA SeenIsLogged ==
    ASSUME StreamsInv, NEW c \in Streams, EnvOf[c] \in environments, NEW u \in Seen(c)
    PROVE  u.version \in Versions(EnvOf[c])
  BY DEF StreamsInv, UpdatesCommitted, Seen, SeenIn, Picked, Versions, RowsOf

LEMMA SeenTyped ==
    ASSUME HubTypes, NEW c \in Streams
    PROVE  /\ Arriving(c) \in Seq(Told)
           /\ \A u \in Seen(c) : u \in Told
  <1>1. Arriving(c) \in Seq(Told)
    BY ConcatProperties DEF HubTypes, Arriving
  <1> QED
    BY <1>1, ElementOfSeq DEF Seen, SeenIn

(* The parts about what was told, as statements about sets. *)
LEMMA CommittedBySets ==
    UpdatesCommitted <=>
        \A c \in Streams : \A u \in Seen(c) : u.env = EnvOf[c] /\ Committed(u)
  BY DEF UpdatesCommitted, Seen, SeenIn, Committed

LEMMA CommittedBySetsNext ==
    UpdatesCommitted' <=>
        \A c \in Streams : \A u \in Seen(c)' : u.env = EnvOf[c] /\ Committed(u)'
  BY DEF UpdatesCommitted, Seen, SeenIn, Committed

-----------------------------------------------------------------------------
(* What a handler does outside the fan-out. *)
LEMMA RequestEffect ==
    ASSUME TypeInv, NEW r \in Reqs, Arrive(r) \/ Handle(r)
    PROVE  /\ OthersKeep(r) /\ environments' = environments
           /\ pc[r] # "notifying" /\ pc'[r] \notin {"notifying", "respond"}
           /\ Choosing(r)' =>
                \/ Choosing(r) /\ task'[r] = task[r] /\ want'[r] = want[r]
                \/ /\ task'[r] = task[r] /\ task[r].env \in environments
                   /\ \E m : IsMaxVersion(task[r].env, m) /\ want'[r] = NextVersion(m)
  <1> DEFINE Effect == /\ OthersKeep(r) /\ environments' = environments
                       /\ pc[r] # "notifying" /\ pc'[r] \notin {"notifying", "respond"}
                       /\ Choosing(r)' =>
                            \/ Choosing(r) /\ task'[r] = task[r] /\ want'[r] = want[r]
                            \/ /\ task'[r] = task[r] /\ task[r].env \in environments
                               /\ \E m : IsMaxVersion(task[r].env, m) /\ want'[r] = NextVersion(m)
  <1> USE DEF ChosenPCs
  <1>1. CASE Arrive(r)
    BY <1>1, ArriveEffect DEF Choosing
  <1>2. ASSUME NEW code, Answer(r, code), pc[r] # "notifying"
        PROVE  Effect
    BY <1>2, AnswerEffect DEF Choosing
  <1>3. ASSUME NEW next, Goto(r, next), pc[r] # "notifying",
               \A q \in Reqs \ {r} :
                   task'[q] = task[q] /\ built'[q] = built[q] /\ want'[q] = want[q]
        PROVE  /\ OthersKeep(r) /\ environments' = environments
               /\ pc'[r] = next
    BY <1>3, GotoEffect
  <1>4. CASE Acquire(r)
    BY <1>4 DEF Acquire, local, TypeInv, TypeOK, OthersKeep, Choosing
  <1>5. CASE PublishCheckBase(r)
    <2>1. CASE \E code : Answer(r, code)
      BY <1>2, <1>5, <2>1 DEF PublishCheckBase
    <2>2. ASSUME NEW m, IsMaxVersion(task[r].env, m),
                 want' = [want EXCEPT ![r] = NextVersion(m)], Goto(r, "flags"),
                 UNCHANGED <<task, built>>
          PROVE  Effect
      <3>1. want'[r] = NextVersion(m) /\ \A q \in Reqs \ {r} : want'[q] = want[q]
        BY <2>2 DEF TypeInv, TypeOK
      <3> QED
        BY <1>3, <1>5, <2>2, <3>1 DEF PublishCheckBase, Choosing
    <2> QED
      BY <1>5, <2>1, <2>2 DEF PublishCheckBase
  <1>6. CASE BuildFlags(r) \/ BuildRules(r)
    <2>1. CASE \E code : Answer(r, code)
      BY <1>2, <1>6, <2>1 DEF BuildFlags, BuildRules
    <2>2. ASSUME NEW next \in {"rules", "save"}, Goto(r, next), UNCHANGED <<task, want>>,
                 \A q \in Reqs \ {r} : built'[q] = built[q]
          PROVE  Effect
      BY <1>3, <1>6, <2>2 DEF BuildFlags, BuildRules, Choosing
    <2>3. BuildFlags(r) => Goto(r, "rules") /\ UNCHANGED <<task, want>>
                           /\ \A q \in Reqs \ {r} : built'[q] = built[q]
      BY DEF BuildFlags, TypeInv, TypeOK
    <2>4. BuildRules(r) => \/ \E code : Answer(r, code)
                           \/ /\ Goto(r, "save") /\ UNCHANGED <<task, want>>
                              /\ \A q \in Reqs \ {r} : built'[q] = built[q]
      BY DEF BuildRules, TypeInv, TypeOK
    <2> QED
      BY <1>6, <2>1, <2>2, <2>3, <2>4
  <1>7. CASE RollbackPick(r) \/ PromotePick(r) \/ PromoteCheckBase(r)
    <2>1. CASE \E code : Answer(r, code)
      BY <1>2, <1>7, <2>1 DEF RollbackPick, PromotePick, PromoteCheckBase
    <2>2. ASSUME NEW next \in {"max", "destBase"}, Goto(r, next), UNCHANGED <<task, want>>,
                 \A q \in Reqs \ {r} : built'[q] = built[q]
          PROVE  Effect
      BY <1>3, <1>7, <2>2 DEF RollbackPick, PromotePick, PromoteCheckBase, Choosing
    <2>3. ASSUME NEW x, NEW next, CopySource(r, x, next)
          PROVE  /\ Goto(r, next) /\ UNCHANGED <<task, want>>
                 /\ \A q \in Reqs \ {r} : built'[q] = built[q]
      BY <2>3 DEF CopySource, TypeInv, TypeOK
    <2>4. CASE RollbackPick(r) \/ PromotePick(r)
      BY <2>1, <2>2, <2>3, <2>4 DEF RollbackPick, PromotePick
    <2>5. CASE PromoteCheckBase(r)
      BY <2>1, <2>2, <2>5 DEF PromoteCheckBase, local
    <2> QED
      BY <1>7, <2>4, <2>5
  <1>8. CASE ReadMax(r)
    <2>1. PICK m : IsMaxVersion(task[r].env, m) /\ want' = [want EXCEPT ![r] = NextVersion(m)]
      BY <1>8 DEF ReadMax
    <2>2. want'[r] = NextVersion(m) /\ \A q \in Reqs \ {r} : want'[q] = want[q]
      BY <2>1 DEF TypeInv, TypeOK
    <2> QED
      BY <1>3, <1>8, <2>1, <2>2 DEF ReadMax, Choosing
  <1>9. CASE SaveValidate(r)
    BY <1>3, <1>9 DEF SaveValidate, local, Choosing
  <1>10. CASE SaveFails(r)
    BY <1>3, <1>10 DEF SaveFails, local, Choosing
  <1>11. CASE Insert(r)
    BY <1>11 DEF Insert, local, TypeInv, TypeOK, OthersKeep, Choosing
  <1>12. CASE MapVersionConflict(r) \/ ReadFails(r) \/ Respond(r)
    BY <1>2, <1>12 DEF MapVersionConflict, ReadFails, PassOn, Respond
  <1> QED
    BY <1>1, <1>4, <1>5, <1>6, <1>7, <1>8, <1>9, <1>10, <1>11, <1>12 DEF Handle

-----------------------------------------------------------------------------
(* Steps that leave hub and connections alone: requests outside their      *)
(* fan-out, deletes and edits, and fetches.                                *)
LEMMA HubUntouched ==
    ASSUME RefInv, StreamsInv, [Next]_vars, UNCHANGED <<hubVars, since>>,
           \A r \in Reqs :
               /\ sending[r] # {} => pc'[r] = pc[r]
               /\ pc'[r] \in {"notifying", "respond"} =>
                    /\ pc[r] \in {"notifying", "respond"} /\ task'[r] = task[r]
                    /\ want'[r] = want[r] /\ built'[r] = built[r]
               /\ Choosing(r)' =>
                    \/ Choosing(r) /\ task'[r] = task[r] /\ want'[r] = want[r]
                    \/ /\ task'[r] = task[r] /\ task[r].env \in environments
                       /\ \E m : IsMaxVersion(task[r].env, m) /\ want'[r] = NextVersion(m)
    PROVE  StreamsInv'
  <1> USE DEF StreamsInv
  <1>0. TypeOK /\ environments \subseteq Envs
    BY DEF RefInv, WinnersInv, SafeInv, TypeInv, TypeOK
  <1>1. UNCHANGED <<conn, subs, chan, received, dropped, sending, since>>
    BY DEF hubVars
  <1>2. \A c : Arriving(c)' = Arriving(c) /\ Seen(c)' = Seen(c)
    BY <1>1 DEF Arriving, Seen
  <1>3. HubTypes' /\ HubHolds'
    BY <1>1 DEF HubTypes, HubHolds
  <1>4. ASSUME NEW r \in Reqs, pc'[r] \in {"notifying", "respond"}
        PROVE  Update(r)' = Update(r)
    BY <1>4 DEF Update
  <1>5. Pending'
    <2> SUFFICES ASSUME NEW r \in Reqs, NEW s \in sending[r]
                 PROVE  /\ pc'[r] = "notifying" /\ s.update = Update(r)'
                        /\ EnvOf[s.to] = task'[r].env
      BY <1>1 DEF Pending
    <2>1. pc'[r] = "notifying"
      BY DEF Pending
    <2> QED
      BY <1>4, <2>1 DEF Pending
  <1>6. UpdatesCommitted'
    <2> SUFFICES ASSUME NEW c \in Streams, NEW u \in Seen(c)
                 PROVE  u.env = EnvOf[c] /\ Committed(u)'
      BY <1>2, CommittedBySetsNext
    <2> QED
      BY CommittedBySets, CommittedKept
  <1>7. UpdatesInOrder'
    BY <1>2 DEF UpdatesInOrder
  <1>8. Ahead'
    <2> SUFFICES ASSUME NEW r \in Reqs, NEW c \in Streams, Choosing(r)', task'[r].env = EnvOf[c]
                 PROVE  Behind(c, want'[r])
      BY <1>2 DEF Ahead, Behind
    <2>1. CASE Choosing(r) /\ task'[r] = task[r] /\ want'[r] = want[r]
      BY <2>1 DEF Ahead
    <2>2. ASSUME task'[r] = task[r], task[r].env \in environments, NEW m,
                 IsMaxVersion(task[r].env, m), want'[r] = NextVersion(m)
          PROVE  Behind(c, want'[r])
      <3>1. \A u \in Seen(c) : u.version \in Versions(task[r].env) /\ u.version \in Nat
        BY <2>2, SeenIsLogged, SeenTyped DEF Told
      <3>2. m \in Nat /\ want'[r] = m + 1
        BY <1>0, <2>2, MaxVersionIsNat DEF IsMaxVersion, NextVersion
      <3>3. \A u \in Seen(c) : u.version <= m
        BY <2>2, <3>1 DEF IsMaxVersion
      <3> QED
        BY <3>1, <3>2, <3>3 DEF Behind
    <2> QED
      BY <2>1, <2>2
  <1>9. SendsAhead'
    <2> SUFFICES ASSUME NEW r \in Reqs, NEW s \in sending[r]
                 PROVE  Behind(s.to, want'[r])
      BY <1>1, <1>2 DEF SendsAhead, Behind
    <2>1. pc'[r] = "notifying"
      BY DEF Pending
    <2> QED
      BY <2>1 DEF SendsAhead
  <1>10. NoGapYet'
    <2> SUFFICES ASSUME NEW r \in Reqs, NEW c \in Streams, Misses(r, c)'
                 PROVE  Reached(r, c)'
      BY DEF NoGapYet
    <2>1. pc'[r] \in {"notifying", "respond"} /\ task'[r].env \in environments'
      BY DEF Misses
    <2>2. environments' \subseteq environments
      BY VersionsKept
    <2>3. Misses(r, c)
      BY <1>1, <2>1, <2>2 DEF Misses
    <2> QED
      BY <1>1, <1>2, <1>4, <2>1, <2>3 DEF NoGapYet, Reached
  <1> QED
    BY <1>3, <1>5, <1>6, <1>7, <1>8, <1>9, <1>10

LEMMA RequestKeepsStreams ==
    ASSUME RefInv, StreamsInv, NEW r \in Reqs, Arrive(r) \/ Handle(r), Quiet
    PROVE  StreamsInv'
  <1>1. TypeInv /\ [Next]_vars
    BY DEF RefInv, WinnersInv, SafeInv, Next
  <1>2. UNCHANGED <<hubVars, since>>
    BY DEF Quiet, clientVars
  <1>3. /\ OthersKeep(r) /\ environments' = environments
        /\ pc[r] # "notifying" /\ pc'[r] \notin {"notifying", "respond"}
        /\ Choosing(r)' =>
             \/ Choosing(r) /\ task'[r] = task[r] /\ want'[r] = want[r]
             \/ /\ task'[r] = task[r] /\ task[r].env \in environments
                /\ \E m : IsMaxVersion(task[r].env, m) /\ want'[r] = NextVersion(m)
    BY <1>1, RequestEffect
  <1>4. sending[r] = {}
    BY <1>3 DEF StreamsInv, Pending
  <1>5. \A q \in Reqs \ {r} :
          /\ pc'[q] = pc[q] /\ task'[q] = task[q] /\ want'[q] = want[q] /\ built'[q] = built[q]
          /\ Choosing(q)' => Choosing(q)
    BY <1>3 DEF OthersKeep, Choosing
  <1> QED
    BY <1>1, <1>2, <1>3, <1>4, <1>5, HubUntouched

LEMMA OutsideKeepsStreams ==
    ASSUME RefInv, StreamsInv, Environment \/ UNCHANGED vars, UNCHANGED <<hubVars, since>>
    PROVE  StreamsInv'
  <1>1. [Next]_vars
    BY DEF Next
  <1>2. /\ UNCHANGED <<pc, task, built, want>>
        /\ environments' \subseteq environments
    BY EnvironmentEffect DEF vars
  <1>3. \A q \in Reqs : Choosing(q)' => Choosing(q)
    BY <1>2 DEF Choosing
  <1> QED
    BY <1>1, <1>2, <1>3, HubUntouched

(* The process dies: what was written to the clients is all that is left. *)
LEMMA CrashKeepsStreams ==
    ASSUME RefInv, StreamsInv, NEW p \in Procs, ProcessCrash(p)
    PROVE  StreamsInv'
  <1> USE DEF StreamsInv
  <1>1. /\ conn' = [c \in Streams |-> IF conn[c] = "new" THEN "new" ELSE "closed"]
        /\ subs' = [e \in StreamEnvs |-> {}]
        /\ chan' = [c \in Streams |-> <<>>]
        /\ sending' = [n \in Reqs |-> {}]
        /\ UNCHANGED <<received, dropped, since>>
    BY HandlersNotify DEF ProcessCrash, HubCrash, clientVars
  <1>2. /\ \A r \in Reqs : pc'[r] \in {pc[r], "done"}
        /\ UNCHANGED <<task, built, want, environments>>
        /\ [Next]_vars
    BY DEF ProcessCrash, Crash, local, Next
  <1>3. HubTypes'
    <2>1. conn' \in [Streams -> {"new", "refused", "closed"} \union Counted]
      BY <1>1
    <2>2. subs' \in [StreamEnvs -> SUBSET Streams]
      BY <1>1
    <2>3. chan' \in [Streams -> Seq(Told)]
      BY <1>1, EmptySeq
    <2>4. sending' \in [Reqs -> SUBSET [to : Streams, update : Told]]
      BY <1>1
    <2> QED
      BY <1>1, <2>1, <2>2, <2>3, <2>4 DEF HubTypes
  <1>4. HubHolds'
    BY <1>1 DEF HubHolds
  <1>5. ASSUME NEW c \in Streams
        PROVE  Seen(c)' \subseteq Seen(c) /\ InOrder(Arriving(c)')
    <2>1. Arriving(c)' = received[c]
      BY <1>1, ConcatEmptySeq DEF Arriving, HubTypes
    <2>2. InOrder(Arriving(c))
      BY DEF UpdatesInOrder, InOrder
    <2> QED
      BY <2>1, <2>2, PrefixOrdered DEF HubTypes, Arriving, Seen
  <1>6. UpdatesCommitted'
    BY <1>2, <1>5, CommittedBySets, CommittedBySetsNext, CommittedKept
  <1>7. UpdatesInOrder'
    BY <1>5 DEF UpdatesInOrder, InOrder
  <1>8. Ahead'
    BY <1>2, <1>5 DEF Ahead, Behind, Choosing, ChosenPCs
  <1>9. Pending' /\ SendsAhead'
    BY <1>1 DEF Pending, SendsAhead
  <1>10. NoGapYet'
    BY <1>1 DEF NoGapYet, Misses
  <1> QED
    BY <1>3, <1>4, <1>6, <1>7, <1>8, <1>9, <1>10

-----------------------------------------------------------------------------
(* The fan-out. *)
LEMMA StartKeepsStreams ==
    ASSUME RefInv, StreamsInv, NEW r \in Reqs, FanOutStart(r)
    PROVE  StreamsInv'
  <1> USE DEF StreamsInv
  <1> DEFINE to == IF task[r].env \in StreamEnvs THEN subs[task[r].env] ELSE {}
             sends == {[to |-> c, update |-> Update(r)] : c \in to}
  <1>0. TypeInv
    BY DEF RefInv, WinnersInv, SafeInv
  <1>1. /\ pc[r] = "notify" /\ pc' = [pc EXCEPT ![r] = "notifying"]
        /\ UNCHANGED <<task, built, want, status, releases, environments>>
        /\ [Next]_vars
    BY DEF FanOutStart, NotifyStart, Goto, local, Next, Notify
  <1>2. /\ sending' = [sending EXCEPT ![r] = sends]
        /\ UNCHANGED <<conn, subs, chan, received, dropped, since>>
    BY DEF FanOutStart, CopySubscribers, clientVars
  <1>3. /\ Update(r) \in Told /\ Committed(Update(r)) /\ Update(r).version = want[r]
        /\ Update(r).env = task[r].env
    BY <1>1, UpdateCommitted DEF WrittenPCs
  <1>4. /\ \A q : Update(q)' = Update(q)
        /\ \A c : Arriving(c)' = Arriving(c) /\ Seen(c)' = Seen(c)
        /\ \A u : Committed(u)' = Committed(u)
    BY <1>1, <1>2 DEF Update, Arriving, Seen, Committed, Picked, RowsOf
  <1>5. \A q \in Reqs : pc'[q] = IF q = r THEN "notifying" ELSE pc[q]
    BY <1>0, <1>1 DEF TypeInv, TypeOK
  <1>6. to \subseteq Streams /\ \A c \in to : EnvOf[c] = task[r].env
    BY DEF HubTypes, HubHolds
  <1>7. /\ \A q \in Reqs : sending'[q] = IF q = r THEN sends ELSE sending[q]
        /\ \A s \in sends : s.update = Update(r) /\ s.to \in to
        /\ \A c \in to : [to |-> c, update |-> Update(r)] \in sends
        /\ sends \in SUBSET [to : Streams, update : Told]
    BY <1>2, <1>3, <1>6 DEF HubTypes
  <1> HIDE DEF sends
  <1>8. HubTypes' /\ HubHolds'
    BY <1>2, <1>7 DEF HubTypes, HubHolds
  <1>9. Pending'
    BY <1>1, <1>4, <1>5, <1>6, <1>7 DEF Pending
  <1>10. UpdatesCommitted' /\ UpdatesInOrder'
    BY <1>4, CommittedBySets, CommittedBySetsNext DEF UpdatesInOrder
  <1>11. Ahead'
    BY <1>1, <1>4, <1>5 DEF Ahead, Behind, Choosing, ChosenPCs
  <1>12. SendsAhead'
    <2> SUFFICES ASSUME NEW q \in Reqs, NEW s \in sending'[q]
                 PROVE  Behind(s.to, want[q])
      BY <1>1, <1>4 DEF SendsAhead, Behind
    <2>1. CASE q = r
      BY <1>1, <1>6, <1>7, <2>1 DEF Ahead, Choosing
    <2>2. CASE q # r
      BY <1>7, <2>2 DEF SendsAhead
    <2> QED
      BY <2>1, <2>2
  <1>13. NoGapYet'
    <2> SUFFICES ASSUME NEW q \in Reqs, NEW c \in Streams, Misses(q, c)'
                 PROVE  Reached(q, c)'
      BY DEF NoGapYet
    <2>1. CASE q = r
      <3>1. conn[c] = "open" /\ task[r].env = EnvOf[c]
        BY <1>1, <1>2, <2>1 DEF Misses
      <3>2. c \in to
        BY <3>1 DEF HubHolds, StreamEnvs
      <3> QED
        BY <1>4, <1>7, <2>1, <3>2 DEF Reached
    <2>2. CASE q # r
      <3>1. Misses(q, c)
        BY <1>1, <1>2, <1>5, <2>2 DEF Misses
      <3> QED
        BY <1>2, <1>4, <1>7, <2>2, <3>1 DEF NoGapYet, Reached
    <2> QED
      BY <2>1, <2>2
  <1> QED
    BY <1>8, <1>9, <1>10, <1>11, <1>12, <1>13

(* One send: the update is queued behind what was sent before, or lost to  *)
(* a full channel.                                                         *)
LEMMA SendKeepsStreams ==
    ASSUME RefInv, StreamsInv, NEW r \in Reqs, FanOutSend(r)
    PROVE  StreamsInv'
  <1> USE DEF StreamsInv
  <1>1. pc[r] = "notifying" /\ UNCHANGED <<vars, since>>
    BY DEF FanOutSend, clientVars
  <1>2. PICK c \in Streams, s \in sending[r] :
          /\ s.to = c
          /\ sending' = [sending EXCEPT ![r] = @ \ {s}]
          /\ \/ /\ chan' = [chan EXCEPT ![c] = Append(@, s.update)]
                /\ UNCHANGED dropped
             \/ /\ dropped' = [dropped EXCEPT ![c] = @ \union {s.update}]
                /\ UNCHANGED chan
          /\ UNCHANGED <<conn, subs, received>>
    BY DEF FanOutSend, Send
  <1>3. /\ UNCHANGED <<pc, task, built, want, releases, environments>>
        /\ [Next]_vars
    BY <1>1 DEF vars
  <1>4. /\ s.update = Update(r) /\ EnvOf[c] = task[r].env /\ Behind(c, want[r])
        /\ s \in [to : Streams, update : Told]
    BY <1>2 DEF Pending, SendsAhead, HubTypes
  <1>5. s = [to |-> c, update |-> Update(r)]
    BY <1>2, <1>4
  <1>6. /\ Update(r) \in Told /\ Committed(Update(r)) /\ Update(r).version = want[r]
        /\ Update(r).env = task[r].env
    BY <1>1, UpdateCommitted DEF WrittenPCs
  <1>7. \A q \in Reqs : q # r => sending[q] = {} /\ pc[q] \notin HoldingPCs
    BY <1>1, OneHandler DEF Pending, HoldingPCs
  <1>8. \A q \in Reqs : sending'[q] = IF q = r THEN sending[r] \ {s} ELSE sending[q]
    BY <1>2 DEF HubTypes
  <1>9. /\ \A q : Update(q)' = Update(q)
        /\ \A u : Committed(u)' = Committed(u)
    BY <1>3 DEF Update, Committed, Picked, RowsOf
  <1>10. HubTypes' /\ HubHolds'
    <2>1. /\ received' \in [Streams -> Seq(Told)] /\ conn' = conn /\ subs' = subs /\ since' = since
          /\ sending' \in [Reqs -> SUBSET [to : Streams, update : Told]]
      BY <1>1, <1>2 DEF HubTypes
    <2>2. chan' \in [Streams -> Seq(Told)]
      <3>1. chan[c] \in Seq(Told)
        BY DEF HubTypes
      <3>2. Append(chan[c], s.update) \in Seq(Told)
        BY <1>4, <1>6, <3>1, AppendProperties
      <3> QED
        BY <1>2, <3>2 DEF HubTypes
    <2>3. dropped' \in [Streams -> SUBSET Told]
      <3>1. dropped[c] \union {s.update} \in SUBSET Told
        BY <1>4, <1>6 DEF HubTypes
      <3> QED
        BY <1>2, <3>1 DEF HubTypes
    <2> QED
      BY <2>1, <2>2, <2>3 DEF HubTypes, HubHolds
  <1>11. \A d \in Streams : d # c =>
           Arriving(d)' = Arriving(d) /\ Seen(d)' = Seen(d) /\ dropped'[d] = dropped[d]
    BY <1>2 DEF HubTypes, Arriving, Seen
  <1>12. /\ dropped[c] \subseteq dropped'[c]
         /\ \/ /\ Arriving(c)' = Append(Arriving(c), Update(r))
               /\ Seen(c)' = Seen(c) \union {Update(r)}
            \/ /\ Arriving(c)' = Arriving(c) /\ Seen(c)' = Seen(c)
               /\ Update(r) \in dropped'[c]
    <2>1. CASE chan' = [chan EXCEPT ![c] = Append(@, s.update)] /\ UNCHANGED dropped
      <3>1. Arriving(c)' = received[c] \o Append(chan[c], Update(r))
        BY <1>2, <1>4, <2>1 DEF HubTypes, Arriving
      <3>2. received[c] \in Seq(Told) /\ chan[c] \in Seq(Told)
        BY DEF HubTypes
      <3>3. received[c] \o Append(chan[c], Update(r)) = Append(received[c] \o chan[c], Update(r))
        BY <1>6, <3>2, SendQueues
      <3>4. Arriving(c)' = Append(Arriving(c), Update(r))
        BY <3>1, <3>3 DEF Arriving
      <3>5. SeenIn(Append(Arriving(c), Update(r))) = SeenIn(Arriving(c)) \union {Update(r)}
        BY <1>6, SeenTyped, AppendSeen
      <3> QED
        BY <2>1, <3>4, <3>5 DEF Seen
    <2>2. CASE dropped' = [dropped EXCEPT ![c] = @ \union {s.update}] /\ UNCHANGED chan
      BY <1>2, <1>4, <2>2 DEF HubTypes, Arriving, Seen
    <2> QED
      BY <1>2, <2>1, <2>2
  <1>13. Pending'
    BY <1>3, <1>8, <1>9 DEF Pending
  <1>14. UpdatesCommitted'
    <2> SUFFICES ASSUME NEW d \in Streams, NEW u \in Seen(d)'
                 PROVE  u.env = EnvOf[d] /\ Committed(u)
      BY <1>9, CommittedBySetsNext
    <2>1. u \in Seen(d) \/ (d = c /\ u = Update(r))
      BY <1>11, <1>12
    <2> QED
      BY <1>4, <1>6, <2>1, CommittedBySets
  <1>15. UpdatesInOrder'
    <2> SUFFICES ASSUME NEW d \in Streams
                 PROVE  InOrder(Arriving(d)')
      BY DEF UpdatesInOrder, InOrder
    <2>1. InOrder(Arriving(d))
      BY DEF UpdatesInOrder, InOrder
    <2>2. CASE Arriving(d)' = Arriving(d)
      BY <2>1, <2>2
    <2>3. CASE d = c /\ Arriving(c)' = Append(Arriving(c), Update(r))
      <3>1. \A x \in SeenIn(Arriving(c)) : x.version < Update(r).version
        BY <1>4, <1>6 DEF Behind, Seen
      <3> QED
        BY <1>6, <2>1, <2>3, <3>1, SeenTyped, AppendOrdered
    <2> QED
      BY <1>11, <1>12, <2>2, <2>3
  <1>16. Ahead'
    <2> SUFFICES ASSUME NEW q \in Reqs, Choosing(q)
                 PROVE  FALSE
      BY <1>3 DEF Ahead, Choosing
    <2>1. pc[q] \in HoldingPCs /\ pc[q] # "notifying"
      BY DEF Choosing, ChosenPCs, HoldingPCs
    <2> QED
      BY <1>1, <1>7, <2>1
  <1>17. SendsAhead'
    <2> SUFFICES ASSUME NEW q \in Reqs, NEW t \in sending'[q]
                 PROVE  \A u \in Seen(t.to)' : u.version < want[q]
      BY <1>3 DEF SendsAhead, Behind
    <2>1. q = r /\ t \in sending[r] /\ t # s
      BY <1>7, <1>8
    <2>2. t = [to |-> t.to, update |-> Update(r)] /\ t.to \in Streams
      BY <2>1 DEF Pending, HubTypes
    <2>3. t.to # c
      BY <1>5, <2>1, <2>2
    <2> QED
      BY <1>11, <2>1, <2>2, <2>3 DEF SendsAhead, Behind
  <1>18. NoGapYet'
    <2> SUFFICES ASSUME NEW q \in Reqs, NEW d \in Streams, Misses(q, d)'
                 PROVE  Reached(q, d)'
      BY DEF NoGapYet
    <2>1. Misses(q, d)
      BY <1>1, <1>2, <1>3 DEF Misses
    <2>2. q = r
      BY <1>7, <2>1 DEF Misses, HoldingPCs
    <2>3. Reached(r, d)
      BY <2>1, <2>2 DEF NoGapYet
    <2>4. CASE d = c
      BY <1>9, <1>12, <2>2, <2>4 DEF Reached
    <2>5. CASE d # c
      <3>1. [to |-> d, update |-> Update(r)] # s
        BY <1>2, <2>5
      <3> QED
        BY <1>8, <1>9, <1>11, <2>2, <2>3, <2>5, <3>1 DEF Reached
    <2> QED
      BY <2>4, <2>5
  <1> QED
    BY <1>10, <1>13, <1>14, <1>15, <1>16, <1>17, <1>18

LEMMA EndKeepsStreams ==
    ASSUME RefInv, StreamsInv, NEW r \in Reqs, FanOutEnd(r)
    PROVE  StreamsInv'
  <1>1. /\ pc[r] = "notifying" /\ pc' = [pc EXCEPT ![r] = "respond"]
        /\ UNCHANGED <<task, built, want, releases, environments>>
        /\ [Next]_vars
    BY DEF FanOutEnd, NotifyEnd, Goto, local, Next, Notify
  <1>2. sending[r] = {} /\ UNCHANGED <<hubVars, since>>
    BY DEF FanOutEnd, AllSent, hubVars, clientVars
  <1>3. \A q \in Reqs : pc'[q] = IF q = r THEN "respond" ELSE pc[q]
    BY <1>1 DEF RefInv, WinnersInv, SafeInv, TypeInv, TypeOK
  <1>4. \A q \in Reqs : Choosing(q)' => Choosing(q)
    BY <1>1, <1>3 DEF Choosing, ChosenPCs
  <1> QED
    BY <1>1, <1>2, <1>3, <1>4, HubUntouched

-----------------------------------------------------------------------------
(* A connection comes, forwards, or goes.  It is told nothing new; one     *)
(* that subscribes has read a version no earlier than any row already in.  *)
LEMMA ConnectionStep ==
    ASSUME RefInv, StreamsInv, UNCHANGED <<vars, dropped, sending>>, HubTypes', HubHolds',
           \A d \in Streams : Arriving(d)' = Arriving(d),
           \A d \in Streams : conn'[d] = "open" =>
               \/ conn[d] = "open" /\ since'[d] = since[d]
               \/ \A r \in Reqs :
                    pc[r] \in WrittenPCs /\ task[r].env = EnvOf[d]
                      /\ task[r].env \in environments => ~(want[r] > since'[d])
    PROVE  StreamsInv'
  <1> USE DEF StreamsInv
  <1>1. UNCHANGED <<pc, task, built, want, releases, environments>>
    BY DEF vars
  <1>2. /\ \A q : Update(q)' = Update(q)
        /\ \A u : Committed(u)' = Committed(u)
        /\ \A q : Choosing(q)' = Choosing(q)
    BY <1>1 DEF Update, Committed, Picked, RowsOf, Choosing
  <1>3. \A d \in Streams : Seen(d)' = Seen(d)
    BY DEF Seen
  <1>4. Pending'
    BY <1>1, <1>2 DEF Pending
  <1>5. UpdatesCommitted' /\ UpdatesInOrder'
    BY <1>2, <1>3, CommittedBySets, CommittedBySetsNext DEF UpdatesInOrder
  <1>6. Ahead'
    BY <1>1, <1>2, <1>3 DEF Ahead, Behind
  <1>7. SendsAhead'
    BY <1>1, <1>3 DEF SendsAhead, Behind, HubTypes
  <1>8. NoGapYet'
    <2> SUFFICES ASSUME NEW q \in Reqs, NEW d \in Streams, Misses(q, d)'
                 PROVE  Reached(q, d)'
      BY DEF NoGapYet
    <2>1. Misses(q, d)
      BY <1>1 DEF Misses, WrittenPCs
    <2> QED
      BY <1>2, <1>3, <2>1 DEF NoGapYet, Reached
  <1> QED
    BY <1>4, <1>5, <1>6, <1>7, <1>8

LEMMA ConnectionKeepsStreams ==
    ASSUME RefInv, StreamsInv, NEW c \in Streams, Stream(c)
    PROVE  StreamsInv'
  <1> USE DEF StreamsInv
  <1>1. UNCHANGED vars /\ UNCHANGED <<pc, task, want, environments, releases>>
    BY DEF Stream, vars
  <1>2. ASSUME conn[c] # "counted" PROVE since' = since
    BY <1>2 DEF Stream
  <1>3. CASE Connect(c) \/ Leave(c) \/ Unsubscribe(c) \/ ReleaseSlot(c)
    <2>1. /\ UNCHANGED <<chan, received, dropped, sending>>
          /\ conn[c] # "counted"
          /\ \E to \in {"refused", "counted", "closing", "unsubscribed", "closed"} :
               conn' = [conn EXCEPT ![c] = to]
          /\ subs' = subs \/ (conn[c] = "closing" /\ subs' = [subs EXCEPT ![EnvOf[c]] = @ \ {c}])
      BY <1>3 DEF Connect, Leave, Unsubscribe, ReleaseSlot
    <2>2. since' = since
      BY <1>2, <2>1
    <2>3. EnvOf[c] \in StreamEnvs
      BY DEF StreamEnvs
    <2>4. \A d \in Streams : conn'[d] = "open" => conn[d] = "open" /\ d # c
      BY <2>1 DEF HubTypes
    <2>5. HubTypes'
      <3>1. conn' \in [Streams -> {"new", "refused", "closed"} \union Counted]
        BY <2>1 DEF HubTypes, Counted
      <3>2. subs' \in [StreamEnvs -> SUBSET Streams]
        <4>1. subs[EnvOf[c]] \ {c} \in SUBSET Streams
          BY <2>3 DEF HubTypes
        <4>2. subs \in [StreamEnvs -> SUBSET Streams]
          BY DEF HubTypes
        <4> QED
          BY <2>1, <4>1, <4>2
      <3> QED
        BY <2>1, <2>2, <3>1, <3>2 DEF HubTypes
    <2>6. HubHolds'
      <3>1. \A e \in StreamEnvs : subs'[e] \subseteq subs[e] /\ subs[e] \subseteq subs'[e] \union {c}
        <4>1. subs \in [StreamEnvs -> SUBSET Streams]
          BY DEF HubTypes
        <4>2. CASE subs' = [subs EXCEPT ![EnvOf[c]] = @ \ {c}]
          <5>1. \A e \in StreamEnvs :
                  subs'[e] = IF e = EnvOf[c] THEN subs[e] \ {c} ELSE subs[e]
            BY <4>1, <4>2
          <5> QED
            BY <5>1
        <4> QED
          BY <2>1, <4>2
      <3>2. \A d \in Streams : EnvOf[d] \in StreamEnvs
        BY DEF StreamEnvs
      <3> QED
        BY <2>4, <3>1, <3>2 DEF HubHolds
    <2>7. \A d \in Streams : Arriving(d)' = Arriving(d)
      BY <2>1 DEF Arriving
    <2> QED
      BY <1>1, <2>1, <2>2, <2>4, <2>5, <2>6, <2>7, ConnectionStep
  <1>4. CASE Subscribe(c)
    <2>1. /\ conn[c] = "counted" /\ conn' = [conn EXCEPT ![c] = "open"]
          /\ subs' = [subs EXCEPT ![EnvOf[c]] = @ \union {c}]
          /\ UNCHANGED <<chan, received, dropped, sending>>
      BY <1>4 DEF Subscribe
    <2> DEFINE top == CHOOSE m \in Versions(EnvOf[c]) \union {0} : IsMaxVersion(EnvOf[c], m)
    <2>2. since' = [since EXCEPT ![c] = top]
      BY <2>1 DEF Stream
    <2>3. EnvOf[c] \in StreamEnvs
      BY DEF StreamEnvs
    <2>4. ASSUME EnvOf[c] \in environments PROVE IsMaxVersion(EnvOf[c], top)
      <3>1. \E m \in Versions(EnvOf[c]) \union {0} : IsMaxVersion(EnvOf[c], m)
        BY <2>4, MaxVersionExists DEF IsMaxVersion
      <3> QED
        BY <3>1
    <2> HIDE DEF top
    <2>5. since'[c] = top /\ \A d \in Streams \ {c} : since'[d] = since[d]
      BY <2>2 DEF HubTypes
    <2>6. ASSUME NEW r \in Reqs, pc[r] \in WrittenPCs, task[r].env = EnvOf[c],
                 task[r].env \in environments
          PROVE  ~(want[r] > since'[c])
      <3>1. want[r] \in Versions(EnvOf[c])
        BY <2>6, UpdateCommitted
      <3>2. top \in Nat /\ want[r] \in Nat
        BY <2>4, <2>6, MaxVersionIsNat
        DEF IsMaxVersion, RefInv, WinnersInv, SafeInv, TypeInv, TypeOK
      <3>3. want[r] <= top
        BY <2>4, <2>6, <3>1 DEF IsMaxVersion
      <3> QED
        BY <2>5, <3>2, <3>3
    <2>7. \A d \in Streams : d # c => conn'[d] = conn[d]
      BY <2>1 DEF HubTypes
    <2>8. HubTypes'
      <3>1. conn' \in [Streams -> {"new", "refused", "closed"} \union Counted]
        BY <2>1 DEF HubTypes, Counted
      <3>2. subs' \in [StreamEnvs -> SUBSET Streams]
        BY <2>1, <2>3 DEF HubTypes
      <3>3. since' = [d \in Streams |-> since'[d]]
        BY <2>2 DEF HubTypes
      <3> QED
        BY <2>1, <3>1, <3>2, <3>3 DEF HubTypes
    <2>9. HubHolds'
      <3>1. \A e \in StreamEnvs :
              subs'[e] = IF e = EnvOf[c] THEN subs[e] \union {c} ELSE subs[e]
        BY <2>1 DEF HubTypes
      <3>2. \A d \in Streams : EnvOf[d] \in StreamEnvs
        BY DEF StreamEnvs
      <3>3. \A d \in Streams : conn'[d] = "open" => d \in subs'[EnvOf[d]]
        <4> SUFFICES ASSUME NEW d \in Streams, conn'[d] = "open"
                     PROVE  d \in subs'[EnvOf[d]]
          OBVIOUS
        <4>1. CASE d = c
          BY <2>3, <3>1, <4>1
        <4>2. CASE d # c
          BY <2>7, <3>1, <3>2, <4>2 DEF HubHolds
        <4> QED
          BY <4>1, <4>2
      <3>4. \A e \in StreamEnvs : \A d \in subs'[e] : EnvOf[d] = e
        <4> SUFFICES ASSUME NEW e \in StreamEnvs, NEW d \in subs'[e]
                     PROVE  EnvOf[d] = e
          OBVIOUS
        <4>1. d \in subs[e] \/ (e = EnvOf[c] /\ d = c)
          BY <3>1
        <4> QED
          BY <4>1 DEF HubHolds
      <3> QED
        BY <3>3, <3>4 DEF HubHolds
    <2>10. \A d \in Streams : Arriving(d)' = Arriving(d)
      BY <2>1 DEF Arriving
    <2>11. \A d \in Streams : conn'[d] = "open" =>
               \/ conn[d] = "open" /\ since'[d] = since[d]
               \/ \A r \in Reqs :
                    pc[r] \in WrittenPCs /\ task[r].env = EnvOf[d]
                      /\ task[r].env \in environments => ~(want[r] > since'[d])
      BY <2>5, <2>6, <2>7
    <2> QED
      BY <1>1, <2>1, <2>8, <2>9, <2>10, <2>11, ConnectionStep
  <1>5. CASE Forward(c)
    <2>1. /\ conn[c] = "open" /\ chan[c] # <<>>
          /\ received' = [received EXCEPT ![c] = Append(@, Head(chan[c]))]
          /\ chan' = [chan EXCEPT ![c] = Tail(@)]
          /\ UNCHANGED <<conn, subs, dropped, sending>>
      BY <1>5 DEF Forward
    <2>2. since' = since
      BY <1>2, <2>1
    <2>3. received[c] \in Seq(Told) /\ chan[c] \in Seq(Told)
      BY DEF HubTypes
    <2>4. /\ Head(chan[c]) \in Told /\ Tail(chan[c]) \in Seq(Told)
          /\ Append(received[c], Head(chan[c])) \in Seq(Told)
      BY <2>1, <2>3, HeadTailProperties, AppendProperties
    <2>5. HubTypes' /\ HubHolds'
      BY <2>1, <2>2, <2>4 DEF HubTypes, HubHolds
    <2>6. ASSUME NEW d \in Streams PROVE Arriving(d)' = Arriving(d)
      <3>1. CASE d = c
        <4>1. Arriving(c)' = Append(received[c], Head(chan[c])) \o Tail(chan[c])
          BY <2>1 DEF HubTypes, Arriving
        <4> QED
          BY <2>1, <2>3, <3>1, <4>1, ForwardMoves DEF Arriving
      <3>2. CASE d # c
        BY <2>1, <3>2 DEF HubTypes, Arriving
      <3> QED
        BY <3>1, <3>2
    <2> QED
      BY <1>1, <2>1, <2>2, <2>5, <2>6, ConnectionStep
  <1> QED
    BY <1>3, <1>4, <1>5 DEF Stream, Connection, ComesAndGoes

-----------------------------------------------------------------------------
LEMMA StreamsInitially == StreamInit => StreamsInv
  <1> SUFFICES ASSUME StreamInit
               PROVE  StreamsInv
    OBVIOUS
  <1>1. /\ conn = [c \in Streams |-> "new"]
        /\ subs = [e \in StreamEnvs |-> {}]
        /\ chan = [c \in Streams |-> <<>>] /\ received = [c \in Streams |-> <<>>]
        /\ dropped = [c \in Streams |-> {}] /\ sending = [n \in Reqs |-> {}]
        /\ since = [c \in Streams |-> 0]
        /\ pc = [r \in Reqs |-> "idle"]
    BY HandlersNotify DEF StreamInit, HubInit, Init
  <1>2. HubTypes
    <2>1. chan \in [Streams -> Seq(Told)] /\ received \in [Streams -> Seq(Told)]
      BY <1>1, EmptySeq
    <2> QED
      BY <1>1, <2>1 DEF HubTypes
  <1>3. HubHolds /\ Pending /\ SendsAhead /\ NoGapYet
    BY <1>1 DEF HubHolds, Pending, SendsAhead, NoGapYet, Misses
  <1>4. \A c \in Streams : Len(Arriving(c)) = 0
    <2>1. \A c \in Streams : Arriving(c) = <<>> \o <<>>
      BY <1>1 DEF Arriving
    <2> QED
      BY <2>1
  <1>5. UpdatesCommitted /\ UpdatesInOrder
    BY <1>4 DEF UpdatesCommitted, UpdatesInOrder
  <1>6. Ahead
    BY <1>1 DEF Ahead, Choosing, ChosenPCs
  <1> QED
    BY <1>2, <1>3, <1>5, <1>6 DEF StreamsInv

LEMMA StepKeepsStreams ==
    RefInv /\ StreamsInv /\ [StreamNext]_streamVars => StreamsInv'
  <1> SUFFICES ASSUME RefInv, StreamsInv, [StreamNext]_streamVars
               PROVE  StreamsInv'
    OBVIOUS
  <1>1. ASSUME NEW r \in Reqs, (Arrive(r) \/ Handle(r)) /\ Quiet
        PROVE  StreamsInv'
    BY <1>1, RequestKeepsStreams
  <1>2. ASSUME NEW r \in Reqs, FanOut(r)
        PROVE  StreamsInv'
    BY <1>2, StartKeepsStreams, SendKeepsStreams, EndKeepsStreams DEF FanOut
  <1>3. CASE Environment /\ Quiet
    BY <1>3, OutsideKeepsStreams DEF Quiet, clientVars
  <1>4. ASSUME NEW c \in Clients, Fetch(c)
        PROVE  StreamsInv'
    BY <1>4, OutsideKeepsStreams DEF Fetch, FetchAuth, FetchFresh, FetchNotModified
  <1>5. CASE UNCHANGED streamVars
    BY <1>5, OutsideKeepsStreams DEF streamVars, clientVars
  <1> QED
    BY <1>1, <1>2, <1>3, <1>4, <1>5, CrashKeepsStreams, ConnectionKeepsStreams DEF StreamNext

LEMMA StreamsAlways == StreamSpec => [](RefInv /\ StreamsInv)
  <1>1. StreamInit => RefInv /\ StreamsInv
    BY RefInitially, StreamsInitially DEF StreamInit
  <1>2. RefInv /\ StreamsInv /\ [StreamNext]_streamVars => (RefInv /\ StreamsInv)'
    BY StepKeepsReleases, StepKeepsStreams
  <1> QED
    BY <1>1, <1>2, PTL DEF StreamSpec

(* A connection is told of rising versions, however requests queue up      *)
(* behind the mutex, fail or die: each handler chooses a version above all *)
(* that was told before, and fans it out before it gives the mutex up.     *)
THEOREM ToldInOrder == StreamSpec => []UpdatesInOrder
  <1>1. RefInv /\ StreamsInv => UpdatesInOrder
    BY DEF StreamsInv
  <1> QED
    BY <1>1, StreamsAlways, PTL

(* A frame announces a row of the connection's environment that was        *)
(* committed under that etag, and stays as long as the environment does.   *)
THEOREM ToldWhatIsCommitted == StreamSpec => []UpdatesCommitted
  <1>1. RefInv /\ StreamsInv => UpdatesCommitted
    BY DEF StreamsInv
  <1> QED
    BY <1>1, StreamsAlways, PTL

(* An open connection has been sent every release fanned out since it      *)
(* subscribed, but for those a full channel lost.                          *)
THEOREM MissesOnlyWhatOverflows == StreamSpec => []NoSilentGap
  <1>1. RefInv /\ StreamsInv => NoSilentGap
    <2> SUFFICES ASSUME RefInv, StreamsInv, NEW c \in Streams, NEW r \in Reqs,
                        conn[c] = "open", pc[r] = "respond", task[r].env = EnvOf[c],
                        task[r].env \in environments, want[r] > since[c]
                 PROVE  \/ Update(r) \in dropped[c]
                        \/ \E i \in 1..Len(Arriving(c)) : Arriving(c)[i] = Update(r)
      BY DEF NoSilentGap
    <2>1. Reached(r, c)
      BY DEF StreamsInv, NoGapYet, Misses
    <2>2. sending[r] = {}
      BY DEF StreamsInv, Pending
    <2> QED
      BY <2>1, <2>2 DEF Reached, Seen, SeenIn
  <1> QED
    BY <1>1, StreamsAlways, PTL

-----------------------------------------------------------------------------
(* The slots and subscriptions of the hub: first of the connections alone, *)
(* then of the composition.  NoLeak is inductive once the shapes of its    *)
(* three functions are known: a step changes the place of one              *)
(* connection, so the set of slot holders of its key gains or loses that   *)
(* connection exactly when the counter of the key goes up or down.         *)
SlotHolders(k) == {c \in Streams : KeyOf[c] = k /\ conn[c] \in Counted}
HubMembers(e) == {c \in Streams : EnvOf[c] = e /\ conn[c] \in Subscribed}

HubShapes ==
    /\ conn \in [Streams -> {"new", "refused", "closed"} \union Counted]
    /\ streamActive \in [Keys -> Nat]
    /\ subs \in [StreamEnvs -> SUBSET Streams]

(* A slot is taken only where there is room. *)
WithinCap == \A k \in Keys : streamActive[k] <= MaxStreamsPerKey

SlotsInv == HubShapes /\ NoLeak /\ WithinCap

LEMMA SlotHoldersFinite ==
    ASSUME NEW k \in Keys
    PROVE  /\ IsFiniteSet(SlotHolders(k)) /\ IsFiniteSet(SlotHolders(k)')
           /\ Cardinality(SlotHolders(k)) \in Nat
  <1>1. SlotHolders(k) \subseteq Streams /\ SlotHolders(k)' \subseteq Streams
    BY DEF SlotHolders
  <1>2. IsFiniteSet(SlotHolders(k)) /\ IsFiniteSet(SlotHolders(k)')
    BY <1>1, StreamHubAssumption, FS_Subset
  <1> QED
    BY <1>2, FS_CardinalityType

LEMMA SlotsInit == HubInit => SlotsInv
  <1> SUFFICES ASSUME HubInit PROVE SlotsInv
    OBVIOUS
  <1>1. HubShapes /\ WithinCap
    BY StreamHubAssumption DEF HubInit, HubShapes, WithinCap, Counted
  <1>2. ASSUME NEW k \in Keys PROVE SlotHolders(k) = {}
    BY DEF HubInit, SlotHolders, Counted
  <1>3. SlotsAccounted
    BY <1>2, FS_EmptySet DEF SlotsAccounted, SlotHolders, HubInit
  <1>4. HubHoldsOpenStreams
    BY DEF HubHoldsOpenStreams, HubInit, Subscribed
  <1> QED
    BY <1>1, <1>3, <1>4 DEF SlotsInv, NoLeak

(* A step that neither takes nor frees a slot. *)
LEMMA SlotsKept ==
    ASSUME SlotsInv, UNCHANGED streamActive,
           \A c \in Streams : conn'[c] \in Counted <=> conn[c] \in Counted
    PROVE  SlotsAccounted'
  <1>1. ASSUME NEW k \in Keys PROVE SlotHolders(k)' = SlotHolders(k)
    BY DEF SlotHolders
  <1> QED
    BY <1>1 DEF SlotsInv, NoLeak, SlotsAccounted, SlotHolders

(* A step that neither adds nor removes a subscription. *)
LEMMA MembersKept ==
    ASSUME SlotsInv, UNCHANGED subs,
           \A c \in Streams : conn'[c] \in Subscribed <=> conn[c] \in Subscribed
    PROVE  HubHoldsOpenStreams'
  <1>1. ASSUME NEW e \in StreamEnvs PROVE HubMembers(e)' = HubMembers(e)
    BY DEF HubMembers
  <1> QED
    BY <1>1 DEF SlotsInv, NoLeak, HubHoldsOpenStreams, HubMembers

LEMMA ConnectStep == ASSUME SlotsInv, NEW c \in Streams, Connect(c) PROVE SlotsInv'
  <1>1. KeyOf[c] \in Keys
    BY DEF Keys
  <1>2. CASE streamActive[KeyOf[c]] >= MaxStreamsPerKey
    <2>1. conn' = [conn EXCEPT ![c] = "refused"] /\ UNCHANGED <<streamActive, subs>> /\ conn[c] = "new"
      BY <1>2 DEF Connect
    <2>2. HubShapes' /\ WithinCap'
      BY <2>1 DEF SlotsInv, HubShapes, WithinCap
    <2>3. SlotsAccounted'
      BY <2>1, SlotsKept DEF SlotsInv, HubShapes, Counted
    <2>4. HubHoldsOpenStreams'
      BY <2>1, MembersKept DEF SlotsInv, HubShapes, Subscribed
    <2> QED
      BY <2>2, <2>3, <2>4 DEF SlotsInv, NoLeak
  <1>3. CASE ~(streamActive[KeyOf[c]] >= MaxStreamsPerKey)
    <2>1. /\ conn' = [conn EXCEPT ![c] = "counted"] /\ UNCHANGED subs /\ conn[c] = "new"
          /\ streamActive' = [streamActive EXCEPT ![KeyOf[c]] = @ + 1]
      BY <1>3 DEF Connect
    <2>2. HubShapes'
      BY <1>1, <2>1 DEF SlotsInv, HubShapes, Counted
    <2>3. WithinCap'
      BY <1>1, <1>3, <2>1, StreamHubAssumption DEF SlotsInv, HubShapes, WithinCap
    <2>4. HubHoldsOpenStreams'
      BY <2>1, MembersKept DEF SlotsInv, HubShapes, Subscribed
    <2>5. ASSUME NEW k \in Keys PROVE streamActive'[k] = Cardinality(SlotHolders(k)')
      <3>1. CASE k = KeyOf[c]
        <4>1. SlotHolders(k)' = SlotHolders(k) \union {c} /\ c \notin SlotHolders(k)
          BY <2>1, <3>1 DEF SlotsInv, HubShapes, SlotHolders, Counted
        <4>2. Cardinality(SlotHolders(k)') = Cardinality(SlotHolders(k)) + 1
          BY <4>1, SlotHoldersFinite, FS_AddElement
        <4> QED
          BY <2>1, <3>1, <4>2 DEF SlotsInv, HubShapes, NoLeak, SlotsAccounted, SlotHolders
      <3>2. CASE k # KeyOf[c]
        <4>1. SlotHolders(k)' = SlotHolders(k)
          BY <2>1, <3>2 DEF SlotsInv, HubShapes, SlotHolders
        <4> QED
          BY <2>1, <3>2, <4>1 DEF SlotsInv, HubShapes, NoLeak, SlotsAccounted, SlotHolders
      <3> QED
        BY <3>1, <3>2
    <2> QED
      BY <2>2, <2>3, <2>4, <2>5
      DEF SlotsInv, NoLeak, SlotsAccounted, SlotHolders
  <1> QED
    BY <1>2, <1>3

LEMMA SubscribeStep == ASSUME SlotsInv, NEW c \in Streams, Subscribe(c) PROVE SlotsInv'
  <1>1. /\ conn' = [conn EXCEPT ![c] = "open"] /\ UNCHANGED streamActive /\ conn[c] = "counted"
        /\ subs' = [subs EXCEPT ![EnvOf[c]] = @ \union {c}] /\ EnvOf[c] \in StreamEnvs
    BY DEF Subscribe, StreamEnvs
  <1>2. HubShapes' /\ WithinCap'
    BY <1>1 DEF SlotsInv, HubShapes, WithinCap, Counted
  <1>3. SlotsAccounted'
    BY <1>1, SlotsKept DEF SlotsInv, HubShapes, Counted
  <1>4. ASSUME NEW e \in StreamEnvs PROVE subs'[e] = HubMembers(e)'
    <2>1. subs[e] = HubMembers(e)
      BY DEF SlotsInv, NoLeak, HubHoldsOpenStreams, HubMembers
    <2> QED
      BY <1>1, <2>1 DEF SlotsInv, HubShapes, HubMembers, Subscribed
  <1> QED
    BY <1>2, <1>3, <1>4 DEF SlotsInv, NoLeak, HubHoldsOpenStreams, HubMembers

LEMMA LeaveStep == ASSUME SlotsInv, NEW c \in Streams, Leave(c) PROVE SlotsInv'
  <1>1. conn' = [conn EXCEPT ![c] = "closing"] /\ UNCHANGED <<streamActive, subs>> /\ conn[c] = "open"
    BY DEF Leave
  <1>2. HubShapes' /\ WithinCap'
    BY <1>1 DEF SlotsInv, HubShapes, WithinCap, Counted
  <1>3. SlotsAccounted'
    BY <1>1, SlotsKept DEF SlotsInv, HubShapes, Counted
  <1>4. HubHoldsOpenStreams'
    BY <1>1, MembersKept DEF SlotsInv, HubShapes, Subscribed
  <1> QED
    BY <1>2, <1>3, <1>4 DEF SlotsInv, NoLeak

LEMMA UnsubscribeStep == ASSUME SlotsInv, NEW c \in Streams, Unsubscribe(c) PROVE SlotsInv'
  <1>1. /\ conn' = [conn EXCEPT ![c] = "unsubscribed"] /\ UNCHANGED streamActive /\ conn[c] = "closing"
        /\ subs' = [subs EXCEPT ![EnvOf[c]] = @ \ {c}] /\ EnvOf[c] \in StreamEnvs
    BY DEF Unsubscribe, StreamEnvs
  <1>2. HubShapes' /\ WithinCap'
    BY <1>1 DEF SlotsInv, HubShapes, WithinCap, Counted
  <1>3. SlotsAccounted'
    BY <1>1, SlotsKept DEF SlotsInv, HubShapes, Counted
  <1>4. ASSUME NEW e \in StreamEnvs PROVE subs'[e] = HubMembers(e)'
    <2>1. subs[e] = HubMembers(e)
      BY DEF SlotsInv, NoLeak, HubHoldsOpenStreams, HubMembers
    <2> QED
      BY <1>1, <2>1 DEF SlotsInv, HubShapes, HubMembers, Subscribed
  <1> QED
    BY <1>2, <1>3, <1>4 DEF SlotsInv, NoLeak, HubHoldsOpenStreams, HubMembers

LEMMA ReleaseSlotStep == ASSUME SlotsInv, NEW c \in Streams, ReleaseSlot(c) PROVE SlotsInv'
  <1>1. /\ conn' = [conn EXCEPT ![c] = "closed"] /\ UNCHANGED subs /\ conn[c] = "unsubscribed"
        /\ streamActive' = [streamActive EXCEPT ![KeyOf[c]] = @ - 1] /\ KeyOf[c] \in Keys
    BY DEF ReleaseSlot, Keys
  <1>2. ASSUME NEW k \in Keys PROVE streamActive'[k] = Cardinality(SlotHolders(k)')
    <2>1. CASE k = KeyOf[c]
      <3>1. SlotHolders(k)' = SlotHolders(k) \ {c} /\ c \in SlotHolders(k)
        BY <1>1, <2>1 DEF SlotsInv, HubShapes, SlotHolders, Counted
      <3>2. Cardinality(SlotHolders(k)') = Cardinality(SlotHolders(k)) - 1
        BY <3>1, SlotHoldersFinite, FS_RemoveElement
      <3> QED
        BY <1>1, <2>1, <3>2 DEF SlotsInv, HubShapes, NoLeak, SlotsAccounted, SlotHolders
    <2>2. CASE k # KeyOf[c]
      <3>1. SlotHolders(k)' = SlotHolders(k)
        BY <1>1, <2>2 DEF SlotsInv, HubShapes, SlotHolders
      <3> QED
        BY <1>1, <2>2, <3>1 DEF SlotsInv, HubShapes, NoLeak, SlotsAccounted, SlotHolders
    <2> QED
      BY <2>1, <2>2
  <1>3. ASSUME NEW k \in Keys PROVE Cardinality(SlotHolders(k)') \in Nat
    BY SlotHoldersFinite, FS_CardinalityType
  <1>4. HubShapes'
    BY <1>1, <1>2, <1>3 DEF SlotsInv, HubShapes
  <1>5. WithinCap'
    BY <1>1, StreamHubAssumption DEF SlotsInv, HubShapes, WithinCap
  <1>6. HubHoldsOpenStreams'
    BY <1>1, MembersKept DEF SlotsInv, HubShapes, Subscribed
  <1> QED
    BY <1>2, <1>4, <1>5, <1>6
    DEF SlotsInv, NoLeak, SlotsAccounted, SlotHolders

LEMMA SlotsCrashStep == ASSUME SlotsInv, HubCrash PROVE SlotsInv'
  <1>1. ASSUME NEW c \in Streams PROVE conn'[c] \in {"new", "closed"}
    BY <1>1 DEF HubCrash
  <1>2. HubShapes' /\ WithinCap'
    BY StreamHubAssumption DEF SlotsInv, HubCrash, HubShapes, WithinCap
  <1>3. ASSUME NEW k \in Keys PROVE SlotHolders(k)' = {}
    BY <1>1 DEF SlotHolders, Counted
  <1>4. SlotsAccounted'
    BY <1>3, FS_EmptySet DEF HubCrash, SlotsAccounted, SlotHolders
  <1>5. HubHoldsOpenStreams'
    BY <1>1 DEF HubCrash, HubHoldsOpenStreams, Subscribed
  <1> QED
    BY <1>2, <1>4, <1>5 DEF SlotsInv, NoLeak

LEMMA SlotsStep == SlotsInv /\ [HubNext]_hubVars => SlotsInv'
  <1> SUFFICES ASSUME SlotsInv, [HubNext]_hubVars PROVE SlotsInv'
    OBVIOUS
  <1>1. CASE HubCrash
    BY <1>1, SlotsCrashStep
  <1>2. ASSUME NEW c \in Streams, ComesAndGoes(c) PROVE SlotsInv'
    BY <1>2, ConnectStep, SubscribeStep, LeaveStep, UnsubscribeStep, ReleaseSlotStep
       DEF ComesAndGoes
  <1>3. CASE UNCHANGED hubVars
    <2>1. UNCHANGED <<conn, streamActive, subs>>
      BY <1>3 DEF hubVars
    <2>2. HubShapes' /\ WithinCap'
      BY <2>1 DEF SlotsInv, HubShapes, WithinCap
    <2>3. SlotsAccounted' /\ HubHoldsOpenStreams'
      BY <2>1, SlotsKept, MembersKept
    <2> QED
      BY <2>2, <2>3 DEF SlotsInv, NoLeak
  <1> QED
    BY <1>1, <1>2, <1>3 DEF HubNext

(* Slot counters equal the connections that hold a slot, and the hub holds *)
(* exactly the subscribed ones, whatever way connections end (stream.go    *)
(* getStream and its deferred calls, hub.go Subscribe and its cancel).     *)
THEOREM NothingLeaks == HubSpec => []NoLeak
  <1>1. SlotsInv => NoLeak
    BY DEF SlotsInv
  <1> QED
    BY <1>1, SlotsInit, SlotsStep, PTL DEF HubSpec

(* No key ever holds more streams than maxStreamsPerKey (stream.go:125).   *)
THEOREM StreamsCapped ==
    HubSpec => [](\A k \in Keys : Cardinality(SlotHolders(k)) <= MaxStreamsPerKey)
  <1>1. SlotsInv => \A k \in Keys : Cardinality(SlotHolders(k)) <= MaxStreamsPerKey
    BY DEF SlotsInv, WithinCap, NoLeak, SlotsAccounted, SlotHolders
  <1> QED
    BY <1>1, SlotsInit, SlotsStep, PTL DEF HubSpec

(* The slots of the composition: notifying takes and frees none. *)
LEMMA SlotsUntouched == ASSUME SlotsInv, UNCHANGED <<conn, streamActive, subs>> PROVE SlotsInv'
  <1>1. HubShapes' /\ WithinCap'
    BY DEF SlotsInv, HubShapes, WithinCap
  <1>2. SlotsAccounted' /\ HubHoldsOpenStreams'
    BY SlotsKept, MembersKept
  <1> QED
    BY <1>1, <1>2 DEF SlotsInv, NoLeak

LEMMA StreamKeepsSlots == SlotsInv /\ [StreamNext]_streamVars => SlotsInv'
  <1> SUFFICES ASSUME SlotsInv, [StreamNext]_streamVars PROVE SlotsInv'
    OBVIOUS
  <1>1. CASE Quiet \/ UNCHANGED streamVars
    BY <1>1, SlotsUntouched DEF Quiet, streamVars, hubVars
  <1>2. ASSUME NEW r \in Reqs, FanOut(r) PROVE SlotsInv'
    BY <1>2, SlotsUntouched
    DEF FanOut, FanOutStart, FanOutSend, FanOutEnd,
        CopySubscribers, Send, AllSent, hubVars
  <1>3. ASSUME NEW p \in Procs, ProcessCrash(p) PROVE SlotsInv'
    BY <1>3, SlotsCrashStep DEF ProcessCrash
  <1>4. ASSUME NEW c \in Streams, Stream(c) PROVE SlotsInv'
    <2>1. CASE Forward(c)
      BY <2>1, SlotsUntouched DEF Forward
    <2>2. CASE ComesAndGoes(c)
      BY <2>2, ConnectStep, SubscribeStep, LeaveStep, UnsubscribeStep, ReleaseSlotStep
      DEF ComesAndGoes
    <2> QED
      BY <1>4, <2>1, <2>2 DEF Stream, Connection
  <1>5. ASSUME NEW c \in Clients, Fetch(c) PROVE SlotsInv'
    BY <1>5, SlotsUntouched DEF Fetch, FetchAuth, FetchFresh, FetchNotModified, hubVars
  <1> QED
    BY <1>1, <1>2, <1>3, <1>4, <1>5 DEF StreamNext

(* And so it is while releases are fanned out to the connections and the   *)
(* process crashes in the middle of it (hub.go Notify).                    *)
THEOREM NothingLeaksServing == StreamSpec => []NoLeak
  <1>1. StreamInit => SlotsInv
    BY SlotsInit DEF StreamInit
  <1>2. SlotsInv => NoLeak
    BY DEF SlotsInv
  <1> QED
    BY <1>1, <1>2, StreamKeepsSlots, PTL DEF StreamSpec
=============================================================================
