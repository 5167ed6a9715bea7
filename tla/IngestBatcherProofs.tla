------------------------ MODULE IngestBatcherProofs -------------------------
(***************************************************************************)
(* For every channel capacity, batch size and number of concurrent         *)
(* handlers: an admitted handler never blocks on the channel, and every    *)
(* event is accounted for exactly once from its push on, through resends,  *)
(* retries of chunks, crashes and the drain at the end.                    *)
(*                                                                         *)
(* The first invariant (Inv) is the reservation the capacity check makes:  *)
(* as long as a handler pushes, it owns admitMu and the channel has room   *)
(* for all that is left of its batch.  The flush goroutine only takes      *)
(* events off, and no other handler adds any while admitMu is owned.       *)
(*                                                                         *)
(* The second (PipeInv) looks at what is in memory as one sequence, Queued *)
(* = retry \o batch \o buf \o ch.  A push appends to it; a step of the     *)
(* goroutine leaves it alone or takes a prefix off and accounts for each   *)
(* event of that prefix (Takes).  What is accounted for is at any time     *)
(* exactly what was pushed (KeptArePushed).                                *)
(***************************************************************************)
EXTENDS IngestBatcher, SequenceTheorems, FiniteSetTheorems, TLAPS

(* The part of TypeOK that the argument needs. *)
HandlerTypes ==
    /\ pc \in [Reqs -> {"idle", "admit", "push", "done"}]
    /\ pushed \in [Reqs -> Nat]
    /\ admitMu \in Reqs \union {NoReq}
    /\ ch \in Seq(Events) /\ Len(ch) <= ChannelCap

Left(r) == BatchLen[r] - pushed[r]

Reserved ==
    \A r \in Reqs : pc[r] = "push" =>
        /\ admitMu = r
        /\ Left(r) > 0
        /\ Left(r) <= ChannelCap - Len(ch)

(* A handler that waits for admission has pushed nothing of this send. *)
NothingPushed == \A r \in Reqs : pc[r] = "admit" => pushed[r] = 0

Inv == HandlerTypes /\ Reserved /\ NothingPushed

LEMMA InitInv == Init => Inv
  BY BatcherAssumption DEF Init, Inv, HandlerTypes, Reserved, NothingPushed, Events

(* An event that is pushed next is one of the batch. *)
LEMMA PushedIsEvent ==
    ASSUME NEW r \in Reqs, Inv, pc[r] = "push"
    PROVE  <<r, pushed[r] + 1>> \in Events
  <1>1. pushed[r] + 1 \in 1..BatchLen[r]
    BY BatcherAssumption DEF Inv, HandlerTypes, Reserved, Left
  <1> QED
    BY <1>1 DEF Events, EventsOf

LEMMA PostStep == ASSUME Inv, NEW r \in Reqs, Post(r) PROVE Inv'
  <1>1. HandlerTypes'
    BY DEF Inv, HandlerTypes, Post
  <1>2. Reserved'
    BY DEF Inv, HandlerTypes, Reserved, Left, Post
  <1>3. NothingPushed'
    BY DEF Inv, HandlerTypes, NothingPushed, Post
  <1> QED
    BY <1>1, <1>2, <1>3 DEF Inv

LEMMA AdmitStep == ASSUME Inv, NEW r \in Reqs, Admit(r) PROVE Inv'
  <1>1. HandlerTypes'
    BY DEF Inv, HandlerTypes, Admit
  <1>2. UNCHANGED <<ch, pushed>> /\ pushed[r] = 0
    BY DEF Inv, NothingPushed, Admit
  <1>3. ASSUME NEW s \in Reqs, pc'[s] = "push"
        PROVE  s = r /\ admitMu' = r /\ ~(BatchLen[r] > ChannelCap - Len(ch))
    <2>1. pc[s] # "push"
      BY BatcherAssumption DEF Inv, Reserved, Admit
    <2> QED
      BY <1>3, <2>1 DEF Inv, HandlerTypes, Admit
  <1>4. Len(ch) \in Nat /\ ChannelCap \in Nat /\ BatchLen[r] \in Nat \ {0}
    BY BatcherAssumption DEF Inv, HandlerTypes
  <1>5. Reserved'
    BY <1>2, <1>3, <1>4 DEF Reserved, Left
  <1>6. NothingPushed'
    BY <1>2 DEF Inv, HandlerTypes, NothingPushed, Admit
  <1> QED
    BY <1>1, <1>5, <1>6 DEF Inv

LEMMA PushStep == ASSUME Inv, NEW r \in Reqs, Push(r) PROVE Inv'
  <1>1. <<r, pushed[r] + 1>> \in Events
    BY PushedIsEvent DEF Push
  <1>2. ch' \in Seq(Events) /\ Len(ch') = Len(ch) + 1 /\ Len(ch) \in Nat
    BY <1>1 DEF Inv, HandlerTypes, Push
  <1>3. pushed' = [pushed EXCEPT ![r] = @ + 1] /\ pushed[r] \in Nat
    BY DEF Inv, HandlerTypes, Push
  <1>4. HandlerTypes'
    <2>1. pushed' \in [Reqs -> Nat]
      BY <1>3 DEF Inv, HandlerTypes
    <2>2. pc' \in [Reqs -> {"idle", "admit", "push", "done"}] /\ admitMu' \in Reqs \union {NoReq}
      BY DEF Inv, HandlerTypes, Push
    <2>3. Len(ch') <= ChannelCap
      BY <1>2, BatcherAssumption DEF Push
    <2> QED
      BY <1>2, <2>1, <2>2, <2>3 DEF HandlerTypes
  <1>5. admitMu = r /\ \A s \in Reqs : s # r => pc'[s] # "push" /\ pc'[s] = pc[s]
    BY DEF Inv, HandlerTypes, Reserved, Push
  <1>6. pc'[r] = "push" => admitMu' = admitMu /\ pushed[r] + 1 # BatchLen[r]
    BY DEF Inv, HandlerTypes, Push
  <1>7. ChannelCap \in Nat /\ BatchLen[r] \in Nat
    BY BatcherAssumption
  <1>8. BatchLen[r] - pushed[r] > 0 /\ BatchLen[r] - pushed[r] <= ChannelCap - Len(ch)
    BY DEF Inv, Reserved, Left, Push
  <1>9. pc'[r] = "push" => Left(r)' > 0 /\ Left(r)' <= ChannelCap - Len(ch')
    <2>1. pushed'[r] = pushed[r] + 1
      BY <1>3 DEF Inv, HandlerTypes
    <2> QED
      BY <1>2, <1>3, <1>6, <1>7, <1>8, <2>1 DEF Left
  <1>10. Reserved'
    BY <1>5, <1>6, <1>9 DEF Reserved
  <1>11. NothingPushed'
    <2>1. pc'[r] # "admit"
      BY DEF Inv, HandlerTypes, Push
    <2> QED
      BY <1>3, <1>5, <2>1 DEF Inv, HandlerTypes, NothingPushed
  <1> QED
    BY <1>4, <1>10, <1>11 DEF Inv

(* The flush goroutine: only Take touches the channel, and frees room.     *)
LEMMA FlusherStep == ASSUME Inv, Flusher PROVE Inv'
  <1>1. ch' = ch \/ (ch # <<>> /\ ch' = Tail(ch))
    BY DEF Flusher, Take, Tick, SeeDone, DrainEnd, Flush, CommitChunk, ChunkFails, RetryRow, FlushEnd
  <1>2. UNCHANGED handlerVars
    BY DEF Flusher, Take, Tick, SeeDone, DrainEnd, Flush, CommitChunk, ChunkFails, RetryRow,
           FlushEnd, Beside
  <1>3. ch' \in Seq(Events) /\ Len(ch') <= Len(ch) /\ Len(ch) \in Nat /\ Len(ch') \in Nat
    <2>1. CASE ch' = ch
      BY <2>1 DEF Inv, HandlerTypes
    <2>2. CASE ch # <<>> /\ ch' = Tail(ch)
      BY <2>2 DEF Inv, HandlerTypes
    <2> QED
      BY <1>1, <2>1, <2>2
  <1>4. HandlerTypes'
    <2>1. Len(ch') <= ChannelCap
      BY <1>3, BatcherAssumption DEF Inv, HandlerTypes
    <2> QED
      BY <1>2, <1>3, <2>1 DEF Inv, HandlerTypes, handlerVars
  <1>5. Reserved'
    <2> SUFFICES ASSUME NEW r \in Reqs, pc'[r] = "push"
                 PROVE  admitMu' = r /\ Left(r)' > 0 /\ Left(r)' <= ChannelCap - Len(ch')
      BY DEF Reserved
    <2>1. admitMu = r /\ Left(r) > 0 /\ Left(r) <= ChannelCap - Len(ch)
      BY <1>2 DEF Inv, Reserved, handlerVars
    <2>2. BatchLen[r] \in Nat /\ pushed[r] \in Nat /\ ChannelCap \in Nat
      BY BatcherAssumption DEF Inv, HandlerTypes
    <2> QED
      BY <1>2, <1>3, <2>1, <2>2 DEF Left, handlerVars
  <1>6. NothingPushed'
    BY <1>2 DEF Inv, NothingPushed, handlerVars
  <1> QED
    BY <1>4, <1>5, <1>6 DEF Inv

LEMMA CrashStep == ASSUME Inv, Crash PROVE Inv'
  <1>1. HandlerTypes'
    <2>1. ch' = <<>> /\ <<>> \in Seq(Events) /\ Len(<<>>) <= ChannelCap
      BY BatcherAssumption, EmptySeq DEF Crash
    <2> QED
      BY <2>1 DEF Inv, HandlerTypes, Crash, InFlight
  <1>2. \A r \in Reqs : pc'[r] \notin {"push", "admit"}
    BY DEF Inv, HandlerTypes, Crash, InFlight
  <1> QED
    BY <1>1, <1>2 DEF Inv, Reserved, NothingPushed

LEMMA NextInv == ASSUME Inv, [Next]_vars PROVE Inv'
  <1>1. ASSUME NEW r \in Reqs, Post(r) \/ Handler(r) PROVE Inv'
    BY <1>1, PostStep, AdmitStep, PushStep DEF Handler
  <1>2. CASE Stop
    BY <1>2 DEF Inv, HandlerTypes, Reserved, NothingPushed, Left, Stop, handlerVars
  <1>3. CASE Terminated \/ UNCHANGED vars
    BY <1>3 DEF Inv, HandlerTypes, Reserved, NothingPushed, Left, Terminated, vars, handlerVars
  <1> QED
    BY <1>1, <1>2, <1>3, FlusherStep, CrashStep DEF Next

(* An admitted handler never waits for room in the channel                 *)
(* (batcher.go:102), for any capacity, batches and number of handlers.     *)
THEOREM NeverBlocks == Spec => []PushNeverBlocks
  <1>1. Inv => PushNeverBlocks
    BY BatcherAssumption DEF Inv, HandlerTypes, Reserved, Left, PushNeverBlocks
  <1> QED
    BY <1>1, InitInv, NextInv, PTL DEF Spec

-----------------------------------------------------------------------------
(* Sequences without repetition. *)
Once(s) == \A i, j \in 1..Len(s) : s[i] = s[j] => i = j

LEMMA RanOfConcat ==
    ASSUME NEW S, NEW s \in Seq(S), NEW t \in Seq(S)
    PROVE  Ran(s \o t) = Ran(s) \union Ran(t)
  <1>1. /\ Len(s) \in Nat /\ Len(t) \in Nat /\ Len(s \o t) = Len(s) + Len(t)
        /\ \A i \in 1..Len(s) + Len(t) :
              (s \o t)[i] = IF i <= Len(s) THEN s[i] ELSE t[i - Len(s)]
    BY ConcatProperties, LenProperties
  <1>2. \A i \in 1..Len(s) : s[i] \in Ran(s \o t)
    BY <1>1 DEF Ran
  <1>3. ASSUME NEW j \in 1..Len(t) PROVE t[j] \in Ran(s \o t)
    <2>1. /\ Len(s) + j \in 1..Len(s \o t) /\ ~(Len(s) + j <= Len(s))
          /\ (Len(s) + j) - Len(s) = j
      BY <1>1
    <2> QED
      BY <1>1, <2>1 DEF Ran
  <1>4. ASSUME NEW i \in 1..Len(s \o t) PROVE (s \o t)[i] \in Ran(s) \union Ran(t)
    <2>1. CASE i <= Len(s)
      BY <1>1, <2>1 DEF Ran
    <2>2. CASE ~(i <= Len(s))
      <3>1. i - Len(s) \in 1..Len(t)
        BY <1>1, <2>2
      <3> QED
        BY <1>1, <2>2, <3>1 DEF Ran
    <2> QED
      BY <2>1, <2>2
  <1> QED
    BY <1>2, <1>3, <1>4 DEF Ran

LEMMA OnceOfConcat ==
    ASSUME NEW S, NEW s \in Seq(S), NEW t \in Seq(S)
    PROVE  Once(s \o t) <=> Once(s) /\ Once(t) /\ Ran(s) \intersect Ran(t) = {}
  <1>1. /\ Len(s) \in Nat /\ Len(t) \in Nat /\ Len(s \o t) = Len(s) + Len(t)
        /\ \A i \in 1..Len(s) + Len(t) :
              (s \o t)[i] = IF i <= Len(s) THEN s[i] ELSE t[i - Len(s)]
    BY ConcatProperties, LenProperties
  <1>2. \A i \in 1..Len(s) : i \in 1..Len(s \o t) /\ (s \o t)[i] = s[i]
    BY <1>1
  <1>3. ASSUME NEW j \in 1..Len(t)
        PROVE  Len(s) + j \in 1..Len(s \o t) /\ (s \o t)[Len(s) + j] = t[j]
    <2>1. /\ Len(s) + j \in 1..Len(s) + Len(t) /\ ~(Len(s) + j <= Len(s))
          /\ (Len(s) + j) - Len(s) = j
      BY <1>1
    <2> QED
      BY <1>1, <2>1
  <1>4. ASSUME Once(s \o t) PROVE Once(s) /\ Once(t) /\ Ran(s) \intersect Ran(t) = {}
    <2>1. Once(s)
      BY <1>2, <1>4 DEF Once
    <2>2. Once(t)
      <3> SUFFICES ASSUME NEW i \in 1..Len(t), NEW j \in 1..Len(t), t[i] = t[j] PROVE i = j
        BY DEF Once
      <3>1. Len(s) + i = Len(s) + j
        BY <1>3, <1>4 DEF Once
      <3> QED
        BY <1>1, <3>1
    <2>3. ASSUME NEW i \in 1..Len(s), NEW j \in 1..Len(t), s[i] = t[j] PROVE FALSE
      <3>1. i = Len(s) + j
        BY <1>2, <1>3, <1>4, <2>3 DEF Once
      <3> QED
        BY <1>1, <3>1
    <2> QED
      BY <2>1, <2>2, <2>3 DEF Ran
  <1>5. ASSUME Once(s), Once(t), Ran(s) \intersect Ran(t) = {} PROVE Once(s \o t)
    <2> SUFFICES ASSUME NEW i \in 1..Len(s \o t), NEW j \in 1..Len(s \o t),
                        (s \o t)[i] = (s \o t)[j]
                 PROVE  i = j
      BY DEF Once
    <2>1. ASSUME NEW k \in 1..Len(s \o t), ~(k <= Len(s))
          PROVE  k - Len(s) \in 1..Len(t) /\ (s \o t)[k] = t[k - Len(s)]
      BY <1>1, <2>1
    <2>2. ASSUME NEW k \in 1..Len(s \o t), k <= Len(s)
          PROVE  k \in 1..Len(s) /\ (s \o t)[k] = s[k]
      BY <1>1, <2>2
    <2>3. \A k \in 1..Len(s), l \in 1..Len(t) : s[k] # t[l]
      BY <1>5 DEF Ran
    <2>4. CASE i <= Len(s) /\ j <= Len(s)
      BY <1>5, <2>2, <2>4 DEF Once
    <2>5. CASE ~(i <= Len(s)) /\ ~(j <= Len(s))
      <3>1. i - Len(s) = j - Len(s)
        BY <1>5, <2>1, <2>5 DEF Once
      <3> QED
        BY <1>1, <3>1
    <2> QED
      BY <2>1, <2>2, <2>3, <2>4, <2>5
  <1> QED
    BY <1>4, <1>5

\* The head of one queue goes to the end of the queue before it.
LEMMA MoveHead ==
    ASSUME NEW S, NEW s \in Seq(S), NEW t \in Seq(S), t # <<>>
    PROVE  Append(s, Head(t)) \o Tail(t) = s \o t
  <1>1. /\ Head(t) \in S /\ Tail(t) \in Seq(S) /\ t = <<Head(t)>> \o Tail(t)
        /\ <<Head(t)>> \in Seq(S)
    BY HeadTailProperties
  <1>2. Append(s, Head(t)) = s \o <<Head(t)>>
    BY <1>1, AppendIsConcat
  <1> QED
    BY <1>1, <1>2, ConcatAssociative

LEMMA SplitAt ==
    ASSUME NEW S, NEW s \in Seq(S), NEW n \in 0..Len(s)
    PROVE  /\ SubSeq(s, 1, n) \in Seq(S) /\ SubSeq(s, n + 1, Len(s)) \in Seq(S)
           /\ SubSeq(s, 1, n) \o SubSeq(s, n + 1, Len(s)) = s
           /\ Len(SubSeq(s, 1, n)) = n
  <1>1. Len(s) \in Nat /\ n \in Int /\ n + 1 \in Int /\ \A i \in 1..Len(s) : s[i] \in S
    BY LenProperties, ElementOfSeq
  <1>2. SubSeq(s, 1, n) \in Seq(S) /\ SubSeq(s, n + 1, Len(s)) \in Seq(S)
    <2>1. \A i \in 1..n : s[i] \in S
      BY <1>1
    <2>2. \A i \in n + 1..Len(s) : s[i] \in S
      BY <1>1
    <2> QED
      BY <1>1, <2>1, <2>2, SubSeqProperties
  <1>3. SubSeq(s, 1, n) \o SubSeq(s, n + 1, Len(s)) = s
    <2>1. /\ 1 \in 1..Len(s) + 1 /\ n \in 1 - 1..Len(s) /\ Len(s) \in n..Len(s)
      BY <1>1
    <2>2. SubSeq(s, 1, n) \o SubSeq(s, n + 1, Len(s)) = SubSeq(s, 1, Len(s))
      BY <2>1, ConcatAdjacentSubSeq
    <2> QED
      BY <2>2, SubSeqFull
  <1>4. Len(SubSeq(s, 1, n)) = n
    <2>1. \A i \in 1..n : s[i] \in S
      BY <1>1
    <2> QED
      BY <1>1, <2>1, SubSeqProperties
  <1> QED
    BY <1>2, <1>3, <1>4

LEMMA TimesOfOnce ==
    ASSUME NEW s, Once(s), NEW e
    PROVE  Times(s, e) = IF e \in Ran(s) THEN 1 ELSE 0
  <1> DEFINE at == {i \in 1..Len(s) : s[i] = e}
  <1>1. CASE e \in Ran(s)
    <2>1. PICK i \in 1..Len(s) : s[i] = e
      BY <1>1 DEF Ran
    <2>2. at = {i}
      BY <2>1 DEF Once
    <2> QED
      BY <1>1, <2>2, FS_Singleton DEF Times
  <1>2. CASE e \notin Ran(s)
    <2>1. at = {}
      BY <1>2 DEF Ran
    <2> QED
      BY <1>2, <2>1, FS_EmptySet DEF Times
  <1> QED
    BY <1>1, <1>2

-----------------------------------------------------------------------------
(* The pipeline.  What is in memory is the sequence Queued; a step of the   *)
(* flush goroutine takes a prefix off it and accounts for that prefix. *)
PipeTypes ==
    /\ buf \in Seq(Events) /\ batch \in Seq(Events) /\ retry \in Seq(Events)
    /\ run \in {"select", "flush", "chunks", "retry", "stopped"}
    /\ draining \in BOOLEAN /\ stopping \in BOOLEAN
    /\ events \in [Events -> Nat]
    /\ lost \subseteq Events /\ dropped \subseteq Events
    /\ unsavable \subseteq Events /\ atStop \subseteq Events

\* Which of the three buffers can hold events at each stage of the goroutine.
Stages ==
    /\ run \in {"select", "flush", "stopped"} => batch = <<>> /\ retry = <<>>
    /\ run = "chunks" => retry = <<>> /\ buf = <<>>
    /\ run = "retry" => retry # <<>> /\ buf = <<>>
    /\ run = "stopped" => buf = <<>> /\ draining

\* An event is accounted for from the moment it was pushed.
KeptArePushed == Kept = {e \in Events : e[2] <= pushed[e[1]]}

Requests ==
    /\ status \in [Reqs -> {0, 202, 503}] /\ sends \in [Reqs -> 0..MaxSends]
    /\ \A r \in Reqs :
        /\ pushed[r] <= BatchLen[r]
        /\ pc[r] \in {"idle", "admit"} \/ status[r] = 503 => pushed[r] = 0
        /\ pc[r] \in {"admit", "push"} => status[r] = 0
        /\ status[r] = 202 => pushed[r] = BatchLen[r]

\* Once the drain found the channel empty, only newer events are in it.
Drained ==
    /\ draining => stopping
    /\ ~stopping => atStop = {}
    /\ atStop \subseteq Kept
    /\ draining /\ run # "select" => atStop \intersect Ran(ch) = {}

PipeInv == Inv /\ PipeTypes /\ Stages /\ CountedOnce /\ KeptArePushed /\ Requests /\ Drained

LEMMA QueuesAssociate == \A x, y, z \in Seq(Events) : (x \o y) \o z = x \o (y \o z)
  BY ConcatAssociative

Cat(a, b, c, d) == a \o b \o c \o d
CatRight(a, b, c, d) == a \o (b \o (c \o d))

LEMMA QueueOf ==
    ASSUME NEW a \in Seq(Events), NEW b \in Seq(Events), NEW c \in Seq(Events), NEW d \in Seq(Events)
    PROVE  /\ Cat(a, b, c, d) \in Seq(Events)
           /\ Cat(a, b, c, d) = CatRight(a, b, c, d)
           /\ Ran(Cat(a, b, c, d)) = Ran(a) \union Ran(b) \union Ran(c) \union Ran(d)
  <1>1. \A x, y, z \in Seq(Events) : (x \o y) \o z = x \o (y \o z)
    BY QueuesAssociate
  <1>2. \A x, y \in Seq(Events) : x \o y \in Seq(Events) /\ Ran(x \o y) = Ran(x) \union Ran(y)
    BY RanOfConcat, ConcatProperties
  <1> DEFINE ab == a \o b
             cd == c \o d
             abc == ab \o c
  <1>3. /\ ab \in Seq(Events) /\ Ran(ab) = Ran(a) \union Ran(b)
        /\ cd \in Seq(Events) /\ b \o cd \in Seq(Events)
    BY <1>2
  <1>4. ab \o cd = a \o (b \o cd)
    <2> HIDE DEF cd
    <2> QED
      BY <1>1, <1>3
  <1>5. /\ abc \in Seq(Events) /\ Ran(abc) = Ran(ab) \union Ran(c)
        /\ abc \o d = ab \o cd
    <2> HIDE DEF ab
    <2> QED
      BY <1>1, <1>2, <1>3
  <1>6. abc \o d \in Seq(Events) /\ Ran(abc \o d) = Ran(abc) \union Ran(d)
    <2> HIDE DEF abc
    <2> QED
      BY <1>2, <1>5
  <1> QED
    BY <1>3, <1>4, <1>5, <1>6 DEF Cat, CatRight

LEMMA QueuedParts ==
    ASSUME Inv, PipeTypes
    PROVE  /\ Queued \in Seq(Events) /\ Ran(Queued) = InMemory
           /\ Queued = retry \o (batch \o (buf \o ch))
  <1>1. ch \in Seq(Events) /\ buf \in Seq(Events) /\ batch \in Seq(Events) /\ retry \in Seq(Events)
    BY DEF Inv, HandlerTypes, PipeTypes
  <1>2. /\ Cat(retry, batch, buf, ch) \in Seq(Events)
        /\ Cat(retry, batch, buf, ch) = CatRight(retry, batch, buf, ch)
        /\ Ran(Cat(retry, batch, buf, ch))
              = Ran(retry) \union Ran(batch) \union Ran(buf) \union Ran(ch)
    BY <1>1, QueueOf
  <1>3. Queued = Cat(retry, batch, buf, ch)
    BY DEF Queued, Cat
  <1>4. CatRight(retry, batch, buf, ch) = retry \o (batch \o (buf \o ch))
    BY DEF CatRight
  <1>5. InMemory = Ran(ch) \union Ran(buf) \union Ran(batch) \union Ran(retry)
    BY DEF InMemory, Ran
  <1> QED
    BY <1>2, <1>3, <1>4, <1>5

LEMMA QueuedPartsNext ==
    ASSUME Inv', PipeTypes'
    PROVE  /\ Queued' \in Seq(Events) /\ Ran(Queued') = InMemory'
           /\ Queued' = retry' \o (batch' \o (buf' \o ch'))
  <1>1. /\ ch' \in Seq(Events) /\ buf' \in Seq(Events)
        /\ batch' \in Seq(Events) /\ retry' \in Seq(Events)
    BY DEF Inv, HandlerTypes, PipeTypes
  <1>2. /\ Cat(retry', batch', buf', ch') \in Seq(Events)
        /\ Cat(retry', batch', buf', ch') = CatRight(retry', batch', buf', ch')
        /\ Ran(Cat(retry', batch', buf', ch'))
              = Ran(retry') \union Ran(batch') \union Ran(buf') \union Ran(ch')
    BY <1>1, QueueOf
  <1>3. Queued' = Cat(retry', batch', buf', ch')
    BY DEF Queued, Cat
  <1>4. CatRight(retry', batch', buf', ch') = retry' \o (batch' \o (buf' \o ch'))
    BY DEF CatRight
  <1>5. InMemory' = Ran(ch') \union Ran(buf') \union Ran(batch') \union Ran(retry')
    BY DEF InMemory, Ran
  <1> QED
    BY <1>2, <1>3, <1>4, <1>5

\* A step of the goroutine takes the events of a sequence out off the front
\* of what is queued: saved are rows written for them, gone is where the
\* others went.
Takes(out, saved, gone) ==
    /\ out \in Seq(Events) /\ Queued = out \o Queued'
    /\ Ran(out) = saved \union gone /\ saved \intersect gone = {}
    /\ \A e \in Events : events'[e] = events[e] + IF e \in saved THEN 1 ELSE 0
    /\ lost' \union dropped' = lost \union dropped \union gone

\* Such a step leaves every event accounted for once.
LEMMA TakesKeepOnce ==
    ASSUME PipeInv, Inv', PipeTypes', NEW out, NEW saved, NEW gone, Takes(out, saved, gone)
    PROVE  CountedOnce' /\ Kept' = Kept
  <1>1. /\ Ran(Queued) = InMemory /\ Ran(Queued') = InMemory'
        /\ Queued' \in Seq(Events) /\ Queued \in Seq(Events) /\ out \in Seq(Events)
        /\ Queued = out \o Queued'
    BY QueuedParts, QueuedPartsNext DEF PipeInv, Takes
  <1>2. Ran(Queued) = Ran(out) \union Ran(Queued')
    BY <1>1, RanOfConcat
  <1>3. Once(Queued') /\ Ran(out) \intersect Ran(Queued') = {}
    <2>1. Once(Queued)
      BY DEF PipeInv, CountedOnce, Once
    <2> QED
      BY <1>1, <2>1, OnceOfConcat
  <1>4. /\ Ran(out) = saved \union gone /\ saved \intersect gone = {}
        /\ lost' \union dropped' = lost \union dropped \union gone
    BY DEF Takes
  <1>5. saved \subseteq Events
    <2>1. \A i \in 1..Len(out) : out[i] \in Events
      BY <1>1, ElementOfSeq
    <2> QED
      BY <1>4, <2>1 DEF Ran
  <1>6. \A e \in Events : /\ events[e] \in Nat /\ events'[e] \in Nat
                          /\ events'[e] = events[e] + IF e \in saved THEN 1 ELSE 0
    BY DEF Takes, PipeInv, PipeTypes
  <1>7. Saved' = Saved \union saved
    BY <1>5, <1>6 DEF Saved
  <1>8. /\ Ran(Queued) \intersect (Saved \union lost \union dropped) = {}
        /\ Saved \intersect (lost \union dropped) = {}
        /\ \A e \in Events : events[e] <= 1
    BY DEF PipeInv, CountedOnce
  <1>9. \A e \in Events : events'[e] <= 1
    <2>1. \A e \in saved : events[e] = 0
      BY <1>2, <1>4, <1>5, <1>6, <1>8 DEF Saved
    <2> QED
      BY <1>6, <1>8, <2>1
  <1>10. /\ Ran(Queued') \intersect (Saved' \union lost' \union dropped') = {}
         /\ Saved' \intersect (lost' \union dropped') = {}
    BY <1>2, <1>3, <1>4, <1>7, <1>8
  <1>11. Kept' = Kept
    BY <1>1, <1>2, <1>4, <1>7 DEF Kept
  <1> QED
    BY <1>3, <1>9, <1>10, <1>11 DEF CountedOnce, Once

LEMMA TakesNothing ==
    ASSUME Inv, PipeTypes, Queued' = Queued, UNCHANGED <<events, lost, dropped>>
    PROVE  Takes(<<>>, {}, {})
  <1>1. Queued \in Seq(Events) /\ <<>> \o Queued = Queued /\ <<>> \in Seq(Events)
    BY QueuedParts, ConcatEmptySeq
  <1>2. Ran(<<>>) = {}
    BY DEF Ran
  <1>3. \A e \in Events : events[e] \in Nat
    BY DEF PipeTypes
  <1> QED
    BY <1>1, <1>2, <1>3 DEF Takes

\* The next chunk and the rest of the batch.
LEMMA ChunkIsPrefix ==
    ASSUME PipeTypes, batch # <<>>
    PROVE  /\ Chunk \in Seq(Events) /\ AfterChunk \in Seq(Events)
           /\ Chunk \o AfterChunk = batch /\ Chunk # <<>>
  <1> DEFINE n == Min2(ChunkSize, Len(batch))
  <1>1. batch \in Seq(Events) /\ Len(batch) \in Nat /\ Len(batch) # 0
    BY LenProperties, EmptySeq DEF PipeTypes
  <1>2. n \in 0..Len(batch) /\ n # 0
    BY <1>1, BatcherAssumption DEF Min2
  <1>3. /\ SubSeq(batch, 1, n) \in Seq(Events)
        /\ SubSeq(batch, n + 1, Len(batch)) \in Seq(Events)
        /\ SubSeq(batch, 1, n) \o SubSeq(batch, n + 1, Len(batch)) = batch
        /\ Len(SubSeq(batch, 1, n)) = n
    BY <1>1, <1>2, SplitAt
  <1>4. Chunk = SubSeq(batch, 1, n) /\ AfterChunk = SubSeq(batch, n + 1, Len(batch))
    BY <1>3 DEF Chunk, AfterChunk
  <1> QED
    BY <1>2, <1>3, <1>4, EmptySeq

LEMMA EmptyLeft ==
    \A x \in Seq(Events) : <<>> \o x = x /\ x \o <<>> = x
  BY ConcatEmptySeq

LEMMA QueuesRan == \A x, y \in Seq(Events) : Ran(x \o y) = Ran(x) \union Ran(y)
  BY RanOfConcat

LEMMA QueuesConcat == \A x, y \in Seq(Events) : x \o y \in Seq(Events)
  BY ConcatProperties

LEMMA QueuesAreSeqs ==
    ASSUME PipeInv
    PROVE  ch \in Seq(Events) /\ buf \in Seq(Events) /\ batch \in Seq(Events) /\ retry \in Seq(Events)
  BY DEF PipeInv, PipeTypes, Inv, HandlerTypes

\* What the step of the goroutine has to show, with the types it keeps.
Accounts == \E out, saved, gone : Takes(out, saved, gone)

LEMMA QueuedSame ==
    ASSUME PipeInv, Queued' = Queued, UNCHANGED <<events, lost, dropped>>
    PROVE  Accounts
  BY TakesNothing DEF Accounts, PipeInv

LEMMA TakeStep ==
    ASSUME PipeInv, Inv', Take PROVE PipeTypes' /\ Stages' /\ Accounts
  <1>1. ch \in Seq(Events) /\ ch # <<>> /\ buf \in Seq(Events)
    BY QueuesAreSeqs DEF Take
  <1>2. Head(ch) \in Events /\ Append(buf, Head(ch)) \in Seq(Events)
    BY <1>1, HeadTailProperties, AppendProperties
  <1>3. PipeTypes'
    BY <1>2 DEF Take, Beside, PipeInv, PipeTypes
  <1>4. Stages'
    BY DEF Take, PipeInv, Stages
  <1>5. buf' \o ch' = buf \o ch
    BY <1>1, MoveHead DEF Take
  <1>6. Queued' = Queued
    BY <1>3, <1>5, QueuedParts, QueuedPartsNext DEF Take, PipeInv
  <1> QED
    BY <1>3, <1>4, <1>6, QueuedSame DEF Take

LEMMA QuietStep ==
    ASSUME PipeInv, Tick \/ SeeDone \/ DrainEnd \/ FlushEnd
    PROVE  PipeTypes' /\ Stages' /\ Accounts
  <1>1. UNCHANGED <<ch, buf, batch, retry, events, lost, dropped>>
    BY DEF Tick, SeeDone, DrainEnd, FlushEnd
  <1>2. PipeTypes'
    BY DEF Tick, SeeDone, DrainEnd, FlushEnd, Beside, PipeInv, PipeTypes
  <1>3. Stages'
    BY DEF Tick, SeeDone, DrainEnd, FlushEnd, PipeInv, PipeTypes, Stages
  <1> QED
    BY <1>1, <1>2, <1>3, QueuedSame DEF Queued

LEMMA FlushStep ==
    ASSUME PipeInv, Inv', Flush PROVE PipeTypes' /\ Stages' /\ Accounts
  <1>1. /\ ch \in Seq(Events) /\ buf \in Seq(Events)
        /\ batch = <<>> /\ retry = <<>> /\ <<>> \in Seq(Events)
    BY QueuesAreSeqs DEF Flush, PipeInv, Stages
  <1>2. Ran(buf) \subseteq Events
    BY <1>1, ElementOfSeq DEF Ran
  <1>3. PipeTypes'
    BY <1>1, <1>2 DEF Flush, Beside, PipeInv, PipeTypes
  <1>4. Stages'
    BY <1>1 DEF Flush, PipeInv, Stages
  <1>5. buf \o ch \in Seq(Events)
    BY <1>1, QueuesConcat
  <1>6. Queued = buf \o ch
    BY <1>1, <1>5, QueuedParts, EmptyLeft DEF PipeInv
  <1>7. CASE batch' = buf /\ UNCHANGED dropped
    <2>1. Queued' = <<>> \o (buf \o (<<>> \o ch))
      BY <1>1, <1>3, <1>7, QueuedPartsNext DEF Flush
    <2>2. Queued' = Queued
      BY <1>1, <1>5, <1>6, <2>1, EmptyLeft
    <2> QED
      BY <1>3, <1>4, <1>7, <2>2, QueuedSame DEF Flush
  <1>8. CASE batch' = <<>> /\ dropped' = dropped \union Ran(buf)
    <2>1. Queued' = <<>> \o (<<>> \o (<<>> \o ch))
      BY <1>1, <1>3, <1>8, QueuedPartsNext DEF Flush
    <2>2. Queued = buf \o Queued'
      BY <1>1, <1>6, <2>1, EmptyLeft
    <2>3. \A e \in Events : events[e] \in Nat /\ events' = events /\ lost' = lost
      BY DEF Flush, PipeInv, PipeTypes
    <2>4. Takes(buf, {}, Ran(buf))
      BY <1>1, <1>8, <2>2, <2>3 DEF Takes, Flush
    <2> QED
      BY <1>3, <1>4, <2>4 DEF Accounts
  <1> QED
    BY <1>7, <1>8 DEF Flush

LEMMA ChunkOffQueue ==
    ASSUME PipeInv, run = "chunks", batch # <<>>
    PROVE  /\ Chunk \in Seq(Events) /\ AfterChunk \in Seq(Events) /\ Chunk # <<>>
           /\ ch \in Seq(Events) /\ AfterChunk \o ch \in Seq(Events)
           /\ retry = <<>> /\ buf = <<>> /\ <<>> \in Seq(Events)
           /\ Queued = Chunk \o (AfterChunk \o ch)
  <1>1. /\ Chunk \in Seq(Events) /\ AfterChunk \in Seq(Events) /\ Chunk # <<>>
        /\ Chunk \o AfterChunk = batch
    BY ChunkIsPrefix DEF PipeInv
  <1>2. ch \in Seq(Events) /\ batch \in Seq(Events) /\ retry = <<>> /\ buf = <<>>
        /\ <<>> \in Seq(Events)
    BY QueuesAreSeqs DEF PipeInv, Stages
  <1>3. AfterChunk \o ch \in Seq(Events) /\ batch \o ch \in Seq(Events)
    BY <1>1, <1>2, QueuesConcat
  <1>4. Queued = batch \o ch
    BY <1>2, <1>3, QueuedParts, EmptyLeft DEF PipeInv
  <1>5. (Chunk \o AfterChunk) \o ch = Chunk \o (AfterChunk \o ch)
    BY <1>1, <1>2, QueuesAssociate
  <1> QED
    BY <1>1, <1>2, <1>3, <1>4, <1>5

LEMMA CommitChunkStep ==
    ASSUME PipeInv, Inv', CommitChunk PROVE PipeTypes' /\ Stages' /\ Accounts
  <1> DEFINE saved == Ran(Chunk) \ unsavable
             gone == Ran(Chunk) \intersect unsavable
  <1>1. /\ Chunk \in Seq(Events) /\ AfterChunk \in Seq(Events)
        /\ ch \in Seq(Events) /\ AfterChunk \o ch \in Seq(Events)
        /\ retry = <<>> /\ buf = <<>> /\ <<>> \in Seq(Events)
        /\ Queued = Chunk \o (AfterChunk \o ch)
    BY ChunkOffQueue DEF CommitChunk
  <1>2. Ran(Chunk) \subseteq Events
    BY <1>1, ElementOfSeq DEF Ran
  <1>3. Once(Chunk)
    <2>1. Once(Queued)
      BY DEF PipeInv, CountedOnce, Once
    <2> QED
      BY <1>1, <2>1, OnceOfConcat
  <1>4. \A e \in Events : /\ events'[e] = events[e] + IF e \in saved THEN 1 ELSE 0
                          /\ events[e] \in Nat
    <2>1. \A e \in Events :
             events'[e] = events[e] + IF e \in unsavable THEN 0 ELSE Times(Chunk, e)
      BY DEF CommitChunk, SaveRows
    <2>2. \A e \in Events : Times(Chunk, e) = IF e \in Ran(Chunk) THEN 1 ELSE 0
      BY <1>3, TimesOfOnce
    <2> QED
      BY <2>1, <2>2 DEF PipeInv, PipeTypes
  <1>5. events' \in [Events -> Nat]
    <2>1. DOMAIN events' = Events /\ events' = [e \in Events |-> events'[e]]
      BY DEF CommitChunk, SaveRows
    <2> QED
      BY <1>4, <2>1
  <1>6. PipeTypes'
    BY <1>1, <1>2, <1>5 DEF CommitChunk, Beside, PipeInv, PipeTypes
  <1>7. Stages'
    BY <1>1 DEF CommitChunk, PipeInv, Stages
  <1>8. Queued' = AfterChunk \o ch
    <2>1. Queued' = <<>> \o (AfterChunk \o (<<>> \o ch))
      BY <1>1, <1>6, QueuedPartsNext DEF CommitChunk
    <2> QED
      BY <1>1, <2>1, EmptyLeft
  <1>9. Takes(Chunk, saved, gone)
    BY <1>1, <1>4, <1>8 DEF Takes, CommitChunk
  <1> QED
    BY <1>6, <1>7, <1>9 DEF Accounts

LEMMA ChunkFailsStep ==
    ASSUME PipeInv, Inv', ChunkFails PROVE PipeTypes' /\ Stages' /\ Accounts
  <1>1. /\ Chunk \in Seq(Events) /\ AfterChunk \in Seq(Events) /\ Chunk # <<>>
        /\ ch \in Seq(Events) /\ AfterChunk \o ch \in Seq(Events)
        /\ buf = <<>> /\ <<>> \in Seq(Events)
        /\ Queued = Chunk \o (AfterChunk \o ch)
    BY ChunkOffQueue DEF ChunkFails
  <1>2. PipeTypes'
    BY <1>1 DEF ChunkFails, Beside, PipeInv, PipeTypes
  <1>3. Stages'
    BY <1>1 DEF ChunkFails, PipeInv, Stages
  <1>4. Queued' = Chunk \o (AfterChunk \o (<<>> \o ch))
    BY <1>1, <1>2, QueuedPartsNext DEF ChunkFails
  <1>5. Queued' = Queued
    BY <1>1, <1>4, EmptyLeft
  <1> QED
    BY <1>2, <1>3, <1>5, QueuedSame DEF ChunkFails

LEMMA RetryRowStep ==
    ASSUME PipeInv, Inv', RetryRow PROVE PipeTypes' /\ Stages' /\ Accounts
  <1> DEFINE e == Head(retry)
             saved == {e} \ unsavable
             gone == {e} \intersect unsavable
             others == batch \o (buf \o ch)
  <1>1. retry \in Seq(Events) /\ retry # <<>> /\ others \in Seq(Events)
    <2>1. /\ retry \in Seq(Events) /\ batch \in Seq(Events)
          /\ buf \in Seq(Events) /\ ch \in Seq(Events) /\ retry # <<>>
      BY QueuesAreSeqs DEF RetryRow, PipeInv, Stages
    <2>2. buf \o ch \in Seq(Events)
      BY <2>1, QueuesConcat
    <2> QED
      BY <2>1, <2>2, QueuesConcat
  <1>2. /\ e \in Events /\ Tail(retry) \in Seq(Events) /\ retry = <<e>> \o Tail(retry)
        /\ <<e>> \in Seq(Events)
    BY <1>1, HeadTailProperties
  <1>3. /\ events' \in [Events -> Nat] /\ lost' \subseteq Events
        /\ lost' = lost \union gone
        /\ \A x \in Events : events'[x] = events[x] + IF x \in saved THEN 1 ELSE 0
    BY <1>2 DEF RetryRow, PipeInv, PipeTypes
  <1>4. PipeTypes'
    BY <1>2, <1>3 DEF RetryRow, Beside, PipeInv, PipeTypes
  <1>5. Stages'
    BY DEF RetryRow, PipeInv, Stages
  <1>6. Queued' = Tail(retry) \o others
    BY <1>4, QueuedPartsNext DEF RetryRow
  <1>7. Queued = retry \o others
    BY QueuedParts DEF PipeInv
  <1>8. Queued = <<e>> \o Queued'
    <2> HIDE DEF others, e
    <2>1. (<<e>> \o Tail(retry)) \o others = <<e>> \o (Tail(retry) \o others)
      BY <1>1, <1>2, QueuesAssociate
    <2> QED
      BY <1>2, <1>6, <1>7, <2>1
  <1>9. Ran(<<e>>) = {e}
    <2> HIDE DEF e
    <2> QED
      BY DEF Ran
  <1>10. Takes(<<e>>, saved, gone)
    <2> HIDE DEF e
    <2> QED
      BY <1>2, <1>3, <1>8, <1>9 DEF Takes, RetryRow
  <1> QED
    BY <1>4, <1>5, <1>10 DEF Accounts

LEMMA FlusherKeepsPipe == ASSUME PipeInv, Flusher PROVE PipeInv'
  <1>1. Inv'
    BY FlusherStep DEF PipeInv
  <1>2. PipeTypes' /\ Stages' /\ Accounts
    BY <1>1, TakeStep, QuietStep, FlushStep, CommitChunkStep, ChunkFailsStep, RetryRowStep
       DEF Flusher
  <1>3. CountedOnce' /\ Kept' = Kept
    BY <1>1, <1>2, TakesKeepOnce DEF Accounts
  <1>4. UNCHANGED <<handlerVars, stopping, unsavable, atStop>>
    BY DEF Flusher, Take, Tick, SeeDone, DrainEnd, Flush, CommitChunk, ChunkFails, RetryRow,
           FlushEnd, Beside
  <1>5. KeptArePushed' /\ Requests'
    BY <1>3, <1>4 DEF PipeInv, KeptArePushed, Requests, handlerVars
  <1>6. draining' => stopping
    BY DEF Flusher, Take, Tick, SeeDone, DrainEnd, Flush, CommitChunk, ChunkFails, RetryRow,
           FlushEnd, PipeInv, Drained
  <1>7. draining' /\ run' # "select" => atStop \intersect Ran(ch') = {}
    <2>1. CASE Take \/ Tick \/ SeeDone
      BY <2>1 DEF Take, Tick, SeeDone
    <2>2. CASE DrainEnd
      BY <2>2 DEF DrainEnd, Ran
    <2>3. CASE Flush \/ CommitChunk \/ ChunkFails \/ RetryRow \/ FlushEnd
      BY <2>3 DEF Flush, CommitChunk, ChunkFails, RetryRow, FlushEnd, PipeInv, Drained
    <2> QED
      BY <2>1, <2>2, <2>3 DEF Flusher
  <1>8. Drained'
    BY <1>3, <1>4, <1>6, <1>7 DEF PipeInv, Drained
  <1> QED
    BY <1>1, <1>2, <1>3, <1>5, <1>8 DEF PipeInv

\* The variables of the pipeline other than the channel.
SamePipe == UNCHANGED <<flushVars, stopping, unsavable, atStop>>

LEMMA HandlerKeepsTypes ==
    ASSUME PipeInv, SamePipe PROVE PipeTypes' /\ Stages'
  BY DEF PipeInv, PipeTypes, Stages, SamePipe, flushVars

LEMMA SameChannel ==
    ASSUME PipeInv, SamePipe, ch' = ch
    PROVE  CountedOnce' /\ Kept' = Kept /\ Drained'
  BY DEF PipeInv, CountedOnce, Queued, Saved, Kept, InMemory, Drained, SamePipe, flushVars

LEMMA PostKeepsPipe == ASSUME PipeInv, NEW r \in Reqs, Post(r) PROVE PipeInv'
  <1>1. Inv'
    BY PostStep DEF PipeInv
  <1>2. SamePipe /\ ch' = ch
    BY DEF Post, SamePipe
  <1>3. pushed[r] = 0
    BY DEF Post, PipeInv, Requests
  <1>4. pushed' = pushed
    BY <1>3 DEF Post, PipeInv, Inv, HandlerTypes
  <1>5. Requests'
    <2>1. sends[r] + 1 \in 0..MaxSends
      BY BatcherAssumption DEF Post, PipeInv, Requests
    <2>2. sends' \in [Reqs -> 0..MaxSends]
      BY <2>1 DEF Post, PipeInv, Requests
    <2> QED
      BY <1>3, <1>4, <2>2 DEF Post, PipeInv, Inv, HandlerTypes, Requests
  <1>6. KeptArePushed'
    BY <1>2, <1>4, SameChannel DEF PipeInv, KeptArePushed
  <1> QED
    BY <1>1, <1>2, <1>5, <1>6, HandlerKeepsTypes, SameChannel DEF PipeInv

LEMMA AdmitKeepsPipe == ASSUME PipeInv, NEW r \in Reqs, Admit(r) PROVE PipeInv'
  <1>1. Inv'
    BY AdmitStep DEF PipeInv
  <1>2. SamePipe /\ ch' = ch /\ pushed' = pushed
    BY DEF Admit, SamePipe
  <1>3. Requests'
    BY <1>2 DEF Admit, PipeInv, Inv, HandlerTypes, Requests
  <1>4. KeptArePushed'
    BY <1>2, SameChannel DEF PipeInv, KeptArePushed
  <1> QED
    BY <1>1, <1>2, <1>3, <1>4, HandlerKeepsTypes, SameChannel DEF PipeInv

LEMMA EventIsPair ==
    ASSUME NEW e \in Events
    PROVE  e[1] \in Reqs /\ e[2] \in 1..BatchLen[e[1]] /\ e = <<e[1], e[2]>>
  BY DEF Events, EventsOf

LEMMA PushKeepsPipe == ASSUME PipeInv, NEW r \in Reqs, Push(r) PROVE PipeInv'
  <1> DEFINE e == <<r, pushed[r] + 1>>
  <1>1. Inv' /\ e \in Events
    BY PushStep, PushedIsEvent DEF PipeInv, Push
  <1>2. SamePipe /\ ch' = Append(ch, e) /\ pushed' = [pushed EXCEPT ![r] = @ + 1]
    BY DEF Push, SamePipe
  <1>3. PipeTypes' /\ Stages'
    BY <1>2, HandlerKeepsTypes
  <1>4. pushed[r] \in Nat /\ pushed'[r] = pushed[r] + 1 /\ BatchLen[r] \in Nat
        /\ pushed[r] + 1 <= BatchLen[r]
    <2>1. pushed[r] \in Nat /\ pushed'[r] = pushed[r] + 1 /\ BatchLen[r] \in Nat
      BY <1>2, BatcherAssumption DEF PipeInv, Inv, HandlerTypes
    <2>2. BatchLen[r] - pushed[r] > 0
      BY DEF Push, PipeInv, Inv, Reserved, Left
    <2> QED
      BY <2>1, <2>2
  <1>5. e \notin Kept
    BY <1>4 DEF PipeInv, KeptArePushed
  <1>6. Queued' = Queued \o <<e>> /\ Queued \in Seq(Events) /\ <<e>> \in Seq(Events)
    <2>1. /\ retry \o batch \o buf \in Seq(Events) /\ ch \in Seq(Events)
          /\ <<e>> \in Seq(Events)
      <3>1. /\ ch \in Seq(Events) /\ buf \in Seq(Events)
            /\ batch \in Seq(Events) /\ retry \in Seq(Events)
        BY QueuesAreSeqs
      <3>2. retry \o batch \in Seq(Events)
        BY <3>1, QueuesConcat
      <3>3. <<e>> \in Seq(Events)
        <4> HIDE DEF e
        <4> QED
          BY <1>1
      <3> QED
        BY <3>1, <3>2, <3>3, QueuesConcat
    <2> DEFINE front == retry \o batch \o buf
    <2>2. Append(ch, e) = ch \o <<e>>
      <3> HIDE DEF e
      <3> QED
        BY <1>1, <2>1, AppendIsConcat
    <2>3. Queued = front \o ch /\ Queued' = front \o (ch \o <<e>>)
      BY <1>2, <2>2 DEF Queued, SamePipe, flushVars
    <2>4. front \o (ch \o <<e>>) = (front \o ch) \o <<e>>
      <3> HIDE DEF front, e
      <3> QED
        BY <2>1, QueuesAssociate
    <2> QED
      BY <2>1, <2>3, <2>4, QueuedParts DEF PipeInv
  <1>7. Ran(<<e>>) = {e} /\ Once(<<e>>)
    <2> HIDE DEF e
    <2> QED
      BY DEF Ran, Once
  <1> HIDE DEF e
  <1>8. Ran(Queued') = Ran(Queued) \union {e}
    BY <1>6, <1>7, QueuesRan
  <1>9. Ran(Queued) = InMemory /\ Ran(Queued') = InMemory'
    BY <1>1, <1>3, QueuedParts, QueuedPartsNext DEF PipeInv
  <1>10. UNCHANGED <<events, lost, dropped, atStop, stopping, draining, run>> /\ Saved' = Saved
    BY <1>2 DEF SamePipe, flushVars, Saved
  <1>11. Once(Queued')
    <2>1. Once(Queued) /\ Ran(Queued) \intersect Ran(<<e>>) = {}
      BY <1>5, <1>7, <1>9 DEF PipeInv, CountedOnce, Once, Kept
    <2> QED
      BY <1>6, <1>7, <2>1, OnceOfConcat
  <1>12. Kept' = Kept \union {e}
    BY <1>8, <1>9, <1>10 DEF Kept
  <1>13. CountedOnce'
    BY <1>5, <1>8, <1>9, <1>10, <1>11 DEF PipeInv, CountedOnce, Kept, Once
  <1>14. KeptArePushed'
    <2>1. Kept = {x \in Events : x[2] <= pushed[x[1]]}
      BY DEF PipeInv, KeptArePushed
    <2>2. ASSUME NEW x \in Events
          PROVE  x[2] <= pushed'[x[1]] <=> x[2] <= pushed[x[1]] \/ x = e
      <3>1. x[1] \in Reqs /\ x[2] \in Nat /\ x = <<x[1], x[2]>> /\ pushed[x[1]] \in Nat
        BY EventIsPair, BatcherAssumption DEF PipeInv, Inv, HandlerTypes
      <3>2. CASE x[1] = r
        <4>1. pushed'[x[1]] = pushed[r] + 1
          BY <1>4, <3>2
        <4>2. x = e <=> x[2] = pushed[r] + 1
          BY <3>1, <3>2 DEF e
        <4> QED
          BY <1>4, <3>1, <3>2, <4>1, <4>2
      <3>3. CASE x[1] # r
        <4>1. pushed'[x[1]] = pushed[x[1]] /\ x # e
          BY <1>2, <3>1, <3>3 DEF e, PipeInv, Inv, HandlerTypes
        <4> QED
          BY <4>1
      <3> QED
        BY <3>2, <3>3
    <2> QED
      BY <1>1, <1>12, <2>1, <2>2 DEF KeptArePushed
  <1>15. Requests'
    <2>1. /\ status' \in [Reqs -> {0, 202, 503}] /\ sends' \in [Reqs -> 0..MaxSends]
          /\ status[r] = 0 /\ status'[r] \in {0, 202}
          /\ status'[r] = 202 => pushed'[r] = BatchLen[r]
          /\ pc[r] = "push" /\ pc'[r] \in {"push", "done"}
      BY <1>4 DEF Push, PipeInv, Inv, HandlerTypes, Requests
    <2>2. \A o \in Reqs \ {r} : /\ pc'[o] = pc[o] /\ status'[o] = status[o]
                                /\ pushed'[o] = pushed[o]
      BY DEF Push, PipeInv, Inv, HandlerTypes, Requests
    <2>3. pc'[r] = "push" => status'[r] = 0
      BY DEF Push, PipeInv, Inv, HandlerTypes, Requests
    <2> QED
      BY <1>4, <2>1, <2>2, <2>3 DEF PipeInv, Requests
  <1>16. Ran(ch') = Ran(ch) \union {e}
    <2>1. ch \in Seq(Events) /\ Append(ch, e) = ch \o <<e>> /\ <<e>> \in Seq(Events)
      BY <1>1, <1>6, QueuesAreSeqs, AppendIsConcat
    <2> QED
      BY <1>2, <1>7, <2>1, QueuesRan
  <1>17. Drained'
    BY <1>5, <1>10, <1>12, <1>16 DEF PipeInv, Drained
  <1> QED
    BY <1>1, <1>3, <1>13, <1>14, <1>15, <1>17 DEF PipeInv

LEMMA StopKeepsPipe == ASSUME PipeInv, Stop PROVE PipeInv'
  <1>1. Inv'
    BY NextInv DEF PipeInv, Next
  <1>2. UNCHANGED <<handlerVars, ch, flushVars, unsavable>> /\ stopping' = TRUE
        /\ atStop' = InMemory /\ ~draining
    BY DEF Stop, PipeInv, Drained
  <1>3. InMemory \subseteq Kept /\ InMemory \subseteq Events
    <2>1. Kept \subseteq Events
      BY DEF PipeInv, KeptArePushed
    <2> QED
      BY <2>1 DEF Kept
  <1>4. PipeTypes' /\ Stages'
    BY <1>2, <1>3 DEF PipeInv, PipeTypes, Stages, flushVars
  <1>5. CountedOnce' /\ Kept' = Kept /\ KeptArePushed' /\ Requests'
    BY <1>2 DEF PipeInv, CountedOnce, Queued, Saved, Kept, InMemory, KeptArePushed, Requests,
                flushVars, handlerVars
  <1>6. Drained'
    BY <1>2, <1>3, <1>5 DEF Drained, flushVars
  <1> QED
    BY <1>1, <1>4, <1>5, <1>6 DEF PipeInv

LEMMA CrashKeepsPipe == ASSUME PipeInv, Crash PROVE PipeInv'
  <1>1. Inv'
    BY CrashStep DEF PipeInv
  <1>2. InMemory \subseteq Events
    <2>1. Kept \subseteq Events
      BY DEF PipeInv, KeptArePushed
    <2> QED
      BY <2>1 DEF Kept
  <1>3. /\ ch' = <<>> /\ buf' = <<>> /\ batch' = <<>> /\ retry' = <<>>
        /\ run' = "select" /\ draining' = FALSE /\ stopping' = FALSE /\ atStop' = {}
        /\ dropped' = dropped \union InMemory
        /\ UNCHANGED <<pushed, status, events, lost, unsavable>>
    BY DEF Crash
  <1>4. PipeTypes' /\ Stages'
    BY <1>2, <1>3 DEF PipeInv, PipeTypes, Stages
  <1>5. Queued' = <<>> /\ InMemory' = {} /\ Ran(<<>>) = {} /\ Saved' = Saved
    <2>1. <<>> \in Seq(Events) /\ Queued' = <<>> \o (<<>> \o (<<>> \o <<>>))
      BY <1>1, <1>3, <1>4, QueuedPartsNext
    <2>2. Queued' = <<>>
      BY <2>1, EmptyLeft
    <2> QED
      BY <1>3, <2>2 DEF InMemory, Ran, Saved
  <1>6. Kept' = Kept
    BY <1>3, <1>5 DEF Kept
  <1>7. CountedOnce'
    <2>1. Ran(Queued) = InMemory
      BY QueuedParts DEF PipeInv
    <2>2. /\ Saved \intersect (lost \union dropped) = {}
          /\ InMemory \intersect Saved = {}
          /\ \A e \in Events : events[e] <= 1
      BY <2>1 DEF PipeInv, CountedOnce
    <2>3. \A i, j \in 1..Len(Queued') : Queued'[i] = Queued'[j] => i = j
      BY <1>5
    <2> QED
      BY <1>3, <1>5, <2>2, <2>3 DEF CountedOnce
  <1>8. KeptArePushed'
    BY <1>3, <1>6 DEF PipeInv, KeptArePushed
  <1>9. Requests'
    BY <1>3 DEF Crash, InFlight, PipeInv, Inv, HandlerTypes, Requests
  <1>10. Drained'
    BY <1>3 DEF Drained
  <1> QED
    BY <1>1, <1>4, <1>7, <1>8, <1>9, <1>10 DEF PipeInv

LEMMA PipeInitially == Init => PipeInv
  <1> SUFFICES ASSUME Init PROVE PipeInv
    OBVIOUS
  <1>1. Inv
    BY InitInv
  <1>2. PipeTypes /\ Stages /\ Requests
    <2>1. \A r \in Reqs : BatchLen[r] \in Nat
      BY BatcherAssumption
    <2>2. MaxSends \in Nat
      BY BatcherAssumption
    <2>3. Requests
      BY <2>1, <2>2 DEF Init, Requests
    <2>4. unsavable \subseteq Events /\ <<>> \in Seq(Events)
      BY EmptySeq DEF Init
    <2>5. events \in [Events -> Nat]
      BY DEF Init
    <2> QED
      BY <2>3, <2>4, <2>5 DEF Init, PipeTypes, Stages
  <1>3. /\ Ran(<<>>) = {} /\ Saved = {} /\ lost = {} /\ dropped = {}
        /\ retry = <<>> /\ batch = <<>> /\ buf = <<>> /\ ch = <<>>
    BY DEF Init, Ran, Saved
  <1>4. Queued = <<>> /\ InMemory = {}
    <2>1. <<>> \in Seq(Events) /\ Queued = <<>> \o (<<>> \o (<<>> \o <<>>))
      BY <1>1, <1>2, <1>3, QueuedParts
    <2> QED
      BY <1>3, <2>1, EmptyLeft DEF InMemory
  <1>5. CountedOnce
    BY <1>3, <1>4 DEF Init, CountedOnce
  <1>6. KeptArePushed
    <2>1. \A e \in Events : ~(e[2] <= pushed[e[1]])
      BY EventIsPair, BatcherAssumption DEF Init
    <2> QED
      BY <1>3, <1>4, <2>1 DEF KeptArePushed, Kept
  <1>7. Drained
    BY DEF Init, Drained
  <1> QED
    BY <1>1, <1>2, <1>5, <1>6, <1>7 DEF PipeInv

LEMMA PipeInductive == PipeInv /\ [Next]_vars => PipeInv'
  <1>1. PipeInv /\ UNCHANGED vars => PipeInv'
    BY NextInv, HandlerKeepsTypes, SameChannel
       DEF PipeInv, KeptArePushed, Requests, vars, handlerVars, SamePipe
  <1> QED
    BY <1>1, PostKeepsPipe, AdmitKeepsPipe, PushKeepsPipe, FlusherKeepsPipe, StopKeepsPipe,
       CrashKeepsPipe
       DEF Next, Handler, Terminated

(* For any batches, capacities and refused rows: every event is in one      *)
(* place at most and has one row at most (batcher.go:91-95, 205-214), in    *)
(* particular a chunk that failed was rolled back when its rows are retried *)
(* and a batch that is sent again had left nothing behind. *)
THEOREM NothingCountedTwice == Spec => []CountedOnce
  <1>1. PipeInv => CountedOnce
    BY DEF PipeInv
  <1> QED
    BY <1>1, PipeInitially, PipeInductive, PTL DEF Spec

(* For any batches, capacities and refused rows, through crashes and        *)
(* resends: a batch answered 202 is accounted for event by event, one       *)
(* answered 503 left nothing. *)
THEOREM WholeBatches == Spec => []AllOrNothing
  <1>1. PipeInv => AllOrNothing
    <2> SUFFICES ASSUME PipeInv, NEW r \in Reqs
                 PROVE  /\ status[r] = 202 => EventsOf(r) \subseteq Kept
                        /\ status[r] = 503 => EventsOf(r) \intersect Kept = {}
      BY DEF AllOrNothing
    <2>1. \A e \in EventsOf(r) : e \in Events /\ e[1] = r /\ e[2] \in 1..BatchLen[r]
      BY DEF Events, EventsOf
    <2>2. Kept = {e \in Events : e[2] <= pushed[e[1]]} /\ BatchLen[r] \in Nat
      BY BatcherAssumption DEF PipeInv, KeptArePushed
    <2>3. /\ status[r] = 202 => pushed[r] = BatchLen[r]
          /\ status[r] = 503 => pushed[r] = 0
      BY DEF PipeInv, Requests
    <2> QED
      BY <2>1, <2>2, <2>3
  <1> QED
    BY <1>1, PipeInitially, PipeInductive, PTL DEF Spec

(* For any batches, capacities and refused rows: when the goroutine has     *)
(* stopped, nothing that was in memory when Stop was called still is, even  *)
(* if handlers went on filling the channel meanwhile. *)
THEOREM StopLosesNothing == Spec => []StopDrains
  <1>1. PipeInv => StopDrains
    <2> SUFFICES ASSUME PipeInv, run = "stopped"
                 PROVE  atStop \subseteq Saved \union lost \union dropped
      BY DEF StopDrains
    <2>1. batch = <<>> /\ retry = <<>> /\ buf = <<>> /\ draining
      BY DEF PipeInv, Stages
    <2>2. InMemory = Ran(ch)
      BY <2>1 DEF InMemory, Ran
    <2> QED
      BY <2>1, <2>2 DEF PipeInv, Drained, Kept
  <1> QED
    BY <1>1, PipeInitially, PipeInductive, PTL DEF Spec

(* Type correctness: the channel keeps to its capacity, and no handler      *)
(* pushes past the end of its batch. *)
THEOREM TypesHold == Spec => []TypeOK
  <1>1. PipeInv => TypeOK
    BY DEF PipeInv, PipeTypes, Inv, HandlerTypes, Requests, TypeOK
  <1> QED
    BY <1>1, PipeInitially, PipeInductive, PTL DEF Spec
=============================================================================
