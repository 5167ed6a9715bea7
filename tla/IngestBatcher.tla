--------------------------- MODULE IngestBatcher ----------------------------
(***************************************************************************)
(* The analytics write path behind POST /api/v1/events: the admission of a *)
(* batch into the bounded channel (ingest/handler.go) and the goroutine    *)
(* that takes events off it and saves them (ingest/batcher.go).            *)
(*                                                                         *)
(* A request here is one that passed authentication and validation; an     *)
(* event is a pair of its request and its place in the batch.  The rows a  *)
(* save refuses are fixed at the start: each row is decided by one save,   *)
(* so choosing them beforehand is choosing them at that save.              *)
(***************************************************************************)
EXTENDS Naturals, Sequences, FiniteSets

CONSTANTS
    Reqs,           \* POSTed batches
    BatchLen,       \* request -> number of its events
    NoReq,          \* admitMu is free
    ChannelCap,     \* BatcherChannelCap
    FlushSize,      \* FlushSize
    ChunkSize,      \* flushChunkSize
    MaxSends,       \* bound on the sends of one batch, retries included
    MaxUnsavable    \* bound on the rows a save refuses

ASSUME BatcherAssumption ==
    /\ BatchLen \in [Reqs -> Nat \ {0}]
    /\ {ChannelCap, FlushSize, ChunkSize, MaxSends} \subseteq Nat \ {0}
    /\ NoReq \notin Reqs

VARIABLES
    pc,         \* request -> where its handler stands
    sends,      \* request -> times it was sent
    pushed,     \* request -> events of this send already in the channel
    status,     \* request -> HTTP status it was answered, 0 before
    admitMu,    \* request admitting its batch
    ch,         \* the channel
    buf,        \* events taken off the channel since the last flush
    batch,      \* rows of the running flush not yet tried
    retry,      \* rows of a failed chunk still to be saved one by one
    run,        \* where the flush goroutine stands
    draining,   \* it has seen the stop signal
    stopping,   \* done is closed
    events,     \* how many rows of the events collection an event has
    lost,       \* events whose own save was refused
    dropped,    \* events lost with the process, or with a whole flush
    unsavable,  \* events whose save is refused
    atStop      \* events in the channel or past it when Stop was called

handlerVars == <<pc, sends, pushed, status, admitMu>>
flushVars == <<buf, batch, retry, run, draining, events, lost, dropped>>
vars == <<handlerVars, ch, flushVars, stopping, unsavable, atStop>>

EventsOf(r) == {<<r, i>> : i \in 1..BatchLen[r]}
Events == UNION {EventsOf(r) : r \in Reqs}

Ran(s) == {s[i] : i \in 1..Len(s)}
Times(s, e) == Cardinality({i \in 1..Len(s) : s[i] = e})
Min2(a, b) == IF a < b THEN a ELSE b

Init ==
    /\ pc = [r \in Reqs |-> "idle"]
    /\ sends = [r \in Reqs |-> 0]
    /\ pushed = [r \in Reqs |-> 0]
    /\ status = [r \in Reqs |-> 0]
    /\ admitMu = NoReq
    /\ ch = <<>> /\ buf = <<>> /\ batch = <<>> /\ retry = <<>>
    /\ run = "select" /\ draining = FALSE /\ stopping = FALSE
    /\ events = [e \in Events |-> 0] /\ lost = {} /\ dropped = {} /\ atStop = {}
    /\ unsavable \in {s \in SUBSET Events : Cardinality(s) <= MaxUnsavable}

-----------------------------------------------------------------------------
(* postEvents.  A client resends the whole batch when it was told 503.     *)
Post(r) ==
    /\ pc[r] = "idle" \/ status[r] = 503
    /\ ~stopping /\ sends[r] < MaxSends
    /\ pc' = [pc EXCEPT ![r] = "admit"]
    /\ sends' = [sends EXCEPT ![r] = @ + 1]
    /\ status' = [status EXCEPT ![r] = 0]
    /\ pushed' = [pushed EXCEPT ![r] = 0]
    /\ UNCHANGED <<admitMu, ch, flushVars, stopping, unsavable, atStop>>

(* Mutant: the capacity check without the admission lock. *)
AdmitUnlocked(r) ==
    /\ pc[r] = "admit"
    /\ IF BatchLen[r] > ChannelCap - Len(ch)
       THEN /\ pc' = [pc EXCEPT ![r] = "done"]
            /\ status' = [status EXCEPT ![r] = 503]
       ELSE /\ pc' = [pc EXCEPT ![r] = "push"]
            /\ UNCHANGED status
    /\ UNCHANGED <<admitMu, sends, pushed, ch, flushVars, stopping, unsavable, atStop>>

(* Mutant: events are enqueued one by one, and a full channel ends the     *)
(* batch half way (what EnqueueAll's comment warns of).                    *)
AdmitPrefix(r) ==
    /\ pc[r] = "admit"
    /\ admitMu = NoReq
    /\ IF Len(ch) = ChannelCap
       THEN /\ pc' = [pc EXCEPT ![r] = "done"]
            /\ status' = [status EXCEPT ![r] = 503]
            /\ UNCHANGED <<ch, pushed>>
       ELSE /\ ch' = Append(ch, <<r, pushed[r] + 1>>)
            /\ pushed' = [pushed EXCEPT ![r] = @ + 1]
            /\ pc' = [pc EXCEPT ![r] = IF pushed[r] + 1 = BatchLen[r] THEN "done" ELSE "admit"]
            /\ status' = [status EXCEPT ![r] = IF pushed[r] + 1 = BatchLen[r] THEN 202 ELSE 0]
    /\ UNCHANGED <<admitMu, sends, flushVars, stopping, unsavable, atStop>>

(* EnqueueAll: the capacity check, under admitMu. *)
Admit(r) ==
    /\ pc[r] = "admit"
    /\ admitMu = NoReq
    /\ IF BatchLen[r] > ChannelCap - Len(ch)
       THEN /\ pc' = [pc EXCEPT ![r] = "done"]
            /\ status' = [status EXCEPT ![r] = 503]
            /\ UNCHANGED admitMu
       ELSE /\ pc' = [pc EXCEPT ![r] = "push"]
            /\ admitMu' = r
            /\ UNCHANGED status
    /\ UNCHANGED <<sends, pushed, ch, flushVars, stopping, unsavable, atStop>>

(* Mutant: the send loop runs one step past the batch. *)
PushPastEnd(r) ==
    /\ pc[r] = "push"
    /\ Len(ch) < ChannelCap
    /\ ch' = Append(ch, <<r, pushed[r] + 1>>)
    /\ pushed' = [pushed EXCEPT ![r] = @ + 1]
    /\ IF pushed[r] = BatchLen[r]
       THEN /\ pc' = [pc EXCEPT ![r] = "done"]
            /\ status' = [status EXCEPT ![r] = 202]
            /\ admitMu' = NoReq
       ELSE UNCHANGED <<pc, status, admitMu>>
    /\ UNCHANGED <<sends, flushVars, stopping, unsavable, atStop>>

(* EnqueueAll: one send on the channel, which blocks while it is full; the *)
(* last one gives admitMu up and the handler answers 202.                  *)
Push(r) ==
    /\ pc[r] = "push"
    /\ Len(ch) < ChannelCap
    /\ ch' = Append(ch, <<r, pushed[r] + 1>>)
    /\ pushed' = [pushed EXCEPT ![r] = @ + 1]
    /\ IF pushed[r] + 1 = BatchLen[r]
       THEN /\ pc' = [pc EXCEPT ![r] = "done"]
            /\ status' = [status EXCEPT ![r] = 202]
            /\ admitMu' = NoReq
       ELSE UNCHANGED <<pc, status, admitMu>>
    /\ UNCHANGED <<sends, flushVars, stopping, unsavable, atStop>>

-----------------------------------------------------------------------------
(* run: the select loop of the flush goroutine.                            *)
Beside == UNCHANGED <<handlerVars, stopping, unsavable, atStop>>

Take ==
    /\ run = "select"
    /\ ch # <<>>
    /\ buf' = Append(buf, Head(ch))
    /\ ch' = Tail(ch)
    /\ run' = IF ~draining /\ Len(buf') >= FlushSize THEN "flush" ELSE "select"
    /\ UNCHANGED <<batch, retry, draining, events, lost, dropped>> /\ Beside

(* Mutant: only a full buffer is flushed. *)
TickFull ==
    /\ run = "select" /\ ~draining
    /\ Len(buf) >= FlushSize
    /\ run' = "flush"
    /\ UNCHANGED <<ch, buf, batch, retry, draining, events, lost, dropped>> /\ Beside

Tick ==
    /\ run = "select" /\ ~draining
    /\ buf # <<>>
    /\ run' = "flush"
    /\ UNCHANGED <<ch, buf, batch, retry, draining, events, lost, dropped>> /\ Beside

SeeDone ==
    /\ run = "select" /\ ~draining
    /\ stopping
    /\ draining' = TRUE
    /\ UNCHANGED <<ch, buf, batch, retry, run, events, lost, dropped>> /\ Beside

(* Mutant: the stop signal ends the goroutine with its buffer unflushed. *)
DrainEndUnflushed ==
    /\ run = "select" /\ draining
    /\ ch = <<>>
    /\ run' = "stopped"
    /\ UNCHANGED <<ch, buf, batch, retry, draining, events, lost, dropped>> /\ Beside

DrainEnd ==
    /\ run = "select" /\ draining
    /\ ch = <<>>
    /\ run' = IF buf = <<>> THEN "stopped" ELSE "flush"
    /\ UNCHANGED <<ch, buf, batch, retry, draining, events, lost, dropped>> /\ Beside

(* flush: without the events collection the whole batch is skipped. *)
Flush ==
    /\ run = "flush"
    /\ \/ batch' = buf /\ UNCHANGED dropped
       \/ batch' = <<>> /\ dropped' = dropped \union Ran(buf)
    /\ buf' = <<>>
    /\ run' = "chunks"
    /\ UNCHANGED <<ch, retry, draining, events, lost>> /\ Beside

(* SplitBatch: the next chunk, and what follows it. *)
Chunk == SubSeq(batch, 1, Min2(ChunkSize, Len(batch)))
AfterChunk == SubSeq(batch, Len(Chunk) + 1, Len(batch))
SaveRows(rows) ==
    events' = [e \in Events |-> events[e] + IF e \in unsavable THEN 0 ELSE Times(rows, e)]

(* flushChunk: one transaction that commits every row but the refused ones *)
CommitChunk ==
    /\ run = "chunks" /\ batch # <<>>
    /\ SaveRows(Chunk)
    /\ lost' = lost \union (Ran(Chunk) \intersect unsavable)
    /\ batch' = AfterChunk
    /\ UNCHANGED <<ch, buf, retry, run, draining, dropped>> /\ Beside

(* Mutant: a failed transaction commits its rows and they are retried all  *)
(* the same.                                                               *)
ChunkFailsCommitted ==
    /\ run = "chunks" /\ batch # <<>>
    /\ SaveRows(Chunk)
    /\ retry' = Chunk
    /\ batch' = AfterChunk
    /\ run' = "retry"
    /\ UNCHANGED <<ch, buf, draining, lost, dropped>> /\ Beside

(* or a transaction that fails: its rows are then saved one by one.        *)
ChunkFails ==
    /\ run = "chunks" /\ batch # <<>>
    /\ retry' = Chunk
    /\ batch' = AfterChunk
    /\ run' = "retry"
    /\ UNCHANGED <<ch, buf, draining, events, lost, dropped>> /\ Beside

RetryRow ==
    /\ run = "retry"
    /\ IF Head(retry) \in unsavable
       THEN lost' = lost \union {Head(retry)} /\ UNCHANGED events
       ELSE events' = [events EXCEPT ![Head(retry)] = @ + 1] /\ UNCHANGED lost
    /\ retry' = Tail(retry)
    /\ run' = IF Tail(retry) = <<>> THEN "chunks" ELSE "retry"
    /\ UNCHANGED <<ch, buf, batch, draining, dropped>> /\ Beside

FlushEnd ==
    /\ run = "chunks" /\ batch = <<>>
    /\ run' = IF draining THEN "stopped" ELSE "select"
    /\ UNCHANGED <<ch, buf, batch, retry, draining, events, lost, dropped>> /\ Beside

-----------------------------------------------------------------------------
(* Everything that holds an event in memory. *)
InMemory == Ran(ch) \union Ran(buf) \union Ran(batch) \union Ran(retry)

(* OnTerminate calls Stop; handlers that were let in may still be running. *)
Stop ==
    /\ ~stopping
    /\ stopping' = TRUE
    /\ atStop' = InMemory
    /\ UNCHANGED <<handlerVars, ch, flushVars, unsavable>>

(* The process dies and starts again with an empty pipeline. *)
InFlight == {r \in Reqs : pc[r] \in {"admit", "push"}}

Crash ==
    /\ run # "stopped"
    /\ InFlight # {} \/ InMemory # {}
    /\ pc' = [r \in Reqs |-> IF r \in InFlight THEN "done" ELSE pc[r]]
    /\ dropped' = dropped \union InMemory
    /\ admitMu' = NoReq
    /\ ch' = <<>> /\ buf' = <<>> /\ batch' = <<>> /\ retry' = <<>>
    /\ run' = "select" /\ draining' = FALSE /\ stopping' = FALSE /\ atStop' = {}
    /\ UNCHANGED <<sends, pushed, status, events, lost, unsavable>>

Handler(r) == Admit(r) \/ Push(r)

Flusher ==
    \/ Take \/ Tick \/ SeeDone \/ DrainEnd
    \/ Flush \/ CommitChunk \/ ChunkFails \/ RetryRow \/ FlushEnd

(* Stop returned and no handler is left: the process is gone. *)
Terminated == run = "stopped" /\ InFlight = {} /\ UNCHANGED vars

Next ==
    \/ \E r \in Reqs : Post(r) \/ Handler(r)
    \/ Flusher \/ Stop \/ Crash \/ Terminated

(* The goroutine and the handlers run on; the ticker ticks every second.   *)
Spec == Init /\ [][Next]_vars
FairSpec == Spec /\ WF_vars(Flusher) /\ \A r \in Reqs : WF_vars(Handler(r))

-----------------------------------------------------------------------------
TypeOK ==
    /\ pc \in [Reqs -> {"idle", "admit", "push", "done"}]
    /\ sends \in [Reqs -> 0..MaxSends]
    /\ pushed \in [Reqs -> Nat] /\ \A r \in Reqs : pushed[r] <= BatchLen[r]
    /\ status \in [Reqs -> {0, 202, 503}]
    /\ admitMu \in Reqs \union {NoReq}
    /\ ch \in Seq(Events) /\ Len(ch) <= ChannelCap
    /\ buf \in Seq(Events) /\ batch \in Seq(Events) /\ retry \in Seq(Events)
    /\ run \in {"select", "flush", "chunks", "retry", "stopped"}
    /\ draining \in BOOLEAN /\ stopping \in BOOLEAN
    /\ events \in [Events -> Nat]
    /\ {lost, dropped, unsavable, atStop} \subseteq SUBSET Events

(* An admitted handler never waits for room ("cannot block: capacity was   *)
(* reserved above", batcher.go:102), however slow the flush is: it would   *)
(* hold admitMu and stop the ingest of everyone.                           *)
PushNeverBlocks ==
    \A r \in Reqs : pc[r] = "push" => Len(ch) < ChannelCap

(* Every event is in one place at most and has one row at most: neither a  *)
(* retry of a failed chunk nor the resend of a refused batch counts an     *)
(* event twice (batcher.go:91-95, 205-214).                                *)
Queued == retry \o batch \o buf \o ch
Saved == {e \in Events : events[e] > 0}

CountedOnce ==
    /\ \A i, j \in 1..Len(Queued) : Queued[i] = Queued[j] => i = j
    /\ \A e \in Events : events[e] <= 1
    /\ Ran(Queued) \intersect (Saved \union lost \union dropped) = {}
    /\ Saved \intersect (lost \union dropped) = {}

(* A batch is admitted as a whole or not at all: a 202 accounts for each   *)
(* of its events, a 503 left none behind.  What is accounted for is queued *)
(* or saved, was refused by its own save ("a whole 250-chunk is never      *)
(* skipped", batcher.go:183), or went with the process or the collection.  *)
Kept == InMemory \union Saved \union lost \union dropped

AllOrNothing ==
    \A r \in Reqs :
        /\ status[r] = 202 => EventsOf(r) \subseteq Kept
        /\ status[r] = 503 => EventsOf(r) \intersect Kept = {}

(* When Stop returns, all that was queued when it was called is saved, or  *)
(* was refused by its own save, or fell to a missing collection.           *)
StopDrains ==
    run = "stopped" => atStop \subseteq Saved \union lost \union dropped

(* A batch that was sent is answered, and an accepted event does not stay  *)
(* in memory: it is saved or given up while the process lives.             *)
Settled(r) ==
    /\ pc[r] = "done"
    /\ status[r] = 202 => EventsOf(r) \intersect InMemory = {} \/ run = "stopped"

EveryBatchSettles == \A r \in Reqs : pc[r] = "admit" ~> Settled(r)
=============================================================================
