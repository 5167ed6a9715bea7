----------------------------- MODULE StreamHub ------------------------------
(***************************************************************************)
(* The SSE fan-out of one server process (stream/hub.go, stream/stream.go).*)
(*                                                                         *)
(* A connection is a goroutine inside getStream: it takes one of its key's *)
(* stream slots, subscribes a bounded channel to its environment, forwards *)
(* what arrives, and on any end runs its deferred calls in reverse order.  *)
(* A notifier copies the subscriber set under the hub lock and then sends  *)
(* without it, so subscribers come and go while it sends.                  *)
(***************************************************************************)
EXTENDS Naturals, Sequences, FiniteSets

CONSTANTS
    Streams,           \* connections
    KeyOf,             \* connection -> SDK key
    EnvOf,             \* connection -> environment the key is bound to
    Notifiers,         \* goroutines that call Notify
    ChanCap,           \* chanCap, the capacity of a subscriber channel
    MaxStreamsPerKey   \* concurrent connections of one key

ASSUME StreamHubAssumption ==
    /\ IsFiniteSet(Streams)
    /\ ChanCap \in Nat
    /\ MaxStreamsPerKey \in Nat

VARIABLES
    conn,           \* connection -> where its handler stands
    streamActive,   \* key -> slots taken
    subs,           \* environment -> subscribed connections
    chan,           \* connection -> queued updates
    received,       \* connection -> updates written to the client
    dropped,        \* connection -> updates a full channel lost
    sending         \* notifier -> the sends it still has to make

hubVars == <<conn, streamActive, subs, chan, received, dropped, sending>>

Keys == {KeyOf[c] : c \in Streams}
StreamEnvs == {EnvOf[c] : c \in Streams}

(* Where a connection owns a slot of its key, and a subscription. *)
Counted == {"counted", "open", "closing", "unsubscribed"}
Subscribed == {"open", "closing"}

HubInit ==
    /\ conn = [c \in Streams |-> "new"]
    /\ streamActive = [k \in Keys |-> 0]
    /\ subs = [e \in StreamEnvs |-> {}]
    /\ chan = [c \in Streams |-> <<>>]
    /\ received = [c \in Streams |-> <<>>]
    /\ dropped = [c \in Streams |-> {}]
    /\ sending = [n \in Notifiers |-> {}]

(* Mutant: the slot is counted before the cap is looked at. *)
ConnectCountsRefused(c) ==
    /\ conn[c] = "new"
    /\ streamActive' = [streamActive EXCEPT ![KeyOf[c]] = @ + 1]
    /\ conn' = [conn EXCEPT ![c] =
                   IF streamActive[KeyOf[c]] >= MaxStreamsPerKey THEN "refused" ELSE "counted"]
    /\ UNCHANGED <<subs, chan, received, dropped, sending>>

(* The check and the increment are one critical section of streamMu. *)
Connect(c) ==
    /\ conn[c] = "new"
    /\ IF streamActive[KeyOf[c]] >= MaxStreamsPerKey
       THEN /\ conn' = [conn EXCEPT ![c] = "refused"]
            /\ UNCHANGED streamActive
       ELSE /\ conn' = [conn EXCEPT ![c] = "counted"]
            /\ streamActive' = [streamActive EXCEPT ![KeyOf[c]] = @ + 1]
    /\ UNCHANGED <<subs, chan, received, dropped, sending>>

(* Mutant: the set of an environment is replaced instead of extended. *)
SubscribeReplaces(c) ==
    /\ conn[c] = "counted"
    /\ conn' = [conn EXCEPT ![c] = "open"]
    /\ subs' = [subs EXCEPT ![EnvOf[c]] = {c}]
    /\ UNCHANGED <<streamActive, chan, received, dropped, sending>>

Subscribe(c) ==
    /\ conn[c] = "counted"
    /\ conn' = [conn EXCEPT ![c] = "open"]
    /\ subs' = [subs EXCEPT ![EnvOf[c]] = @ \union {c}]
    /\ UNCHANGED <<streamActive, chan, received, dropped, sending>>

(* One round of the select loop that writes a config_update frame. *)
Forward(c) ==
    /\ conn[c] = "open"
    /\ chan[c] # <<>>
    /\ received' = [received EXCEPT ![c] = Append(@, Head(chan[c]))]
    /\ chan' = [chan EXCEPT ![c] = Tail(@)]
    /\ UNCHANGED <<conn, streamActive, subs, dropped, sending>>

(* The client leaves, the ten-minute deadline passes, or a write fails.    *)
Leave(c) ==
    /\ conn[c] = "open"
    /\ conn' = [conn EXCEPT ![c] = "closing"]
    /\ UNCHANGED <<streamActive, subs, chan, received, dropped, sending>>

Unsubscribe(c) ==
    /\ conn[c] = "closing"
    /\ conn' = [conn EXCEPT ![c] = "unsubscribed"]
    /\ subs' = [subs EXCEPT ![EnvOf[c]] = @ \ {c}]
    /\ UNCHANGED <<streamActive, chan, received, dropped, sending>>

ReleaseSlot(c) ==
    /\ conn[c] = "unsubscribed"
    /\ conn' = [conn EXCEPT ![c] = "closed"]
    /\ streamActive' = [streamActive EXCEPT ![KeyOf[c]] = @ - 1]
    /\ UNCHANGED <<subs, chan, received, dropped, sending>>

(* Notify: copy the subscribers of e under the lock, then one non-blocking *)
(* send per copied channel; a full channel loses this update.              *)
CopySubscribers(n, e, u) ==
    /\ sending' = [sending EXCEPT ![n] =
                     {[to |-> c, update |-> u] :
                        c \in IF e \in StreamEnvs THEN subs[e] ELSE {}}]
    /\ UNCHANGED <<conn, streamActive, subs, chan, received, dropped>>

Send(n, c) ==
    \E s \in sending[n] :
        /\ s.to = c
        /\ sending' = [sending EXCEPT ![n] = @ \ {s}]
        /\ IF Len(chan[c]) < ChanCap
           THEN /\ chan' = [chan EXCEPT ![c] = Append(@, s.update)]
                /\ UNCHANGED dropped
           ELSE /\ dropped' = [dropped EXCEPT ![c] = @ \union {s.update}]
                /\ UNCHANGED chan
        /\ UNCHANGED <<conn, streamActive, subs, received>>

AllSent(n) == sending[n] = {} /\ UNCHANGED hubVars

(* The process dies with every connection and every channel. *)
HubCrash ==
    /\ conn' = [c \in Streams |-> IF conn[c] = "new" THEN "new" ELSE "closed"]
    /\ streamActive' = [k \in Keys |-> 0]
    /\ subs' = [e \in StreamEnvs |-> {}]
    /\ chan' = [c \in Streams |-> <<>>]
    /\ sending' = [n \in Notifiers |-> {}]
    /\ UNCHANGED <<received, dropped>>

ComesAndGoes(c) ==
    \/ Connect(c) \/ Subscribe(c)
    \/ Leave(c) \/ Unsubscribe(c) \/ ReleaseSlot(c)

Connection(c) == ComesAndGoes(c) \/ Forward(c)

(* The connections alone, with nobody to notify them: nothing to forward. *)
HubNext == HubCrash \/ \E c \in Streams : ComesAndGoes(c)
HubSpec == HubInit /\ [][HubNext]_hubVars

-----------------------------------------------------------------------------
(* A key's slot counter is the number of its connections that still hold a *)
(* slot, whatever way they end: a slot is neither leaked nor freed twice,  *)
(* and the cap of streams per key is never exceeded.                       *)
SlotsAccounted ==
    \A k \in Keys :
        streamActive[k] =
            Cardinality({c \in Streams : KeyOf[c] = k /\ conn[c] \in Counted})

(* The hub holds exactly the connections that are subscribed: a gone one   *)
(* leaves no channel behind, an open one is never forgotten.               *)
HubHoldsOpenStreams ==
    \A e \in StreamEnvs :
        subs[e] = {c \in Streams : EnvOf[c] = e /\ conn[c] \in Subscribed}

(* No way a connection ends leaves a slot or a channel behind. *)
NoLeak == SlotsAccounted /\ HubHoldsOpenStreams
=============================================================================
