--------------------------- MODULE ReleaseStream ----------------------------
(***************************************************************************)
(* Releases, the SSE hub and SDK clients of one server process.            *)
(*                                                                         *)
(* The after-create hook makes the save of a release call the hub's Notify *)
(* before the handler gives up writeMu.  A client keeps the version and    *)
(* etag of the configuration it last fetched, and polls /api/v1/config     *)
(* with If-None-Match (fetch/fetch.go) whatever its streams deliver.       *)
(***************************************************************************)
EXTENDS Releases, StreamHub

CONSTANT Clients

VARIABLES since,     \* connection -> max version of its env when it subscribed
          cached,    \* client -> version and etag it last fetched
          asking     \* client -> its key was accepted, the release not yet read

clientVars == <<since, cached, asking>>
streamVars == <<vars, hubVars, clientVars>>

(* Notifications do not leave the process, so one process is looked at. *)
ASSUME OneProcess == \A p, q \in Procs : p = q

(* Notify is called by the handlers of releases, in their after-create hook. *)
ASSUME HandlersNotify == Notifiers = Reqs

(* An SDK key is bound to an environment when it is minted. *)
ASSUME ClientsAssumption ==
    /\ \A c \in Streams \union Clients : EnvOf[c] \in Envs
    /\ ChanCap > 0

(* emptyReleaseBody: version 0, and an etag that is no release's. *)
NoRelease == [version |-> 0, etag |-> <<0, Empty>>]

StreamInit ==
    /\ Init
    /\ HubInit
    /\ since = [c \in Streams |-> 0]
    /\ cached = [c \in Clients |-> NoRelease]
    /\ asking = [c \in Clients |-> FALSE]

Update(r) == [version |-> want[r], etag |-> EtagFor(want[r], built[r]), env |-> task[r].env]

FanOutStart(r) ==
    /\ NotifyStart(r)
    /\ CopySubscribers(r, task[r].env, Update(r))
    /\ UNCHANGED clientVars

FanOutSend(r) ==
    /\ pc[r] = "notifying"
    /\ \E c \in Streams : Send(r, c)
    /\ UNCHANGED <<vars, clientVars>>

FanOutEnd(r) ==
    /\ NotifyEnd(r)
    /\ AllSent(r)
    /\ UNCHANGED clientVars

FanOut(r) == FanOutStart(r) \/ FanOutSend(r) \/ FanOutEnd(r)

ProcessCrash(p) ==
    /\ Crash(p)
    /\ HubCrash
    /\ UNCHANGED clientVars

Stream(c) ==
    /\ Connection(c)
    /\ since' = IF conn[c] = "counted"
                THEN [since EXCEPT ![c] = CHOOSE m \in Versions(EnvOf[c]) \union {0} :
                                            IsMaxVersion(EnvOf[c], m)]
                ELSE since
    /\ UNCHANGED <<vars, cached, asking>>

-----------------------------------------------------------------------------
(* latestRelease and the 304 decision of getConfig. *)
EtagMatches(ifNoneMatch, etag) == ifNoneMatch = etag

(* Mutant: some release of the environment, not its newest. *)
AnyRelease(e) == RowsOf(e)

LatestRelease(e) == {x \in RowsOf(e) : IsMaxVersion(e, x.version)}

(* One GET /api/v1/config: RequireKeyEnv accepts the key of a live         *)
(* environment, then the release is read.  An environment that is empty,   *)
(* or was deleted in between, answers version 0.                           *)
FetchAuth(c) ==
    /\ ~asking[c]
    /\ EnvOf[c] \in environments
    /\ asking' = [asking EXCEPT ![c] = TRUE]
    /\ UNCHANGED <<vars, hubVars, since, cached>>

FetchFresh(c) ==
    /\ asking[c]
    /\ asking' = [asking EXCEPT ![c] = FALSE]
    /\ \/ /\ LatestRelease(EnvOf[c]) = {}
          /\ cached' = [cached EXCEPT ![c] = NoRelease]
       \/ \E x \in LatestRelease(EnvOf[c]) :
            /\ ~EtagMatches(cached[c].etag, x.etag)
            /\ cached' = [cached EXCEPT ![c] = [version |-> x.version, etag |-> x.etag]]
    /\ UNCHANGED <<vars, hubVars, since>>

FetchNotModified(c) ==
    /\ asking[c]
    /\ \E x \in LatestRelease(EnvOf[c]) : EtagMatches(cached[c].etag, x.etag)
    /\ asking' = [asking EXCEPT ![c] = FALSE]
    /\ UNCHANGED <<vars, hubVars, since, cached>>

Fetch(c) == FetchAuth(c) \/ FetchFresh(c) \/ FetchNotModified(c)

Quiet == UNCHANGED <<hubVars, clientVars>>

StreamNext ==
    \/ \E r \in Reqs : (Arrive(r) \/ Handle(r)) /\ Quiet
    \/ \E r \in Reqs : FanOut(r)
    \/ \E p \in Procs : ProcessCrash(p)
    \/ Environment /\ Quiet
    \/ \E c \in Streams : Stream(c)
    \/ \E c \in Clients : Fetch(c)

StreamSpec == StreamInit /\ [][StreamNext]_streamVars

(* Handlers run on, and an SDK polls whatever its stream does (CONTRACT.md: *)
(* the bound on staleness is the poll's).  No fairness of the streams.      *)
StreamFairSpec ==
    /\ StreamSpec
    /\ \A r \in Reqs : WF_streamVars((Handle(r) /\ Quiet) \/ FanOut(r))
    /\ \A c \in Clients : WF_streamVars(Fetch(c))
-----------------------------------------------------------------------------
(* What a connection has written and still has queued, oldest first. *)
Arriving(c) == received[c] \o chan[c]

(* A connection never sees a version twice, nor an older one after a newer *)
(* one: the save and its fan-out are one critical section of writeMu.      *)
UpdatesInOrder ==
    \A c \in Streams : \A i, j \in 1..Len(Arriving(c)) :
        i < j => Arriving(c)[i].version < Arriving(c)[j].version

(* What a connection is told was committed as told: no frame announces a   *)
(* row that was refused, failed, or belongs to another environment.        *)
UpdatesCommitted ==
    \A c \in Streams : \A i \in 1..Len(Arriving(c)) :
        LET u == Arriving(c)[i]
        IN  /\ u.env = EnvOf[c]
            /\ u.env \in environments =>
                 \E x \in Picked(u.env, u.version) : x.etag = u.etag

(* A subscriber misses a release only because its own channel was full:    *)
(* every release fanned out after it subscribed was queued or dropped.     *)
NoSilentGap ==
    \A c \in Streams, r \in Reqs :
        /\ conn[c] = "open" /\ pc[r] = "respond"
        /\ task[r].env = EnvOf[c] /\ task[r].env \in environments
        /\ want[r] > since[c]
        => \/ Update(r) \in dropped[c]
           \/ \E i \in 1..Len(Arriving(c)) : Arriving(c)[i] = Update(r)

(* A 304 confirms the newest version: no client whose etag matches holds   *)
(* an older one, even when a rollback republished the very same bytes.     *)
NotModifiedIsCurrent ==
    \A c \in Clients : \A x \in LatestRelease(EnvOf[c]) :
        EtagMatches(cached[c].etag, x.etag) => cached[c].version = x.version

(* A client never goes back to an older version of a live environment. *)
ClientsMonotonic ==
    [][\A c \in Clients : EnvOf[c] \in environments =>
         cached'[c].version >= cached[c].version]_streamVars

(* Every client of a live environment ends up on its newest release: the   *)
(* poll alone gets it there, whatever becomes of its stream.               *)
ClientsCatchUp ==
    \A c \in Clients :
        <>[](EnvOf[c] \in environments =>
               \A v \in Versions(EnvOf[c]) : v <= cached[c].version)
=============================================================================
