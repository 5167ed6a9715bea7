-------------------------------- MODULE Purge --------------------------------
(***************************************************************************)
(* The retention purge (purge/purge.go): a run nulls the identity of old   *)
(* events, rolls events older than the raw window into daily counters and  *)
(* deletes them, and deletes daily counters older than the rollup window.  *)
(* It walks each collection in pages by a (time, id) cursor, one           *)
(* transaction a page. Runs come from the daily ticker and from the admin  *)
(* route, and nothing keeps two of them apart.                             *)
(*                                                                         *)
(* Time is counted in ticks, DayLen of them a day. An event keeps the id   *)
(* it is stored under and its timestamp in ts; its daily row is the one of *)
(* its day and key (environment, flag, kind, variant, version). daily[e]   *)
(* says how often that row counts e: the counters of a row are kept as the *)
(* bag of the events added to them, and a row exists while it counts one.  *)
(*                                                                         *)
(* The scrub and the sweep of the daily rows do the same to a row whoever  *)
(* else touched it since it was read, so their page is read and committed  *)
(* in one step. Rolling up is not like that: a page of raw events is read  *)
(* in one step and rolled up in another.                                   *)
(***************************************************************************)
EXTENDS Retention, FiniteSets

CONSTANTS
    Events,       \* ids of events, naturals: pages are ordered by (ts, id)
    KeyOf,        \* the counter key of each event
    DayLen,       \* ticks a day
    ScrubDays,    \* identity is kept this long (2 in the code)
    MaxPastDays,  \* an event may be this old when it arrives (90 in the code)
    PageSize,     \* rows a page (2000 in the code)
    Tickers,      \* runs started by the daily ticker
    Manuals,      \* runs started by POST .../maintenance/purge
    MaxTime,      \* bound: the clock stops here
    MaxFailures   \* bound: failed page transactions and restarts

Runs == Tickers \cup Manuals

ASSUME PurgeAssumption ==
    /\ Events \subseteq Nat \ {0}
    /\ DayLen \in Nat \ {0} /\ PageSize \in Nat \ {0}
    /\ ScrubDays \in Nat /\ MaxPastDays \in Nat /\ MaxTime \in Nat
    /\ Tickers \cap Manuals = {}

VARIABLES
    now,         \* the clock
    ts,          \* the timestamp of each event, Unborn before it is stored
    raw,         \* events that are rows of the collection events
    identified,  \* those whose bucket and country are still set
    daily,       \* how often the daily row of an event counts it
    runs,        \* per run: its step, cutoffs, cursor and page
    overlapped,  \* history: two runs have been under way at once
    failures     \* failed pages and restarts so far

rowVars == <<ts, raw, identified, daily>>
purgeVars == <<now, rowVars, runs, overlapped, failures>>

Unborn == -1
Day(t) == t \div DayLen                  \* DayBucket
DayStart(d) == d * DayLen
Bucket(e) == <<DayStart(Day(ts[e])), KeyOf[e]>>

NoCursor == <<-1, 0>>
Before(i, j) == i[1] < j[1] \/ (i[1] = j[1] /\ i[2] < j[2])

(* Mutant: the cursor forgets the id, rows of one timestamp are skipped. *)
AfterTime(i, cursor) == i[1] > cursor[1]

After(i, cursor) == Before(cursor, i)

(***************************************************************************)
(* The next page of a walk: the first PageSize items after the cursor that *)
(* are not younger than the cutoff. An item exactly at the cutoff is on    *)
(* the page (the filter is <=) but not doomed (ShouldDelete is <).         *)
(***************************************************************************)
Page(items, cutoff, cursor) ==
    LET left == {i \in items : i[1] <= cutoff /\ After(i, cursor)}
    IN  {i \in left : Cardinality({j \in left : Before(j, i)}) < PageSize}
Last(page) == CHOOSE i \in page : \A j \in page \ {i} : Before(j, i)
Doomed(page, cutoff) == {i \in page : i[1] < cutoff}

EventItems == {<<ts[e], e>> : e \in raw}
DailyItems == {Bucket(e) : e \in {x \in Events : daily[x] > 0}}

NoRun == [pc |-> "idle"]
Active(r) == runs[r].pc # "idle"

PurgeInit ==
    /\ RetentionInit
    /\ now = 0
    /\ ts = [e \in Events |-> Unborn]
    /\ raw = {} /\ identified = {}
    /\ daily = [e \in Events |-> 0]
    /\ runs = [r \in Runs |-> NoRun]
    /\ overlapped = FALSE /\ failures = 0

-----------------------------------------------------------------------------
(* The events arrive: clampTs refuses those that are too old. *)
Ingest(e) ==
    /\ ts[e] = Unborn
    /\ \E t \in 0..now : /\ t >= now - MaxPastDays * DayLen
                         /\ ts' = [ts EXCEPT ![e] = t]
    /\ raw' = raw \cup {e} /\ identified' = identified \cup {e}
    /\ UNCHANGED <<retentionVars, now, daily, runs, overlapped, failures>>

(* Bound: a run takes less than two ticks. *)
Tick ==
    /\ now < MaxTime
    /\ \A r \in Runs : Active(r) => runs[r].started = now
    /\ now' = now + 1
    /\ UNCHANGED <<retentionVars, rowVars, runs, overlapped, failures>>

(***************************************************************************)
(* A run begins. The route computes the raw cutoff at once, the ticker     *)
(* after the scrub, both from the clock of the start.                      *)
(***************************************************************************)
RawCutoff(started) == started - current.raw * DayLen

Start(r) ==
    /\ ~Active(r)
    /\ runs' = [runs EXCEPT ![r] =
                  [pc |-> "scrub", started |-> now, torn |-> FALSE,
                   cutoff |-> RawCutoff(now), rollup |-> 0,
                   cursor |-> NoCursor, page |-> {}]]
    /\ overlapped' = (overlapped \/ \E o \in Runs : Active(o))
    /\ UNCHANGED <<retentionVars, now, rowVars, failures>>

\* After a page of n items: the next page, or what done says of the run.
Advance(r, page, done) ==
    runs' = [runs EXCEPT ![r] =
        IF Cardinality(page) < PageSize THEN done
        ELSE [@ EXCEPT !.cursor = Last(page), !.page = {}]]

ScrubPage(r) ==
    /\ runs[r].pc = "scrub"
    /\ LET cutoff == runs[r].started - ScrubDays * DayLen
           page   == Page(EventItems, cutoff, runs[r].cursor)
       IN  /\ identified' = identified \ {i[2] : i \in Doomed(page, cutoff)}
           /\ Advance(r, page,
                [runs[r] EXCEPT !.pc = "raw", !.cursor = NoCursor,
                                !.cutoff = IF r \in Tickers
                                           THEN RawCutoff(runs[r].started) ELSE @])
    /\ UNCHANGED <<retentionVars, now, ts, raw, daily, overlapped, failures>>

\* The raw pages are done; the first of two reads of the windows follows.
RollupRead(run) == [run EXCEPT !.pc = "window", !.cursor = NoCursor, !.page = {},
                               !.rollup = current.rollup]

ReadPage(r) ==
    /\ runs[r].pc = "raw" /\ runs[r].page = {}
    /\ LET page == Page(EventItems, runs[r].cutoff, runs[r].cursor)
       IN  runs' = [runs EXCEPT ![r] = IF page = {} THEN RollupRead(@)
                                       ELSE [@ EXCEPT !.page = page]]
    /\ UNCHANGED <<retentionVars, now, rowVars, overlapped, failures>>

(* Mutant: the rollups commit although the deletes of the page do not. *)
CommitPageKeepsRows(r) ==
    /\ runs[r].pc = "raw" /\ runs[r].page # {}
    /\ LET doomed == {i[2] : i \in Doomed(runs[r].page, runs[r].cutoff)}
       IN  daily' = [e \in Events |-> daily[e] + IF e \in doomed THEN 1 ELSE 0]
    /\ Advance(r, runs[r].page, RollupRead(runs[r]))
    /\ UNCHANGED <<retentionVars, now, ts, raw, identified, overlapped, failures>>

(***************************************************************************)
(* One transaction: the page is rolled up and its rows are deleted. It is  *)
(* the page as it was read: a row another run has deleted since is rolled  *)
(* up again, and deleting it is no error.                                  *)
(***************************************************************************)
CommitPage(r) ==
    /\ runs[r].pc = "raw" /\ runs[r].page # {}
    /\ LET doomed == {i[2] : i \in Doomed(runs[r].page, runs[r].cutoff)}
       IN  /\ daily' = [e \in Events |-> daily[e] + IF e \in doomed THEN 1 ELSE 0]
           /\ raw' = raw \ doomed
           /\ identified' = identified \ doomed
    /\ Advance(r, runs[r].page, RollupRead(runs[r]))
    /\ UNCHANGED <<retentionVars, now, ts, overlapped, failures>>

(* Mutant: the daily rows are cut off where the raw rows are. *)
WindowOfRaw(r) ==
    /\ runs[r].pc = "window"
    /\ runs' = [runs EXCEPT ![r].pc = "daily"]
    /\ UNCHANGED <<retentionVars, now, rowVars, overlapped, failures>>

(* currentRollupExtraDays reads the windows a second time for the raw days. *)
Window(r) ==
    /\ runs[r].pc = "window"
    /\ LET extra == IF runs[r].rollup > current.raw
                    THEN runs[r].rollup - current.raw ELSE 0
       IN  runs' = [runs EXCEPT ![r].pc = "daily", ![r].cutoff = @ - extra * DayLen]
    /\ UNCHANGED <<retentionVars, now, rowVars, overlapped, failures>>

SweepPage(r) ==
    /\ runs[r].pc = "daily"
    /\ LET page   == Page(DailyItems, runs[r].cutoff, runs[r].cursor)
           doomed == Doomed(page, runs[r].cutoff)
       IN  /\ daily' = [e \in Events |-> IF daily[e] > 0 /\ Bucket(e) \in doomed
                                         THEN 0 ELSE daily[e]]
           /\ Advance(r, page, NoRun)
    /\ UNCHANGED <<retentionVars, now, ts, raw, identified, overlapped, failures>>

(* A read or a page transaction fails: the page rolls back, the run ends. *)
RunFails(r) ==
    /\ Active(r) /\ failures < MaxFailures
    /\ runs' = [runs EXCEPT ![r] = NoRun]
    /\ failures' = failures + 1
    /\ UNCHANGED <<retentionVars, now, rowVars, overlapped>>

(* Settings change; a run under way remembers that they did. *)
Reconfigure ==
    /\ Configure
    /\ runs' = [r \in Runs |-> IF Active(r) /\ current' # current
                               THEN [runs[r] EXCEPT !.torn = TRUE] ELSE runs[r]]
    /\ UNCHANGED <<now, rowVars, overlapped, failures>>

Crash ==
    /\ failures < MaxFailures
    /\ Restart
    /\ runs' = [r \in Runs |-> NoRun]
    /\ failures' = failures + 1
    /\ UNCHANGED <<now, rowVars, overlapped>>

Step(r) == ScrubPage(r) \/ ReadPage(r) \/ CommitPage(r) \/ Window(r) \/ SweepPage(r)

PurgeNext ==
    \/ \E e \in Events : Ingest(e)
    \/ Tick
    \/ \E r \in Runs : Start(r) \/ Step(r) \/ RunFails(r)
    \/ Reconfigure
    \/ Crash

(***************************************************************************)
(* The ticker starts a run every day and a run in progress goes on; the    *)
(* clock runs. Nobody has to call the admin route.                         *)
(***************************************************************************)
PurgeFairness ==
    /\ \A r \in Tickers : WF_purgeVars(Start(r))
    /\ \A r \in Runs : WF_purgeVars(Step(r))

PurgeSpec == PurgeInit /\ [][PurgeNext]_<<purgeVars, retentionVars>> /\ PurgeFairness

-----------------------------------------------------------------------------
Stored(e) == e \in raw \/ daily[e] > 0
Stale(e) == Bucket(e)[1] < now - current.rollup * DayLen

(* An event is a raw row or is counted by its daily row until its day has   *)
(* left the rollup window: no page, failure or restart loses it on the way. *)
(* A run during which the windows changed is excepted: it may sweep by a    *)
(* cutoff of neither setting.                                               *)
NothingLost ==
    [][\A e \in Events :
          Stored(e) /\ ~(Stored(e))' =>
             Stale(e) \/ \E r \in Runs : Active(r) /\ runs[r].torn]_<<purgeVars, retentionVars>>

(* No event is counted twice by its daily row, nor both counted there and   *)
(* left as a row to be counted by the next run, as long as runs do not      *)
(* overlap: the ticker and the admin route, or two nodes' tickers.          *)
RolledUpOnce ==
    overlapped \/ \A e \in Events : daily[e] + (IF e \in raw THEN 1 ELSE 0) <= 1

(* What the policy promises of old data comes to pass: identity goes after  *)
(* ScrubDays, a raw row after the raw window, a daily row after the rollup  *)
(* window, failures and restarts notwithstanding.                           *)
WindowsEnforced ==
    \A e \in Events :
        /\ []<>~(e \in identified /\ ts[e] < now - ScrubDays * DayLen)
        /\ []<>~(e \in raw /\ ts[e] < RawCutoff(now))
        /\ []<>~(daily[e] > 0 /\ Stale(e))
=============================================================================
