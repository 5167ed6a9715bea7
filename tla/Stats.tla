-------------------------------- MODULE Stats --------------------------------
(***************************************************************************)
(* The statistics of an environment (stats/stats.go) read beside the purge *)
(* (module Purge). A query fixes its window and the horizon once: from the *)
(* horizon on it counts raw events, before it daily rows. It reads the raw *)
(* events and the daily rows in two reads, and a purge may run between.    *)
(*                                                                         *)
(* Events are those of the queried environment and flag. The answer is     *)
(* kept per event: how many times the totals count it.                     *)
(***************************************************************************)
EXTENDS Purge

CONSTANTS
    SinceDays,        \* windows a query may name: days, or Absent
    DefaultSinceDays  \* the window of a query that names none (7 in the code)

ASSUME StatsAssumption ==
    SinceDays \ {Absent} \subseteq Nat \ {0} /\ DefaultSinceDays \in Nat \ {0}

VARIABLE query        \* the query of one reader

statsVars == <<retentionVars, purgeVars, query>>

NoQuery == [pc |-> "idle"]

StatsInit == PurgeInit /\ query = NoQuery

(* A window that is named is clamped to the days rollups are kept; the     *)
(* default one is not, and may reach past them.                            *)
ParseSince(days) ==
    CASE days = Absent -> DefaultSinceDays
      [] days # Absent /\ days > current.rollup -> current.rollup
      [] OTHER -> days

(* Mutant: the horizon leaves the purge a day of grace. *)
HorizonDayEarly(t) == DayStart(Day(t - current.raw * DayLen) - 1)

HorizonFor(t) == DayStart(Day(t - current.raw * DayLen))
EventCutoffFor(cutoff, horizon) == IF cutoff > horizon THEN cutoff ELSE horizon

(* What the answer owes the reader, fixed when the query begins: raw events *)
(* of the days after the one the raw window begins in, and rolled-up events *)
(* of the days before it that the rollup window still holds in full, all of *)
(* them after the day the queried window begins in.                         *)
Owed(cutoffDay) ==
    LET boundary == DayStart(Day(RawCutoff(now)))
        oldest   == DayStart(Day(now - current.rollup * DayLen))
    IN  {e \in Events : /\ Bucket(e)[1] > cutoffDay
                        /\ \/ Bucket(e)[1] > boundary /\ e \in raw
                           \/ Bucket(e)[1] \in (oldest + 1)..(boundary - 1) /\ daily[e] > 0}

Begin ==
    /\ query.pc = "idle"
    /\ \E d \in SinceDays :
         LET cutoff    == now - ParseSince(d) * DayLen
             cutoffDay == DayStart(Day(cutoff))
             horizon   == HorizonFor(now)
         IN  query' = [pc |-> "rows", started |-> now, cutoffDay |-> cutoffDay,
                       horizon |-> horizon,
                       eventCutoff |-> EventCutoffFor(cutoff, horizon), rows |-> {},
                       rolled |-> {e \in Events : daily[e] > 0},
                       owed |-> Owed(cutoffDay),
                       torn |-> \E r \in Runs : Active(r) /\ runs[r].torn,
                       counts |-> [e \in Events |-> 0]]
    /\ UNCHANGED <<retentionVars, purgeVars>>

LoadRows ==
    /\ query.pc = "rows"
    /\ query' = [query EXCEPT !.pc = "rollups",
                              !.rows = {e \in raw : ts[e] >= query.eventCutoff}]
    /\ UNCHANGED <<retentionVars, purgeVars>>

(* Mutant: the boundary day is taken from both sides. *)
HistoryInclusive(q) == {e \in Events : Bucket(e)[1] \in q.cutoffDay..q.horizon}

(* AggregateRollups: cutoffDay <= day < horizon. *)
History(q) == {e \in Events : Bucket(e)[1] \in q.cutoffDay..(q.horizon - 1)}

Answer(q) ==
    [e \in Events |-> (IF e \in q.rows THEN 1 ELSE 0)
                      + (IF e \in History(q) THEN daily[e] ELSE 0)]

LoadRollups ==
    /\ query.pc = "rollups"
    /\ query' = [query EXCEPT !.pc = "answered", !.counts = Answer(query)]
    /\ UNCHANGED <<retentionVars, purgeVars>>

Read == query.pc = "answered" /\ query' = NoQuery /\ UNCHANGED <<retentionVars, purgeVars>>

(* The rest of the process goes on beside the query, which takes less than *)
(* two ticks and notes whether the windows changed under it.               *)
Meanwhile ==
    /\ PurgeNext
    /\ query.pc # "idle" => now' <= query.started + 1
    /\ query' = IF query.pc = "idle" THEN query
                ELSE [query EXCEPT !.torn = @ \/ current' # current]

StatsNext == Begin \/ LoadRows \/ LoadRollups \/ Read \/ Meanwhile

StatsSpec == StatsInit /\ [][StatsNext]_statsVars

-----------------------------------------------------------------------------
Answered == query.pc = "answered"

(* An event is counted once at most, even when the purge moves it from the  *)
(* raw events to the daily rows between the two reads.                      *)
NeverOvercounts ==
    Answered /\ ~overlapped => \A e \in Events : query.counts[e] <= 1

(* No event of the live days and none that was rolled up and is inside the  *)
(* rollup window is missing from the totals of the window asked for,        *)
(* whatever the purge does meanwhile. (The day of the horizon is not among  *)
(* them: see HistoryExactlyOnce. Nor are days past the rollup window, which *)
(* the default window asks for all the same and the purge may have swept.)  *)
StatsComplete ==
    Answered /\ ~query.torn => \A e \in query.owed : query.counts[e] >= 1

(* stats.go:201-202: long windows stop at the horizon "so purged history    *)
(* comes from rollups exactly once".                                        *)
HistoryExactlyOnce ==
    Answered /\ ~query.torn /\ ~overlapped =>
        \A e \in query.rolled :
            Bucket(e)[1] > query.cutoffDay => query.counts[e] = 1
=============================================================================
