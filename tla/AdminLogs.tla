------------------------------ MODULE AdminLogs ------------------------------
(***************************************************************************)
(* The logs view (logs.js): the pages of the server's log under filters,   *)
(* and the dialog of the log's settings.                                   *)
(*                                                                         *)
(* A row of the log has a value of every kind one can filter by.  The      *)
(* level is also chosen in a field of the form, which counts from the next *)
(* request on, unless another filter is clicked first: that sets the field *)
(* back.  The five switches are a set of names here.                       *)
(***************************************************************************)
EXTENDS Integers, Sequences, FiniteSets

CONSTANTS
    Kinds,       \* what one can filter by: "level" and others
    Values,      \* values of every kind
    Logs,        \* a set of logs the server may have: sequences of functions from Kinds to Values
    Switches,    \* the switches of the settings, "enabled" among them
    Days,        \* what the field of the days may hold: numbers, Junk, Empty
    PER_PAGE,
    Patient,     \* TRUE: the admin clicks only when nothing is under way
    None,
    MaxMoves     \* bound: clicks, edits, rows written or purged, and lost answers

VARIABLE logs

Junk == -1
Empty == -2
MinDays == 1
MaxDays == 1825
NoFilter == [k \in Kinds |-> ""]

Send(s, what, arg) == [s EXCEPT !.net = @ \union {[what |-> what, arg |-> arg, out |-> "", data |-> None]}]

-----------------------------------------------------------------------------
(* The server: its log, newest row last. *)

Passes(row, filters) == \A k \in Kinds : filters[k] \in {"", row[k]}

(* A page is a set of rows, each with its place: the newest row that       *)
(* passes has place 1.                                                     *)
PageOf(log, q) ==
    LET hits == {i \in DOMAIN log : Passes(log[i], q.filters)}
        place(i) == Cardinality({j \in hits : j >= i})
        past == (q.page - 1) * PER_PAGE
    IN [items |-> {[place |-> place(i), row |-> log[i]] : i \in {h \in hits : place(h) \in past + 1 .. past + PER_PAGE}},
        page |-> q.page, total |-> Cardinality(hits)]

-----------------------------------------------------------------------------
(* The list. *)

totalPagesOf(data) == IF data.total = 0 THEN 1 ELSE (data.total + PER_PAGE - 1) \div PER_PAGE

renderActiveLogFilters(s) == [s EXCEPT !.pills = s.filters]

renderLogs(s, data) ==
    renderActiveLogFilters([s EXCEPT !.rows = data.items, !.page = data.page,
                                     !.prev = data.page > 1, !.next = data.page < totalPagesOf(data)])

readFilters(s, page) ==
    [filters |-> [s.filters EXCEPT !["level"] = s.field], page |-> IF page < 1 THEN 1 ELSE page]

(* The names of projects and environments are loaded before the first log. *)
ensureLogScope(s, query) == IF s.names THEN Send(s, "logs", query) ELSE Send(s, "names", query)
GotNames(s, m) == Send([s EXCEPT !.names = @ \/ m.out = "ok"], "logs", m.arg)

loadLogs(s, page) ==
    LET f == readFilters(s, page)
    IN ensureLogScope([s EXCEPT !.filters = f.filters, !.page = f.page], f)
LoadedLogs(s, m) == IF m.out = "ok" THEN renderLogs(s, m.data) ELSE s

syncLogFilterInputs(s) == [s EXCEPT !.field = s.filters["level"]]

reloadLogsFirstPage(s) == loadLogs(s, 1)

toggleLogFilter(s, kind, val) ==
    reloadLogsFirstPage(syncLogFilterInputs([s EXCEPT !.filters[kind] = IF @ = val THEN "" ELSE val]))

clearLogFilter(s, kind) == reloadLogsFirstPage(syncLogFilterInputs([s EXCEPT !.filters[kind] = ""]))

clearAllLogFilters(s) == reloadLogsFirstPage(syncLogFilterInputs([s EXCEPT !.filters = NoFilter, !.page = 1]))

refreshLogs(s) == loadLogs(s, s.page)
filterLogs(s) == loadLogs(s, 1)
pageLogs(s, delta) == loadLogs(s, s.page + delta)

-----------------------------------------------------------------------------
(* The settings. *)

isValidLogDays(n) == n \in MinDays .. MaxDays
validateLogSettings(days) == isValidLogDays(days)

isSwitchOn(s, sw) == sw \in s.on
setSwitch(s, sw, on) == [s EXCEPT !.on = IF on THEN @ \union {sw} ELSE @ \ {sw}]
onSwitch(s, sw) == [setSwitch(s, sw, ~isSwitchOn(s, sw)) EXCEPT !.dirty = TRUE]

setSettingsInputs(s, d) == IF d = None THEN s ELSE [s EXCEPT !.on = d.on, !.days = d.days]

renderLogSettings(s, d) == setSettingsInputs([s EXCEPT !.known = d], d)

loadLogSettings(s, then) == Send(s, "settings", then)

closeLogSettingsDialog(s) == [s EXCEPT !.open = FALSE]
openLogSettingsDialog(s) == [setSettingsInputs(s, s.known) EXCEPT !.open = TRUE, !.dirty = FALSE]

numOr(field, fallback) == IF field = Empty THEN fallback ELSE field
currentVal(s, fallback) == IF s.known = None THEN fallback ELSE s.known.days

putLogSettings(s, body) == Send(s, "put", body)
PutAnswered(s, m) ==
    IF m.out # "ok" THEN s
    ELSE loadLogSettings(closeLogSettingsDialog([renderLogSettings(s, m.data) EXCEPT !.dirty = FALSE]), "logs")

saveLogSettings(s) ==
    LET days == numOr(s.days, currentVal(s, Junk))
    IN IF validateLogSettings(days) THEN putLogSettings(s, [on |-> s.on, days |-> days]) ELSE s

LoadedSettings(s, m) ==
    IF m.out # "ok" THEN s
    ELSE IF m.arg = "logs" THEN loadLogs(renderLogSettings(s, m.data), 1) ELSE renderLogSettings(s, m.data)

-----------------------------------------------------------------------------
showLogs(s) == loadLogs(loadLogSettings(s, "view"), 1)

Init ==
    \E log \in Logs :
        LET server == [log |-> log, on |-> Switches, days |-> 30]
        IN logs = showLogs([server |-> server, filters |-> NoFilter, asked |-> NoFilter, field |-> "", page |-> 1,
                            pills |-> NoFilter, rows |-> {}, prev |-> FALSE, next |-> FALSE, names |-> FALSE,
                            on |-> {}, days |-> Empty, known |-> None, open |-> FALSE, dirty |-> FALSE,
                            changed |-> FALSE, missed |-> FALSE, net |-> {}, moves |-> 0])

Ready(s) == s.moves < MaxMoves /\ (Patient => s.net = {})
Listing(s) == Ready(s) /\ ~s.open
Move(s) == [s EXCEPT !.moves = @ + 1]

(* "asked" is what the admin asked for so far, read off the clicks alone.  *)
Asked(s, filters) == [s EXCEPT !.asked = filters]
WithField(s) == Asked(s, [s.asked EXCEPT !["level"] = s.field])

ChooseLevel == Listing(logs) /\ \E v \in (Values \union {""}) \ {logs.field} : logs' = Move([logs EXCEPT !.field = v])

Submit == Listing(logs) /\ logs' = Move(WithField(filterLogs(logs)))

(* A chip is clicked in a row, a pill above the list. *)
ClickChip ==
    /\ Listing(logs)
    /\ \E r \in logs.rows, k \in Kinds \ {"level"} :
          LET val == r.row[k]
          IN logs' = Move(Asked(toggleLogFilter(logs, k, val), [logs.asked EXCEPT ![k] = IF @ = val THEN "" ELSE val]))

ClickPill ==
    /\ Listing(logs)
    /\ \/ \E k \in Kinds : /\ logs.pills[k] # ""
                           /\ logs' = Move(Asked(clearLogFilter(logs, k), [logs.asked EXCEPT ![k] = ""]))
       \/ logs.pills # NoFilter /\ logs' = Move(Asked(clearAllLogFilters(logs), NoFilter))

TurnPage ==
    /\ Listing(logs)
    /\ \/ logs.next /\ logs' = Move(WithField(pageLogs(logs, 1)))
       \/ logs.prev /\ logs' = Move(WithField(pageLogs(logs, -1)))
       \/ logs' = Move(WithField(refreshLogs(logs)))

OpenDialog == Listing(logs) /\ logs' = Move(openLogSettingsDialog(logs))
Cancel == logs.open /\ logs' = closeLogSettingsDialog(logs)
Edit ==
    /\ logs.moves < MaxMoves /\ logs.open
    /\ \/ \E sw \in Switches : logs' = Move(onSwitch(logs, sw))
       \/ \E d \in Days \ {logs.days} : logs' = Move([logs EXCEPT !.days = d, !.dirty = TRUE])
(* A saved form loads the log again, with the field. *)
Save ==
    /\ Ready(logs) /\ logs.open /\ logs.dirty
    /\ LET s == saveLogSettings(logs) IN logs' = Move(IF s = logs THEN s ELSE WithField(s))

(* Rows are written, and the oldest are purged. *)
LogChanges ==
    /\ logs.moves < MaxMoves
    /\ \/ \E row \in [Kinds -> Values] : logs' = Move([logs EXCEPT !.server.log = Append(@, row), !.changed = TRUE])
       \/ logs.server.log # <<>> /\ logs' = Move([logs EXCEPT !.server.log = Tail(@), !.changed = TRUE])

Serve ==
    \E m \in logs.net :
        /\ m.out = ""
        /\ LET settings == [on |-> logs.server.on, days |-> logs.server.days]
               data == CASE m.what = "logs"     -> PageOf(logs.server.log, m.arg)
                         [] m.what = "settings" -> settings
                         [] m.what = "put"      -> m.arg
                         [] m.what = "names"    -> None
           IN logs' = [logs EXCEPT !.server = IF m.what = "put" THEN [@ EXCEPT !.on = data.on, !.days = data.days] ELSE @,
                                   !.changed = @ /\ m.what # "logs",
                                   !.net = (@ \ {m}) \union {[m EXCEPT !.out = "ok", !.data = data]}]

Answered(s, m) ==
    CASE m.what = "logs"     -> LoadedLogs(s, m)
      [] m.what = "settings" -> LoadedSettings(s, m)
      [] m.what = "put"      -> PutAnswered(s, m)
      [] m.what = "names"    -> GotNames(s, m)

Answer == \E m \in logs.net : m.out # "" /\ logs' = Answered([logs EXCEPT !.net = @ \ {m}], m)

Lost ==
    \E m \in logs.net :
        /\ logs.moves < MaxMoves
        /\ logs' = Move(Answered([logs EXCEPT !.net = @ \ {m}, !.missed = TRUE], [m EXCEPT !.out = "lost", !.data = None]))

Next ==
    \/ ChooseLevel \/ Submit \/ ClickChip \/ ClickPill \/ TurnPage
    \/ OpenDialog \/ Cancel \/ Edit \/ Save \/ LogChanges \/ Serve \/ Answer \/ Lost

Spec == Init /\ [][Next]_logs

-----------------------------------------------------------------------------
AtRest(s) == s.net = {} /\ ~s.missed

(* When nothing is under way and no answer was lost, the filters that are  *)
(* shown are those the admin asked for, every row passes them, and if the  *)
(* log has not changed since, the rows and the buttons are those of that   *)
(* page of it.                                                             *)
LogsShown ==
    AtRest(logs) =>
        /\ logs.pills = logs.asked
        /\ \A r \in logs.rows : Passes(r.row, logs.pills)
        /\ ~logs.changed =>
             LET data == PageOf(logs.server.log, [filters |-> logs.asked, page |-> logs.page])
             IN logs.rows = data.items /\ logs.next = (logs.page < totalPagesOf(data)) /\ logs.prev = (logs.page > 1)

(* The settings' dialog opens on what is stored, and what was cancelled in *)
(* it is forgotten.                                                        *)
SettingsShown ==
    AtRest(logs) /\ logs.open /\ ~logs.dirty =>
        logs.on = logs.server.on /\ logs.days = logs.server.days
=============================================================================
