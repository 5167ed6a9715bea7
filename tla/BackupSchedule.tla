--------------------------- MODULE BackupSchedule ---------------------------
(***************************************************************************)
(* The schedule of automatic backups (backups.js): a cron expression and   *)
(* how many to keep, typed into a form or put there by a dialog with       *)
(* controls for the usual schedules.                                       *)
(*                                                                         *)
(* An expression is the tuple of its fields, empty when there is none.  A  *)
(* field is <<"n", 5>>, the name of a day <<"day", 5>>, <<"*">>, or        *)
(* something else, <<"?">>.  A number to keep is 0 for an empty input and  *)
(* -1 for what is not a whole number.                                      *)
(***************************************************************************)
EXTENDS Integers

CONSTANTS
    Crons,       \* expressions the admin types
    Keeps,       \* numbers to keep the admin types
    Hours, Minutes, Days,  \* what the inputs of the dialog offer, and days of the month typed there
    ServerTakes, \* the expressions the server can parse
    None,
    MaxMoves     \* bound: edits, clicks and failures

VARIABLE schedule

NoCron == <<>>
Star == <<"*">>
Num(n) == <<"n", n>>

isValidBackupHour(h) == h \in 0..23
isValidBackupMinute(m) == m \in 0..59
isValidBackupDow(d) == d \in 0..6
isValidBackupDom(d) == d \in 1..31
isValidBackupKeep(n) == n >= 1

-----------------------------------------------------------------------------
(* Controls and expressions. *)

buildBackupCron(freq, parts) ==
    LET timed == isValidBackupHour(parts.hour) /\ isValidBackupMinute(parts.minute)
        At(dom, dow) == <<Num(parts.minute), Num(parts.hour), dom, Star, dow>>
    IN CASE timed /\ freq = "daily" -> At(Star, Star)
         [] timed /\ freq = "weekly" /\ isValidBackupDow(parts.dow) -> At(Star, Num(parts.dow))
         [] timed /\ freq = "monthly" /\ isValidBackupDom(parts.dom) -> At(Num(parts.dom), Star)
         [] OTHER -> NoCron

parseBackupDowToken(f) == IF f[1] \in {"n", "day"} /\ isValidBackupDow(f[2]) THEN f[2] ELSE -1
parseBackupDomToken(f) == IF f[1] = "n" /\ isValidBackupDom(f[2]) THEN f[2] ELSE -1
parseBackupIntField(f, valid(_)) == IF f[1] = "n" /\ valid(f[2]) THEN f[2] ELSE -1

(* What is not daily, weekly or monthly is custom, kept as it is. *)
parseBackupCronToControls(cron) ==
    LET minute == parseBackupIntField(cron[1], isValidBackupMinute)
        hour == parseBackupIntField(cron[2], isValidBackupHour)
        dow == parseBackupDowToken(cron[5])
        dom == parseBackupDomToken(cron[3])
        timed == cron # NoCron /\ minute >= 0 /\ hour >= 0 /\ cron[4] = Star
        Controls(mode, h, m, w, d) == [mode |-> mode, hour |-> h, minute |-> m, dow |-> w, dom |-> d, raw |-> cron]
    IN CASE timed /\ cron[3] = Star /\ cron[5] = Star -> Controls("daily", hour, minute, 1, 1)
         [] timed /\ cron[3] = Star /\ dow >= 0 -> Controls("weekly", hour, minute, dow, 1)
         [] timed /\ cron[5] = Star /\ dom >= 0 -> Controls("monthly", hour, minute, 1, dom)
         [] OTHER -> Controls("custom", 0, 0, 1, 1)

(* In words: the mode and what it says of day and time. *)
describeBackupSchedule(c) ==
    IF ~isValidBackupHour(c.hour) \/ ~isValidBackupMinute(c.minute) THEN <<"custom">>
    ELSE CASE c.mode = "weekly" /\ isValidBackupDow(c.dow)  -> <<"weekly", c.dow, c.hour, c.minute>>
           [] c.mode = "monthly" /\ isValidBackupDom(c.dom) -> <<"monthly", c.dom, c.hour, c.minute>>
           [] c.mode = "daily" -> <<"daily", c.hour, c.minute>>
           [] OTHER -> <<"custom">>

validateBackupSchedule(cron, keep) == cron = NoCron \/ isValidBackupKeep(keep)

-----------------------------------------------------------------------------
(* The form. *)

updateBackupScheduleCronHint(cron) ==
    IF cron = NoCron THEN <<>> ELSE describeBackupSchedule(parseBackupCronToControls(cron))

refreshBackupScheduleCronHint(s) == [s EXCEPT !.hint = updateBackupScheduleCronHint(s.cron)]

formatBackupScheduleStatus(sched) ==
    CASE sched.cron = NoCron -> <<"disabled">>
      [] sched.cron # NoCron /\ ~isValidBackupKeep(sched.keep) -> <<"runs", sched.cron>>
      [] OTHER -> <<"runs", sched.cron, sched.keep>>

renderBackupSchedule(s, sched) ==
    refreshBackupScheduleCronHint(
        [s EXCEPT !.status = formatBackupScheduleStatus(sched), !.cron = sched.cron,
                  !.keep = IF isValidBackupKeep(sched.keep) THEN sched.keep ELSE 0])

markFormClean(s) == [s EXCEPT !.dirty = FALSE]
markFormDirty(s) == [s EXCEPT !.dirty = TRUE]

buildBackupSchedulePatch(cron, keep) == [cron |-> cron, keep |-> IF keep < 0 THEN 0 ELSE keep]

Ask(s, m) == [s EXCEPT !.net = @ \union {m}]

loadBackupSchedule(s) ==
    Ask(markFormClean(s), [what |-> "load", body |-> None, out |-> None])

saveBackupSchedule(s) ==
    IF ~validateBackupSchedule(s.cron, s.keep) THEN s
    ELSE Ask(s, [what |-> "save", body |-> buildBackupSchedulePatch(s.cron, s.keep), out |-> None])

parseBackupSchedule(data) == data

SavedSchedule(s, m) ==
    IF ~m.out.ok THEN s ELSE markFormClean(renderBackupSchedule(s, parseBackupSchedule(m.out.sched)))

LoadedSchedule(s, m) ==
    IF ~m.out.ok THEN [s EXCEPT !.missed = TRUE]
    ELSE renderBackupSchedule(s, parseBackupSchedule(m.out.sched))

-----------------------------------------------------------------------------
(* The dialog. *)

NoHelper == [open |-> FALSE]

splitBackupHelperTime(c) ==
    IF c.mode # "custom" /\ isValidBackupHour(c.hour) /\ isValidBackupMinute(c.minute)
    THEN [hour |-> c.hour, minute |-> c.minute] ELSE [hour |-> 3, minute |-> 0]

readBackupScheduleHelper(s) == s.helper

HelperCron(st) == IF st.freq = "custom" THEN st.custom ELSE buildBackupCron(st.freq, st)

refreshBackupScheduleHelper(s) ==
    LET st == readBackupScheduleHelper(s)
        cron == HelperCron(st)
    IN [s EXCEPT !.helper.preview =
                     IF st.freq # "custom" /\ cron # NoCron
                     THEN describeBackupSchedule([mode |-> st.freq, hour |-> st.hour, minute |-> st.minute,
                                                  dow |-> st.dow, dom |-> st.dom])
                     ELSE <<"custom">>,
                 !.helper.error = FALSE,
                 !.helper.applicable = (st.freq = "custom" \/ cron # NoCron)]

openBackupScheduleHelper(s) ==
    LET parsed == parseBackupCronToControls(s.cron)
        t == splitBackupHelperTime(parsed)
    IN refreshBackupScheduleHelper(
          [s EXCEPT !.helper =
              [open |-> TRUE, freq |-> parsed.mode, hour |-> t.hour, minute |-> t.minute,
               dow |-> parsed.dow, dom |-> parsed.dom, keep |-> s.keep,
               custom |-> IF parsed.mode = "custom" THEN parsed.raw ELSE NoCron,
               preview |-> <<>>, error |-> FALSE, applicable |-> FALSE]])

closeBackupScheduleHelper(s) == [s EXCEPT !.helper = NoHelper]

applyBackupScheduleHelper(s) ==
    LET st == readBackupScheduleHelper(s)
        cron == HelperCron(st)
    IN IF (st.freq # "custom" /\ cron = NoCron) \/ ~validateBackupSchedule(cron, st.keep)
       THEN [s EXCEPT !.helper.error = TRUE]
       ELSE closeBackupScheduleHelper(markFormDirty(refreshBackupScheduleCronHint(
              [s EXCEPT !.cron = cron, !.keep = IF isValidBackupKeep(st.keep) THEN st.keep ELSE 0])))

-----------------------------------------------------------------------------
Init ==
    \E stored \in {[cron |-> c, keep |-> 2] : c \in ServerTakes} :
        schedule = loadBackupSchedule(
            [server |-> stored, net |-> {}, moves |-> 0, missed |-> FALSE, cron |-> NoCron, keep |-> 0,
             hint |-> <<>>, status |-> <<>>, dirty |-> FALSE, helper |-> NoHelper])

Ready(s) == s.moves < MaxMoves
Move(s) == [s EXCEPT !.moves = @ + 1]

Visit == Ready(schedule) /\ ~schedule.helper.open /\ schedule' = Move(loadBackupSchedule(schedule))

TypeCron ==
    /\ Ready(schedule) /\ ~schedule.helper.open
    /\ \E c \in Crons \ {schedule.cron} :
          schedule' = Move(markFormDirty(refreshBackupScheduleCronHint([schedule EXCEPT !.cron = c])))

TypeKeep ==
    /\ Ready(schedule) /\ ~schedule.helper.open
    /\ \E n \in Keeps \ {schedule.keep} : schedule' = Move(markFormDirty([schedule EXCEPT !.keep = n]))

(* The button is disabled while the form is clean. *)
Submit ==
    /\ Ready(schedule) /\ ~schedule.helper.open /\ schedule.dirty
    /\ schedule' = Move(saveBackupSchedule(schedule))

OpenHelper ==
    Ready(schedule) /\ ~schedule.helper.open /\ schedule' = Move(openBackupScheduleHelper(schedule))

ChangeHelper ==
    /\ Ready(schedule) /\ schedule.helper.open
    /\ \E h \in {[schedule.helper EXCEPT !.freq = f] : f \in {"daily", "weekly", "monthly", "custom"}}
                \union {[schedule.helper EXCEPT !.hour = n] : n \in Hours}
                \union {[schedule.helper EXCEPT !.minute = n] : n \in Minutes}
                \union {[schedule.helper EXCEPT !.dow = n] : n \in Days \intersect (0..6)}
                \union {[schedule.helper EXCEPT !.dom = n] : n \in Days}
                \union {[schedule.helper EXCEPT !.custom = c] : c \in Crons}
                \union {[schedule.helper EXCEPT !.keep = n] : n \in Keeps} :
          schedule' = Move(refreshBackupScheduleHelper([schedule EXCEPT !.helper = h]))

ApplyHelper ==
    /\ schedule.helper.open /\ schedule.helper.applicable
    /\ schedule' = applyBackupScheduleHelper(schedule)

CancelHelper == schedule.helper.open /\ schedule' = closeBackupScheduleHelper(schedule)

(* The server refuses an expression it cannot parse, and one without a     *)
(* number to keep.                                                         *)
Serve ==
    \E m \in schedule.net :
        /\ m.out = None
        /\ LET fine == m.what = "load" \/
                       (m.body.cron \in ServerTakes \union {NoCron}
                          /\ validateBackupSchedule(m.body.cron, m.body.keep))
               server == IF m.what = "save" /\ fine THEN m.body ELSE schedule.server
           IN schedule' = [schedule EXCEPT !.server = server,
                  !.net = (@ \ {m}) \union {[m EXCEPT !.out = [ok |-> fine, sched |-> server]]}]

Answer ==
    \E m \in schedule.net :
        /\ m.out # None
        /\ LET s == [schedule EXCEPT !.net = @ \ {m}]
           IN schedule' = IF m.what = "load" THEN LoadedSchedule(s, m) ELSE SavedSchedule(s, m)

Lost ==
    \E m \in schedule.net :
        /\ Ready(schedule)
        /\ LET s == [schedule EXCEPT !.net = @ \ {m}, !.missed = TRUE]
           IN schedule' = Move(s)

Next ==
    \/ Visit \/ TypeCron \/ TypeKeep \/ Submit
    \/ OpenHelper \/ ChangeHelper \/ ApplyHelper \/ CancelHelper
    \/ Serve \/ Answer \/ Lost

Spec == Init /\ [][Next]_schedule

-----------------------------------------------------------------------------
(* The moments an expression stands for: on which days of the week, days   *)
(* of the month, at which hour and minute.  (Reference definition.)        *)
Moments(cron) ==
    LET values(f, all) == IF f = Star THEN all ELSE IF f[1] \in {"n", "day"} THEN {f[2]} ELSE {}
    IN [dow |-> values(cron[5], 0..6), dom |-> values(cron[3], 1..31),
        hour |-> values(cron[2], 0..23), minute |-> values(cron[1], 0..59)]

(* The controls show the schedule that is in the form and put the same one *)
(* back: whenever the dialog opens on an expression it has controls for,   *)
(* applying it untouched gives an expression with the same moments, even   *)
(* if it is not the same text; and one it has no controls for comes back   *)
(* as it was.                                                              *)
HelperRoundTrip ==
    schedule.cron # NoCron =>
        LET again == HelperCron(openBackupScheduleHelper(schedule).helper)
            mode == parseBackupCronToControls(schedule.cron).mode
        IN IF mode = "custom" THEN again = schedule.cron
           ELSE again # NoCron /\ Moments(again) = Moments(schedule.cron)

(* The words under the field are about the expression in it, however it    *)
(* came there; and when nothing is on its way and all answers came, a form *)
(* that is clean shows what the line above says is stored, so that nothing *)
(* typed stays behind a disabled button.                                   *)
ScheduleShown ==
    /\ schedule.hint = updateBackupScheduleCronHint(schedule.cron)
    /\ schedule.net = {} /\ ~schedule.missed /\ ~schedule.dirty =>
          schedule.status =
              formatBackupScheduleStatus([cron |-> schedule.cron, keep |-> schedule.keep])
=============================================================================
