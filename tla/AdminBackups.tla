---------------------------- MODULE AdminBackups ----------------------------
(***************************************************************************)
(* The backups cards of the settings view (backups.js): the list of        *)
(* backups, and the guided setup of the bucket they are kept in.           *)
(*                                                                         *)
(* The card of the bucket has one button: Check saves the fields and lets  *)
(* the server try them, and turns into Save once the server could reach    *)
(* the bucket; an edit turns it back.  Opening the view, or the switch,    *)
(* starts a check of its own in the background.                            *)
(*                                                                         *)
(* Requests are served in any order and answered in any order; an answer   *)
(* may be lost before or after the server acted.                           *)
(***************************************************************************)
EXTENDS Naturals, FiniteSets

CONSTANTS
    Targets,     \* what the fields of the bucket may hold, but for the secret
    NoTarget,    \* empty fields, one of Targets
    Secrets,     \* secrets of buckets
    Reachable,   \* pairs of target and secret the server can connect with
    Names,       \* names backups may have
    BadFile,     \* a picked file whose name is not acceptable
    Patient,     \* TRUE: the admin waits for every answer but that of the check in the background;
                 \* FALSE: only for the settings to load
    None,
    MaxMoves     \* bound: clicks, edits and lost answers

VARIABLE backups

Public(server) == [enabled |-> server.enabled, conf |-> server.conf]
Connects(server) == server.enabled /\ <<server.conf, server.secret>> \in Reachable

Request(what, body) ==
    [what |-> what, body |-> body, fresh |-> TRUE, form |-> None, checked |-> FALSE, out |-> None, data |-> None]

Send(s, m) == [s EXCEPT !.net = @ \union {m}]

-----------------------------------------------------------------------------
(* The list of backups. *)

backupStatus(s, msg) == [s EXCEPT !.said = msg]

renderBackups(s, items) == [s EXCEPT !.rows = items]

loadBackups(s) == Send(s, Request("list", None))

(* A list that cannot be read is replaced by the reason. *)
LoadedBackups(s, m) == renderBackups(s, IF m.out = "ok" THEN m.data ELSE None)

isValidBackupName(name) == name \in Names
isValidBackupUploadName(name) == name # BadFile

createBackup(s) ==
    IF s.name # None /\ ~isValidBackupName(s.name) THEN backupStatus(s, "bad name")
    ELSE Send(s, Request("create", s.name))

CreatedBackup(s, m) ==
    IF m.out = "ok" THEN loadBackups(backupStatus([s EXCEPT !.name = None], "created"))
    ELSE backupStatus(s, m.out)

(* Both ask first; a dialog that is dismissed sends nothing. *)
deleteBackup(s, key) == Send(s, Request("delete", key))
DeletedBackup(s, m) ==
    IF m.out = "ok" THEN loadBackups(backupStatus(s, "deleted")) ELSE backupStatus(s, m.out)

restoreBackup(s, key) == Send(s, Request("restore", key))
RestoredBackup(s, m) == backupStatus(s, IF m.out = "ok" THEN "restarts" ELSE m.out)

(* A token first, then the browser follows a link with it. *)
downloadBackup(s, key) == Send(s, Request("token", key))
GotToken(s, m) == backupStatus(s, IF m.out = "ok" THEN "downloads" ELSE m.out)

onBackupListClick(s) ==
    UNION {{deleteBackup(s, k), restoreBackup(s, k), downloadBackup(s, k)} : k \in s.rows}

validateBackupUploadFile(file) == file # None /\ isValidBackupUploadName(file)

uploadBackup(s) ==
    IF validateBackupUploadFile(s.file) THEN Send(s, Request("upload", s.file))
    ELSE backupStatus([s EXCEPT !.file = None], "bad file")

UploadedBackup(s, m) ==
    IF m.out = "ok" THEN loadBackups(backupStatus([s EXCEPT !.file = None], "uploaded"))
    ELSE backupStatus(s, m.out)

-----------------------------------------------------------------------------
(* The card of the bucket: its pieces on the page. *)

paintBackupS3Badge(s, connected) == [s EXCEPT !.badge = connected]
setBackupS3Switch(s, on) == [s EXCEPT !.switch = on]
setBackupS3ActionBusy(s, busy) == [s EXCEPT !.busy = busy]

(* The step is not kept: it is what the button says. *)
renderBackupS3Step(s, step) ==
    [s EXCEPT !.visible = (step # "hidden"), !.label = IF step = "save" THEN "save" ELSE "check"]

backupS3Step(visible, checked) ==
    IF ~visible THEN "hidden" ELSE IF checked THEN "save" ELSE "check"
backupS3CurrentStep(s) == backupS3Step(s.visible, s.checked)

KeepsCheck(s) == s    \* mutant: an edit keeps the verdict
revertBackupS3Check(s) ==
    LET bumped == [s EXCEPT !.net = {[m EXCEPT !.fresh = FALSE] : m \in @}]
    IN IF ~s.checked THEN bumped
       ELSE renderBackupS3Step(paintBackupS3Badge([bumped EXCEPT !.checked = FALSE], FALSE), "check")

readBackupS3Form(s) == [enabled |-> s.visible, conf |-> s.conf, secret |-> s.secret]

buildBackupS3Patch(form) ==
    IF form.secret # None THEN form ELSE [enabled |-> form.enabled, conf |-> form.conf]

parseBackupS3(data) == data

renderBackupS3(s, s3) ==
    LET unverified == setBackupS3Switch(paintBackupS3Badge([s EXCEPT !.checked = FALSE], FALSE), s3.enabled)
        stepped == renderBackupS3Step(unverified, IF s3.enabled THEN "check" ELSE "hidden")
    IN [stepped EXCEPT !.conf = s3.conf, !.secret = None]

Stored(s, data) == renderBackupS3([s EXCEPT !.stored = parseBackupS3(data)], parseBackupS3(data))

-----------------------------------------------------------------------------
(* Verdicts. *)

Passed(s) == renderBackupS3Step(paintBackupS3Badge([s EXCEPT !.checked = TRUE], TRUE), "save")
Failed(s) == renderBackupS3Step(paintBackupS3Badge([s EXCEPT !.checked = FALSE], FALSE), "check")

applyBackupS3TestOutcome(s, out) == IF out = "ok" THEN Passed(s) ELSE Failed(s)

autoVerifyBackupS3(s) ==
    Send(s, [Request("verify", None) EXCEPT !.form = readBackupS3Form(s)])

Verified(s, m) ==
    IF m.fresh /\ m.form = readBackupS3Form(s) THEN applyBackupS3TestOutcome(s, m.out) ELSE s

loadBackupS3(s) == Send(s, Request("load", None))

LoadedBackupS3(s, m) ==
    IF m.out # "ok" THEN s
    ELSE IF m.data.enabled THEN autoVerifyBackupS3(Stored(s, m.data)) ELSE Stored(s, m.data)

onBackupS3Switch(s) ==
    LET bumped == [s EXCEPT !.net = {[m EXCEPT !.fresh = FALSE] : m \in @}]
        off == setBackupS3Switch(bumped, FALSE)
    IN IF s.visible /\ ~s.stored.enabled
       THEN renderBackupS3Step(paintBackupS3Badge([off EXCEPT !.checked = FALSE], FALSE), "hidden")
       ELSE IF s.visible THEN Send(off, Request("disable", [enabled |-> FALSE]))
       ELSE autoVerifyBackupS3(Failed(setBackupS3Switch(bumped, TRUE)))

Disabled(s, m) == IF m.out = "ok" THEN Stored(s, m.data) ELSE setBackupS3Switch(Failed(s), TRUE)

saveBackupS3(s) ==
    Send(s, [Request("save", buildBackupS3Patch(readBackupS3Form(s))) EXCEPT !.checked = s.checked])

Saved(s, m) ==
    IF m.out # "ok" THEN s
    ELSE IF m.checked THEN Passed(Stored(s, m.data)) ELSE Stored(s, m.data)

testBackupS3(s) ==
    Send(setBackupS3ActionBusy(s, TRUE),
           Request("check", buildBackupS3Patch([readBackupS3Form(s) EXCEPT !.enabled = TRUE])))

(* The button stays busy while the server tries what it has just saved. *)
CheckSaved(s, m) ==
    IF m.out = "ok" THEN Send(Stored(s, m.data), Request("probe", None))
    ELSE setBackupS3ActionBusy(Failed(s), FALSE)

Probed(s, m) == applyBackupS3TestOutcome(setBackupS3ActionBusy(s, FALSE), m.out)

onBackupS3Action(s) ==
    CASE backupS3CurrentStep(s) = "save"   -> saveBackupS3(s)
      [] backupS3CurrentStep(s) = "hidden" -> s
      [] backupS3CurrentStep(s) = "check"  -> testBackupS3(s)

-----------------------------------------------------------------------------
(* The server: what it makes of a request, and the outcomes it may give.   *)
(* Another operation on backups may be under way, which refuses this one.  *)

Patched(server, body) ==
    [server EXCEPT !.enabled = body.enabled,
                   !.conf = IF "conf" \in DOMAIN body THEN body.conf ELSE @,
                   !.secret = IF "secret" \in DOMAIN body THEN body.secret ELSE @]

(* PocketBase refuses to enable a bucket whose fields are empty. *)
Acceptable(server) == server.enabled => server.conf # NoTarget

Outcomes(m, server) ==
    CASE m.what = "list" ->
           {IF server.enabled /\ ~Connects(server) THEN [out |-> "bad", data |-> None, server |-> server]
            ELSE [out |-> "ok", data |-> server.names, server |-> server]}
      [] m.what = "load" -> {[out |-> "ok", data |-> Public(server), server |-> server]}
      [] m.what \in {"save", "check", "disable"} ->
           LET new == Patched(server, m.body)
           IN {IF Acceptable(new) THEN [out |-> "ok", data |-> Public(new), server |-> new]
               ELSE [out |-> "bad", data |-> None, server |-> server]}
      [] m.what \in {"probe", "verify"} ->
           {[out |-> IF Connects(server) THEN "ok" ELSE "bad", data |-> None, server |-> server]}
      [] m.what = "token" -> {[out |-> "ok", data |-> None, server |-> server]}
      [] m.what \in {"create", "upload"} ->
           {[out |-> "bad", data |-> None, server |-> server]} \union
           {[out |-> "ok", data |-> None, server |-> [server EXCEPT !.names = @ \union {n}]] :
               n \in (IF m.body = None THEN Names ELSE {m.body}) \ server.names}
      [] m.what = "delete" ->
           {[out |-> "bad", data |-> None, server |-> server],
            [out |-> "ok", data |-> None, server |-> [server EXCEPT !.names = @ \ {m.body}]]}
      [] m.what = "restore" ->
           {[out |-> "bad", data |-> None, server |-> server], [out |-> "ok", data |-> None, server |-> server]}

Answered(s, m) ==
    CASE m.what = "list"    -> LoadedBackups(s, m)
      [] m.what = "load"    -> LoadedBackupS3(s, m)
      [] m.what = "create"  -> CreatedBackup(s, m)
      [] m.what = "delete"  -> DeletedBackup(s, m)
      [] m.what = "restore" -> RestoredBackup(s, m)
      [] m.what = "token"   -> GotToken(s, m)
      [] m.what = "upload"  -> UploadedBackup(s, m)
      [] m.what = "disable" -> Disabled(s, m)
      [] m.what = "save"    -> Saved(s, m)
      [] m.what = "check"   -> CheckSaved(s, m)
      [] m.what = "probe"   -> Probed(s, m)
      [] m.what = "verify"  -> Verified(s, m)

-----------------------------------------------------------------------------
Init ==
    \E enabled \in BOOLEAN, conf \in Targets, secret \in Secrets :
        LET server == [enabled |-> enabled /\ conf # NoTarget, conf |-> conf, secret |-> secret, names |-> {}]
        IN backups = loadBackupS3(loadBackups(
            [server |-> server, stored |-> [enabled |-> FALSE, conf |-> NoTarget], net |-> {}, moves |-> 0,
             rows |-> {}, name |-> None, file |-> None, said |-> "", missed |-> FALSE,
             visible |-> FALSE, switch |-> FALSE, badge |-> FALSE, label |-> "check", busy |-> FALSE,
             checked |-> FALSE, conf |-> NoTarget, secret |-> None]))

Ready(s) ==
    /\ s.moves < MaxMoves
    /\ \A m \in s.net : IF Patient THEN m.what = "verify" ELSE m.what # "load"
Move(s) == [s EXCEPT !.moves = @ + 1]

Visit == Ready(backups) /\ backups' = Move(loadBackupS3(loadBackups(backups)))

TypeName ==
    \E name \in Names \union {BadFile} : Ready(backups) /\ backups' = Move([backups EXCEPT !.name = name])

Create == Ready(backups) /\ backups' = Move(createBackup(backups))

PickFile ==
    \E file \in Names \union {BadFile, None} :
        Ready(backups) /\ backups' = Move(uploadBackup([backups EXCEPT !.file = file]))

ClickRow ==
    /\ Ready(backups) /\ backups.rows # None
    /\ \E s \in onBackupListClick(backups) : backups' = Move(s)

EditTarget ==
    /\ Ready(backups) /\ backups.visible
    /\ \/ \E conf \in Targets \ {backups.conf} :
             backups' = Move(revertBackupS3Check([backups EXCEPT !.conf = conf]))
       \/ \E secret \in (Secrets \union {None}) \ {backups.secret} :
             backups' = Move(revertBackupS3Check([backups EXCEPT !.secret = secret]))

Switch == Ready(backups) /\ backups' = Move(onBackupS3Switch(backups))

Action ==
    Ready(backups) /\ backups.visible /\ ~backups.busy /\ backups' = Move(onBackupS3Action(backups))

(* The server serves a request; its answer is on the way. *)
Serve ==
    \E m \in backups.net :
        /\ m.out = None
        /\ \E o \in Outcomes(m, backups.server) :
              backups' = [backups EXCEPT !.server = o.server,
                                         !.net = (@ \ {m}) \union {[m EXCEPT !.out = o.out, !.data = o.data]}]

Answer ==
    \E m \in backups.net :
        /\ m.out # None
        /\ backups' = Answered([backups EXCEPT !.net = @ \ {m}], m)

(* No answer comes.  The button of a check whose answer is lost stays busy *)
(* until the page is loaded again.                                         *)
Lost ==
    \E m \in backups.net :
        /\ backups.moves < MaxMoves
        /\ LET s == [backups EXCEPT !.net = @ \ {m}, !.missed = TRUE]
           IN backups' = Move(CASE m.what \in {"list", "load", "verify"} -> Answered(s, [m EXCEPT !.out = "bad"])
                                [] OTHER -> s)

Next ==
    \/ Visit \/ TypeName \/ Create \/ PickFile \/ ClickRow
    \/ EditTarget \/ Switch \/ Action
    \/ Serve \/ Answer \/ Lost

Spec == Init /\ [][Next]_backups

-----------------------------------------------------------------------------
AtRest(s) == s.net = {}

(* CONNECTED, and the button that says Save, are shown only over fields    *)
(* the server has connected with: never over an edit made since, and never *)
(* because an older check answered late.  (An answer that was lost may have *)
(* been the one that told what is stored.)                                 *)
SaveOnlyChecked ==
    backups.checked /\ ~backups.missed =>
        /\ backups.secret \in {None, backups.server.secret}
        /\ <<backups.conf, backups.server.secret>> \in Reachable
        /\ backups.badge /\ backups.label = "save"

(* A secret is never wiped: the input is empty unless one was just typed,  *)
(* and saving, checking or switching off with it empty keeps the one that  *)
(* is stored.                                                              *)
SecretKept == backups.server.secret \in Secrets

(* When nothing is on its way and no answer was lost, the card shows its   *)
(* fields exactly if the switch is on, the button can be used, and the     *)
(* list has the backups there are, unless it could not be read.            *)
CardSettles ==
    AtRest(backups) /\ ~backups.missed =>
        /\ backups.visible = backups.switch
        /\ ~backups.busy
        /\ backups.rows \in {None, backups.server.names}
=============================================================================
