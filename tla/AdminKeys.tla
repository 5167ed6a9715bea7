------------------------------ MODULE AdminKeys ------------------------------
(***************************************************************************)
(* The SDK keys card of a project (keys.js): the keys of the selected      *)
(* environment, the one time a new key is shown, and the dialog for a      *)
(* key's own limits.                                                       *)
(*                                                                         *)
(* The two limits of a key are one here.  Requests are served and answered *)
(* in any order.                                                           *)
(***************************************************************************)
EXTENDS Integers, FiniteSets

CONSTANTS
    Envs,        \* environments of the project
    Rates,       \* what the field of a limit may hold: numbers, Junk, Empty
    GlobalRate,  \* the server's limit for a key without one
    MaxKeys,     \* bound: keys that are created
    Patient,     \* TRUE: the admin waits for answers before the next request; to change
                 \* environment, not for lists
    None,
    MaxMoves     \* bound: clicks and lost answers

VARIABLE keys

Junk == -1
Empty == -2
MaxRate == 10000

(* A limit as it is typed: nothing, or a number in range, or refused. *)
readRpsValidated(field) ==
    IF field = Empty THEN [ok |-> TRUE, value |-> None]
    ELSE [ok |-> field \in 1 .. MaxRate, value |-> IF field \in 1 .. MaxRate THEN field ELSE None]
parseRpsOrNull(field) == readRpsValidated(field)

effectiveRps(rate, globalRate) ==
    IF rate # None THEN rate ELSE IF globalRate # None THEN globalRate ELSE None

-----------------------------------------------------------------------------
(* A request knows the generation of the scope it was sent in.             *)
Send(s, what, arg) ==
    [s EXCEPT !.net = @ \union {[what |-> what, arg |-> arg, gen |-> s.scopeGen, out |-> "", data |-> {}]}]

scopeStale(s, gen) == gen # s.scopeGen

OfEnv(all, env) == {k \in all : k.env = env}

renderKeys(s) ==
    [s EXCEPT !.rows = {[id |-> k.id, revoked |-> k.revoked, rate |-> effectiveRps(k.rate, s.globalRate)] : k \in s.list}]

loadKeys(s) == Send(s, "list", None)

AnyAnswer(s, m) ==    \* mutant: the answer of an environment that was left is shown
    IF m.out # "ok" THEN s ELSE renderKeys([s EXCEPT !.list = OfEnv(m.data, m.arg)])
LoadedKeys(s, m) ==
    IF m.out # "ok" \/ scopeStale(s, m.gen) THEN s ELSE renderKeys([s EXCEPT !.list = OfEnv(m.data, s.env)])

createKey(s, field) ==
    IF s.env = None \/ ~readRpsValidated(field).ok THEN s
    ELSE Send(s, "create", [env |-> s.env, rate |-> readRpsValidated(field).value])

(* The key itself is in this answer and nowhere else. *)
CreatedKey(s, m) ==
    loadKeys(IF m.out = "ok" THEN [s EXCEPT !.once = CHOOSE k \in m.data : TRUE] ELSE s)

revokeKey(s, id) == Send(s, "revoke", [id |-> id])
RevokedKey(s, m) == loadKeys(s)

openKeyLimitsDialog(s, id) ==
    LET found == {k \in s.list : k.id = id}
    IN [s EXCEPT !.dialog = [id |-> id, dirty |-> FALSE,
                             rate |-> IF \E k \in found : k.rate # None THEN (CHOOSE k \in found : TRUE).rate ELSE Empty]]
closeKeyLimitsDialog(s) == [s EXCEPT !.dialog = None]
editKeyLimits(s, id) == openKeyLimitsDialog(s, id)

saveKeyLimits(s) ==
    LET read == parseRpsOrNull(s.dialog.rate)
    IN IF ~read.ok THEN s ELSE Send(s, "limit", [id |-> s.dialog.id, rate |-> read.value])

SavedKeyLimits(s, m) == loadKeys(IF m.out = "ok" THEN closeKeyLimitsDialog(s) ELSE s)

-----------------------------------------------------------------------------
(* The server. *)

Changed(all, id, Change(_)) == {IF k.id = id THEN Change(k) ELSE k : k \in all}

Served(m, all) ==
    CASE m.what = "list"   -> [data |-> all, all |-> all]
      [] m.what = "create" -> LET k == [id |-> Cardinality(all), env |-> m.arg.env, revoked |-> FALSE, rate |-> m.arg.rate]
                              IN [data |-> {k}, all |-> all \union {k}]
      [] m.what = "revoke" -> [data |-> {}, all |-> Changed(all, m.arg.id, LAMBDA k : [k EXCEPT !.revoked = TRUE])]
      [] m.what = "limit"  -> [data |-> {}, all |-> Changed(all, m.arg.id, LAMBDA k : [k EXCEPT !.rate = m.arg.rate])]

Answered(s, m) ==
    CASE m.what = "list"   -> LoadedKeys(s, m)
      [] m.what = "create" -> CreatedKey(s, m)
      [] m.what = "revoke" -> RevokedKey(s, m)
      [] m.what = "limit"  -> SavedKeyLimits(s, m)

-----------------------------------------------------------------------------
Init ==
    \E env \in Envs, globalRate \in {GlobalRate, None} :
        keys = loadKeys([server |-> {}, env |-> env, scopeGen |-> 0, globalRate |-> globalRate, list |-> {}, rows |-> {},
                         once |-> None, dialog |-> None, missed |-> FALSE, net |-> {}, moves |-> 0])

Ready(s) == s.moves < MaxMoves
Settled(s) == Patient => \A m \in s.net : scopeStale(s, m.gen) /\ m.what = "list"
Move(s) == [s EXCEPT !.moves = @ + 1]

(* The answers on their way for the environment that is left are stale.    *)
SwitchEnv ==
    /\ Ready(keys) /\ keys.dialog = None /\ (Patient => \A m \in keys.net : m.what = "list")
    /\ \E env \in Envs \ {keys.env} :
          keys' = Move(loadKeys([keys EXCEPT !.env = env, !.scopeGen = @ + 1]))

Create ==
    /\ Ready(keys) /\ Settled(keys) /\ keys.dialog = None /\ Cardinality(keys.server) < MaxKeys
    /\ \E field \in Rates : keys' = Move(createKey(keys, field))

Revoke ==
    /\ Ready(keys) /\ Settled(keys) /\ keys.dialog = None
    /\ \E r \in keys.rows : ~r.revoked /\ keys' = Move(revokeKey(keys, r.id))

EditLimits ==
    Ready(keys) /\ Settled(keys) /\ keys.dialog = None /\ \E r \in keys.rows : keys' = Move(editKeyLimits(keys, r.id))

TypeLimit ==
    /\ Ready(keys) /\ keys.dialog # None
    /\ \E field \in Rates \ {keys.dialog.rate} :
          keys' = Move([keys EXCEPT !.dialog.rate = field, !.dialog.dirty = TRUE])

SaveLimits ==
    Ready(keys) /\ Settled(keys) /\ keys.dialog # None /\ keys.dialog.dirty /\ keys' = Move(saveKeyLimits(keys))

Cancel == keys.dialog # None /\ keys' = closeKeyLimitsDialog(keys)

Serve ==
    \E m \in keys.net :
        /\ m.out = ""
        /\ LET r == Served(m, keys.server)
           IN keys' = [keys EXCEPT !.server = r.all, !.net = (@ \ {m}) \union {[m EXCEPT !.out = "ok", !.data = r.data]}]

Answer == \E m \in keys.net : m.out # "" /\ keys' = Answered([keys EXCEPT !.net = @ \ {m}], m)

(* The page hears nothing: what follows an answer does not happen. *)
Lost ==
    \E m \in keys.net :
        Ready(keys) /\ keys' = Move([keys EXCEPT !.net = @ \ {m}, !.missed = TRUE])

Next ==
    \/ SwitchEnv \/ Create \/ Revoke \/ EditLimits \/ TypeLimit \/ SaveLimits \/ Cancel
    \/ Serve \/ Answer \/ Lost

Spec == Init /\ [][Next]_keys

-----------------------------------------------------------------------------
(* When nothing is under way and no answer was lost, the card shows the    *)
(* keys of the environment that is selected, however fast environments     *)
(* were changed, and each with the limit the server holds it to.           *)
KeysShown ==
    keys.net = {} /\ ~keys.missed =>
        keys.rows = {[id |-> k.id, revoked |-> k.revoked, rate |-> effectiveRps(k.rate, keys.globalRate)] :
                        k \in OfEnv(keys.server, keys.env)}
=============================================================================
