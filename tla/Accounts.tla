------------------------------ MODULE Accounts ------------------------------
(***************************************************************************)
(* The superuser accounts of a server and the tokens that sign them in     *)
(* (account.go, bootstrap.go, session.go).                                 *)
(*                                                                         *)
(* Handlers run concurrently; each reads the database in one step and      *)
(* writes it in a later one, with or without accountMu between.  A token   *)
(* is signed with the key of its account, which every new password         *)
(* replaces.  A restart ends the requests and makes the account named in   *)
(* the environment if there is none; accounts and tokens outlive it.       *)
(*                                                                         *)
(* Left out: addresses and passwords that fail validation (400 before      *)
(* anything is read), the optional setup token, the throttle of logins,    *)
(* the age of tokens, and the placeholder account of databases made before *)
(* main.go:534 turned the installer off, which is never counted and cannot *)
(* log in.                                                                 *)
(***************************************************************************)
EXTENDS Naturals

CONSTANTS
    Requests,   \* handlers that run at once
    Emails,
    Passwords,
    Free,       \* accountMu is not held
    Unread,    \* a handler that is idle has read nothing
    EnvAdmins,  \* accounts the environment may name at a boot
    MaxSaves    \* bound: no request or boot begins after that many writes

ASSUME AccountsAssumption == Free \notin Requests /\ EnvAdmins \subseteq [email : Emails, password : Passwords]

VARIABLES
    admins,     \* rows of _superusers: id -> [email, key, password]
    accountMu,
    pc,         \* next step of each handler
    held,       \* the row or the body it works with
    tokens,     \* every token that was handed out
    last        \* last id or key that was drawn

accountVars == <<admins, accountMu, pc, held, tokens, last>>

NeedsSetup == DOMAIN admins = {}
OnlyOneLeft == \A i, j \in DOMAIN admins : i = j

(* FindAuthRecordByToken: the row is there and its key has not changed.    *)
Good(t) == t.id \in DOMAIN admins /\ admins[t.id].key = t.key

Goto(r, step, with) ==
    /\ pc' = [pc EXCEPT ![r] = step]
    /\ held' = [held EXCEPT ![r] = with]
Answer(r) == Goto(r, "idle", Unread)

(* A write that goes through. *)
Insert(email, password) ==
    /\ admins' = [i \in DOMAIN admins \union {last + 1} |->
                    IF i = last + 1 THEN [email |-> email, key |-> last + 1, password |-> password]
                    ELSE admins[i]]
    /\ last' = last + 1
(* The address is unique among the rows. *)
Unused(email) == \A i \in DOMAIN admins : admins[i].email # email

-----------------------------------------------------------------------------
Begins(r) == pc[r] = "idle" /\ last < MaxSaves

(* First-run setup: counted once before the mutex and again under it.      *)
Setup(r) ==
    /\ Begins(r) /\ NeedsSetup
    /\ \E email \in Emails, password \in Passwords :
          Goto(r, "setup", [email |-> email, password |-> password])
    /\ UNCHANGED <<admins, accountMu, tokens, last>>

(* Mutant: the count before the mutex is trusted. *)
SetupUncounted(r) ==
    /\ pc[r] = "setup" /\ accountMu = Free
    /\ accountMu' = r /\ Goto(r, "setupSave", held[r])
    /\ UNCHANGED <<admins, tokens, last>>

SetupCount(r) ==
    /\ pc[r] = "setup" /\ accountMu = Free
    /\ IF NeedsSetup
       THEN accountMu' = r /\ Goto(r, "setupSave", held[r])
       ELSE Answer(r) /\ UNCHANGED accountMu
    /\ UNCHANGED <<admins, tokens, last>>

SetupSave(r) ==
    /\ pc[r] = "setupSave"
    /\ \/ Unused(held[r].email) /\ Insert(held[r].email, held[r].password)
       \/ UNCHANGED <<admins, last>>
    /\ accountMu' = Free /\ Answer(r)
    /\ UNCHANGED tokens

(* What follows needs a token that is good when the request comes in.      *)
SignedIn == \E t \in tokens : Good(t)

Create(r) ==
    /\ Begins(r) /\ SignedIn
    /\ \E email \in Emails, password \in Passwords :
          Goto(r, "create", [email |-> email, password |-> password])
    /\ UNCHANGED <<admins, accountMu, tokens, last>>

CreateSave(r) ==
    /\ pc[r] = "create"
    /\ \/ Unused(held[r].email) /\ Insert(held[r].email, held[r].password)
       \/ UNCHANGED <<admins, last>>
    /\ Answer(r)
    /\ UNCHANGED <<accountMu, tokens>>

SetPassword(r) ==
    /\ Begins(r) /\ SignedIn
    /\ \E i \in DOMAIN admins, password \in Passwords :
          Goto(r, "password", [id |-> i, password |-> password])
    /\ UNCHANGED <<admins, accountMu, tokens, last>>

(* A row that is gone by now stays gone. *)
PasswordSave(r) ==
    /\ pc[r] = "password"
    /\ \/ /\ held[r].id \in DOMAIN admins
          /\ admins' = [admins EXCEPT ![held[r].id].key = last + 1,
                                      ![held[r].id].password = held[r].password]
          /\ last' = last + 1
       \/ UNCHANGED <<admins, last>>
    /\ Answer(r)
    /\ UNCHANGED <<accountMu, tokens>>

(* By the endpoint, which counts before it calls Delete, or by PocketBase  *)
(* itself, which does not.                                                 *)
DeleteAccount(r) ==
    /\ Begins(r) /\ SignedIn
    /\ \E i \in DOMAIN admins, step \in {"fastPath", "hook"} : Goto(r, step, [id |-> i])
    /\ UNCHANGED <<admins, accountMu, tokens, last>>

(* The mutex is let go before Delete, whose hook takes it.                 *)
FastPath(r) ==
    /\ pc[r] = "fastPath" /\ accountMu = Free
    /\ IF OnlyOneLeft THEN Answer(r) ELSE Goto(r, "hook", held[r])
    /\ UNCHANGED <<admins, accountMu, tokens, last>>

GuardHook(r) ==
    /\ pc[r] = "hook" /\ accountMu = Free
    /\ IF OnlyOneLeft
       THEN Answer(r) /\ UNCHANGED accountMu
       ELSE accountMu' = r /\ Goto(r, "delete", held[r])
    /\ UNCHANGED <<admins, tokens, last>>

DeleteRow(r) ==
    /\ pc[r] = "delete"
    /\ \/ admins' = [i \in DOMAIN admins \ {held[r].id} |-> admins[i]]
       \/ UNCHANGED admins
    /\ accountMu' = Free /\ Answer(r)
    /\ UNCHANGED <<tokens, last>>

(* A login and a refresh read the row, then sign with the key they read.   *)
(* A token remembers here, for the property, whose password opened it.     *)
PostSession(r) ==
    /\ Begins(r)
    /\ \E i \in DOMAIN admins :
          Goto(r, "mint", [id |-> i, key |-> admins[i].key, password |-> admins[i].password])
    /\ UNCHANGED <<admins, accountMu, tokens, last>>

RefreshSession(r) ==
    /\ Begins(r)
    /\ \E t \in tokens :
          Good(t) /\ Goto(r, "mint", [id |-> t.id, key |-> admins[t.id].key, password |-> t.password])
    /\ UNCHANGED <<admins, accountMu, tokens, last>>

(* Mutant: signs with the key of the row as it is now. *)
SignWithCurrentKey(r) ==
    /\ pc[r] = "mint"
    /\ held[r].id \in DOMAIN admins
    /\ tokens' = tokens \union {[held[r] EXCEPT !.key = admins[held[r].id].key]}
    /\ Answer(r)
    /\ UNCHANGED <<admins, accountMu, last>>

NewAuthToken(r) ==
    /\ pc[r] = "mint"
    /\ tokens' = tokens \union {held[r]}
    /\ Answer(r)
    /\ UNCHANGED <<admins, accountMu, last>>

(* A boot has the database to itself: no route is served before it ends.   *)
BootstrapAdminFromEnv ==
    \/ NeedsSetup /\ \E e \in EnvAdmins : Insert(e.email, e.password)
    \/ UNCHANGED <<admins, last>>

Restart ==
    /\ last < MaxSaves
    /\ accountMu' = Free
    /\ pc' = [r \in Requests |-> "idle"] /\ held' = [r \in Requests |-> Unread]
    /\ BootstrapAdminFromEnv
    /\ UNCHANGED tokens

AccountsInit ==
    /\ admins = [i \in {} |-> Unread] /\ tokens = {} /\ last = 0
    /\ accountMu = Free
    /\ pc = [r \in Requests |-> "idle"] /\ held = [r \in Requests |-> Unread]

Serve(r) ==
    \/ Setup(r) \/ SetupCount(r) \/ SetupSave(r)
    \/ Create(r) \/ CreateSave(r) \/ SetPassword(r) \/ PasswordSave(r)
    \/ DeleteAccount(r) \/ FastPath(r) \/ GuardHook(r) \/ DeleteRow(r)
    \/ PostSession(r) \/ RefreshSession(r) \/ NewAuthToken(r)

AccountsNext == Restart \/ \E r \in Requests : Serve(r)

AccountsSpec == AccountsInit /\ [][AccountsNext]_accountVars

-----------------------------------------------------------------------------
(* There is a first account exactly once: a setup or a boot makes one only *)
(* while there is none, although each counts before it writes; and no      *)
(* delete, by whatever path and whatever runs beside it, takes the last,   *)
(* so no later setup finds the server unclaimed (account.go:34-41).        *)
OneFirstAdmin ==
    [][/\ DOMAIN admins # {} => DOMAIN admins' # {}
       /\ \A r \in Requests : pc[r] = "setupSave" /\ admins' # admins => DOMAIN admins = {}]_accountVars

(* A new password ends every session the old one opened, those included    *)
(* that a login or a refresh was about to open when it changed             *)
(* (docs/SECURITY.md:48-51).                                               *)
PasswordEndsSessions ==
    \A t \in tokens : Good(t) => t.password = admins[t.id].password
=============================================================================
