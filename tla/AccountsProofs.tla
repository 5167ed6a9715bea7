--------------------------- MODULE AccountsProofs ---------------------------
(***************************************************************************)
(* Who is signed in, on the server and on the page.                        *)
(*                                                                         *)
(* Accounts, for any handlers, addresses, passwords and accounts of the    *)
(* environment: there is a first admin once and never none again, and a    *)
(* new password ends the sessions of the old one.  The first rests on what *)
(* a handler knows between its count and its write: it holds the mutex, so *)
(* only an insert can come between, and no insert comes before the first   *)
(* setup, for nobody is signed in.  The second on keys being drawn once: a *)
(* key that was read with a password is never the key of another.          *)
(*                                                                         *)
(* The page, for any accounts and number of moves: SesInv says that it is  *)
(* signed in, signed out, a guest at a form or just loaded, which requests *)
(* may be under way in each, and what is known of their answers.  Nothing  *)
(* is claimed of a page that lost an answer until it is loaded again.      *)
(***************************************************************************)
EXTENDS AdminPanels, TLAPS

Row == [email : Emails, key : Nat, password : Passwords]
Body == [email : Emails, password : Passwords]
Change == [id : Nat, password : Passwords]
Token == [id : Nat, key : Nat, password : Passwords]

AccountsTyped ==
    /\ last \in Nat
    /\ accountMu \in Requests \union {Free}
    /\ admins \in [DOMAIN admins -> Row]
    /\ \A i \in DOMAIN admins : i \in Nat /\ i <= last /\ admins[i].key <= last
    /\ pc \in [Requests -> {"idle", "setup", "setupSave", "create", "password", "fastPath",
                            "hook", "delete", "mint"}]
    /\ held = [r \in Requests |-> held[r]]
    /\ \A r \in Requests :
          /\ pc[r] \in {"setup", "setupSave", "create"} => held[r] \in Body
          /\ pc[r] = "password" => held[r] \in Change

(* What a handler between two steps may count on.                          *)
Guarded ==
    \A r \in Requests :
        /\ pc[r] \in {"setupSave", "delete"} => accountMu = r
        /\ pc[r] = "setupSave" => DOMAIN admins = {}
        /\ pc[r] = "delete" => ~OnlyOneLeft
        /\ pc[r] = "create" => DOMAIN admins # {}

(* A key goes with the password it was read with. *)
Matches(t) ==
    /\ t \in Token /\ t.id <= last /\ t.key <= last
    /\ Good(t) => t.password = admins[t.id].password

Signed ==
    /\ \A t \in tokens : Matches(t)
    /\ \A r \in Requests : pc[r] = "mint" => Matches(held[r])

AccountsInv == AccountsTyped /\ Guarded /\ Signed

-----------------------------------------------------------------------------
LEMMA AccountsInvInit == AccountsInit => AccountsInv
  BY AccountsAssumption DEF AccountsInit, AccountsInv, AccountsTyped, Guarded, Signed

(* A new row disturbs no row and no token. *)
LEMMA Inserted ==
    ASSUME AccountsTyped, NEW email \in Emails, NEW password \in Passwords, Insert(email, password)
    PROVE  /\ last' = last + 1 /\ last + 1 \notin DOMAIN admins
           /\ DOMAIN admins' = DOMAIN admins \union {last + 1}
           /\ \A i \in DOMAIN admins : admins'[i] = admins[i]
           /\ admins' \in [DOMAIN admins' -> Row]
           /\ \A i \in DOMAIN admins' : i \in Nat /\ i <= last' /\ admins'[i].key <= last'
           /\ \A t : Matches(t) => Matches(t)'
  <1>1. last + 1 \notin DOMAIN admins /\ last \in Nat
    BY DEF AccountsTyped
  <1>2. /\ last' = last + 1 /\ DOMAIN admins' = DOMAIN admins \union {last + 1}
        /\ \A i \in DOMAIN admins : admins'[i] = admins[i]
        /\ admins'[last + 1] = [email |-> email, key |-> last + 1, password |-> password]
    BY <1>1 DEF Insert
  <1>3. admins' \in [DOMAIN admins' -> Row]
    <2>1. \A i \in DOMAIN admins' : admins'[i] \in Row
      BY <1>1, <1>2 DEF AccountsTyped, Row
    <2>2. admins' = [i \in DOMAIN admins' |-> admins'[i]]
      BY <1>2 DEF Insert
    <2> QED
      BY <2>1, <2>2
  <1>4. \A i \in DOMAIN admins' : i \in Nat /\ i <= last' /\ admins'[i].key <= last'
    <2>1. \A i \in DOMAIN admins : admins[i].key \in Nat
      BY DEF AccountsTyped, Row
    <2> QED
      BY <1>1, <1>2, <2>1 DEF AccountsTyped
  <1>5. ASSUME NEW t, Matches(t) PROVE Matches(t)'
    <2>1. t \in Token /\ t.id \in Nat /\ t.key \in Nat /\ t.id <= last /\ t.key <= last
      BY <1>5 DEF Matches, Token
    <2>2. t.id # last + 1
      BY <1>1, <2>1
    <2>3. Good(t)' => Good(t) /\ admins'[t.id] = admins[t.id]
      BY <1>2, <2>2 DEF Good
    <2> QED
      BY <1>1, <1>2, <1>5, <2>1, <2>3 DEF Matches
  <1> QED
    BY <1>1, <1>2, <1>3, <1>4, <1>5

(* Steps of a handler that write no row: what they leave in pc and held.   *)
LEMMA RowsKept ==
    ASSUME AccountsTyped, UNCHANGED <<admins, last>>
    PROVE  /\ admins' \in [DOMAIN admins' -> Row]
           /\ \A i \in DOMAIN admins' : i \in Nat /\ i <= last' /\ admins'[i].key <= last'
           /\ last' \in Nat
           /\ OnlyOneLeft' = OnlyOneLeft
           /\ \A t : Matches(t)' <=> Matches(t)
  BY DEF AccountsTyped, OnlyOneLeft, Matches, Good

LEMMA InsertingKeepsTwo ==
    ASSUME AccountsTyped, NEW email \in Emails, NEW password \in Passwords, Insert(email, password)
    PROVE  ~OnlyOneLeft => ~OnlyOneLeft'
  BY Inserted DEF OnlyOneLeft

(* A step of r that ends it. *)
LEMMA Answered ==
    ASSUME AccountsTyped, NEW r \in Requests, Answer(r)
    PROVE  /\ pc'[r] = "idle" /\ \A q \in Requests \ {r} : pc'[q] = pc[q] /\ held'[q] = held[q]
           /\ pc' \in [Requests -> {"idle", "setup", "setupSave", "create", "password", "fastPath",
                                     "hook", "delete", "mint"}]
           /\ held' = [q \in Requests |-> held'[q]]
  BY DEF AccountsTyped, Answer, Goto

LEMMA InsertEnds ==
    ASSUME AccountsInv, NEW r \in Requests, pc[r] \in {"setupSave", "create"},
           \/ Unused(held[r].email) /\ Insert(held[r].email, held[r].password)
           \/ UNCHANGED <<admins, last>>,
           Answer(r), UNCHANGED tokens,
           accountMu' = IF pc[r] = "create" THEN accountMu ELSE Free
    PROVE  AccountsInv'
  <1>1. AccountsTyped /\ Guarded /\ Signed /\ held[r].email \in Emails /\ held[r].password \in Passwords
    BY DEF AccountsInv, AccountsTyped, Body
  <1>2. AccountsTyped'
    BY <1>1, Inserted, RowsKept, Answered DEF AccountsTyped
  <1>3. /\ DOMAIN admins # {} => DOMAIN admins' # {}
        /\ ~OnlyOneLeft => ~OnlyOneLeft'
    BY <1>1, Inserted, InsertingKeepsTwo, RowsKept
  <1>4. \A q \in Requests \ {r} : pc[q] # "setupSave" /\ (pc[r] = "setupSave" => pc[q] # "delete")
    BY <1>1 DEF Guarded
  <1>5. Guarded'
    BY <1>1, <1>3, <1>4, Answered DEF Guarded
  <1>6. Signed'
    BY <1>1, Inserted, RowsKept, Answered DEF Signed
  <1> QED
    BY <1>2, <1>5, <1>6 DEF AccountsInv

(* A step of r that only says what it will do next. *)
LEMMA Goes ==
    ASSUME AccountsInv, NEW r \in Requests, NEW step, NEW with, Goto(r, step, with),
           UNCHANGED <<admins, accountMu, tokens, last>>,
           \/ step = "idle"
           \/ step = "setup" /\ with \in Body
           \/ step = "create" /\ with \in Body /\ DOMAIN admins # {}
           \/ step = "password" /\ with \in Change
           \/ step \in {"fastPath", "hook"}
           \/ step = "mint" /\ Matches(with)
    PROVE  AccountsInv'
  <1>1. AccountsTyped /\ Guarded /\ Signed
    BY DEF AccountsInv
  <1>2. pc' = [pc EXCEPT ![r] = step] /\ held' = [held EXCEPT ![r] = with]
    BY DEF Goto
  <1>3. AccountsTyped'
    BY <1>1, <1>2 DEF AccountsTyped
  <1>4. Guarded'
    BY <1>1, <1>2, RowsKept DEF Guarded, AccountsTyped
  <1>5. Signed'
    BY <1>1, <1>2, RowsKept DEF Signed, AccountsTyped
  <1> QED
    BY <1>3, <1>4, <1>5 DEF AccountsInv

(* A handler that counted under the mutex keeps it if it goes on.          *)
LEMMA Counts ==
    ASSUME AccountsInv, NEW r \in Requests, SetupCount(r) \/ GuardHook(r)
    PROVE  AccountsInv'
  <1>1. AccountsTyped /\ Guarded /\ Signed /\ accountMu = Free /\ UNCHANGED <<admins, tokens, last>>
    BY DEF AccountsInv, SetupCount, GuardHook
  <1>2. CASE accountMu' = accountMu /\ Answer(r)
    BY <1>1, <1>2, Goes DEF Answer
  <1>3. ASSUME accountMu' = r, NEW step, Goto(r, step, held[r]),
               \/ step = "setupSave" /\ pc[r] = "setup" /\ DOMAIN admins = {}
               \/ step = "delete" /\ ~OnlyOneLeft
        PROVE  AccountsInv'
    <2>1. pc' = [pc EXCEPT ![r] = step] /\ held' = [held EXCEPT ![r] = held[r]]
      BY <1>3 DEF Goto
    <2>2. AccountsTyped'
      BY <1>1, <1>3, <2>1 DEF AccountsTyped
    <2>3. \A q \in Requests : pc[q] \notin {"setupSave", "delete"}
      BY <1>1, AccountsAssumption DEF Guarded
    <2>4. Guarded'
      BY <1>1, <1>3, <2>1, <2>3, RowsKept DEF Guarded, AccountsTyped
    <2>5. Signed'
      BY <1>1, <1>3, <2>1, RowsKept DEF Signed, AccountsTyped
    <2> QED
      BY <2>2, <2>4, <2>5 DEF AccountsInv
  <1> QED
    BY <1>2, <1>3 DEF SetupCount, GuardHook, NeedsSetup

LEMMA PasswordSaves ==
    ASSUME AccountsInv, NEW r \in Requests, PasswordSave(r)
    PROVE  AccountsInv'
  <1>1. AccountsTyped /\ Guarded /\ Signed /\ Answer(r) /\ UNCHANGED <<accountMu, tokens>>
    BY DEF AccountsInv, PasswordSave
  <1>2. CASE UNCHANGED <<admins, last>>
    BY <1>1, <1>2, Goes DEF Answer
  <1>3. CASE ~UNCHANGED <<admins, last>>
    <2> DEFINE id == held[r].id
    <2>1. /\ id \in DOMAIN admins /\ held[r].password \in Passwords /\ last' = last + 1
          /\ admins' = [admins EXCEPT ![id].key = last + 1, ![id].password = held[r].password]
      BY <1>1, <1>3 DEF PasswordSave, AccountsTyped, Change
    <2>2. /\ DOMAIN admins' = DOMAIN admins
          /\ \A i \in DOMAIN admins \ {id} : admins'[i] = admins[i]
          /\ admins'[id] = [email |-> admins[id].email, key |-> last + 1, password |-> held[r].password]
      <3>1. admins \in [DOMAIN admins -> Row] /\ admins[id] \in Row
        BY <1>1, <2>1 DEF AccountsTyped
      <3> QED
        BY <2>1, <3>1 DEF Row
    <2>3. AccountsTyped'
      <3>1. admins' \in [DOMAIN admins' -> Row]
        BY <1>1, <2>1, <2>2 DEF AccountsTyped, Row
      <3>2. \A i \in DOMAIN admins' : i \in Nat /\ i <= last' /\ admins'[i].key <= last'
        BY <1>1, <2>1, <2>2 DEF AccountsTyped, Row
      <3> QED
        BY <1>1, <2>1, <3>1, <3>2, Answered DEF AccountsTyped
    <2>4. Guarded'
      BY <1>1, <2>2, Answered DEF Guarded, OnlyOneLeft
    <2>5. ASSUME NEW t, Matches(t) PROVE Matches(t)'
      <3>1. t \in Token /\ t.key \in Nat /\ t.key <= last /\ t.id <= last /\ t.id \in Nat /\ last \in Nat
        BY <1>1, <2>5 DEF Matches, Token, AccountsTyped
      <3>2. Good(t)' => Good(t) /\ admins'[t.id] = admins[t.id]
        BY <2>2, <3>1 DEF Good
      <3>3. t.id <= last' /\ t.key <= last'
        BY <2>1, <3>1
      <3> QED
        BY <2>5, <3>1, <3>2, <3>3 DEF Matches
    <2>6. Signed'
      <3>1. \A q \in Requests : pc'[q] = "mint" => pc[q] = "mint" /\ held'[q] = held[q]
        BY <1>1, Answered
      <3>2. \A t : Matches(t) => Matches(t)'
        BY <2>5
      <3> QED
        BY <1>1, <3>1, <3>2 DEF Signed
    <2> QED
      BY <2>3, <2>4, <2>6 DEF AccountsInv
  <1> QED
    BY <1>2, <1>3

LEMMA Deletes ==
    ASSUME AccountsInv, NEW r \in Requests, DeleteRow(r)
    PROVE  AccountsInv' /\ DOMAIN admins' # {}
  <1> DEFINE id == held[r].id
  <1>1. /\ AccountsTyped /\ Guarded /\ Signed /\ Answer(r) /\ UNCHANGED <<tokens, last>>
        /\ accountMu' = Free /\ pc[r] = "delete" /\ ~OnlyOneLeft
    BY DEF AccountsInv, DeleteRow, Guarded
  <1>2. /\ DOMAIN admins' \subseteq DOMAIN admins
        /\ \A i \in DOMAIN admins' : admins'[i] = admins[i]
        /\ admins' \in [DOMAIN admins' -> Row]
        /\ DOMAIN admins' # {}
    <2>1. CASE UNCHANGED admins
      BY <1>1, <2>1 DEF AccountsTyped, OnlyOneLeft
    <2>2. CASE admins' = [i \in DOMAIN admins \ {id} |-> admins[i]]
      <3>1. DOMAIN admins' = DOMAIN admins \ {id} /\ \A i \in DOMAIN admins' : admins'[i] = admins[i]
        BY <2>2
      <3>2. \A i \in DOMAIN admins : admins[i] \in Row
        BY <1>1 DEF AccountsTyped
      <3>3. admins' \in [DOMAIN admins \ {id} -> Row]
        BY <2>2, <3>2
      <3>4. DOMAIN admins \ {id} # {}
        BY <1>1 DEF OnlyOneLeft
      <3> QED
        BY <3>1, <3>3, <3>4
    <2> QED
      BY <2>1, <2>2 DEF DeleteRow
  <1>3. AccountsTyped'
    BY <1>1, <1>2, Answered DEF AccountsTyped
  <1>4. \A q \in Requests \ {r} : pc[q] \notin {"setupSave", "delete"}
    BY <1>1 DEF Guarded
  <1>5. Guarded'
    BY <1>1, <1>2, <1>4, Answered DEF Guarded
  <1>6. ASSUME NEW t, Matches(t) PROVE Matches(t)'
    BY <1>1, <1>2, <1>6 DEF Matches, Good
  <1>7. Signed'
    BY <1>1, <1>6, Answered DEF Signed
  <1> QED
    BY <1>2, <1>3, <1>5, <1>7 DEF AccountsInv

LEMMA Restarts ==
    ASSUME AccountsInv, Restart
    PROVE  AccountsInv'
  <1>1. /\ AccountsTyped /\ Guarded /\ Signed /\ UNCHANGED tokens
        /\ accountMu' = Free
        /\ pc' = [r \in Requests |-> "idle"] /\ held' = [r \in Requests |-> Unread]
    BY DEF AccountsInv, Restart
  <1>2. Guarded'
    BY <1>1 DEF Guarded
  <1>3. CASE UNCHANGED <<admins, last>>
    <2>1. AccountsTyped' /\ Signed'
      BY <1>1, <1>3, RowsKept DEF AccountsTyped, Signed
    <2> QED
      BY <1>2, <2>1 DEF AccountsInv
  <1>4. ASSUME NEW e \in EnvAdmins, Insert(e.email, e.password) PROVE AccountsInv'
    <2>1. e.email \in Emails /\ e.password \in Passwords
      BY AccountsAssumption
    <2>2. AccountsTyped' /\ Signed'
      BY <1>1, <1>4, <2>1, Inserted DEF AccountsTyped, Signed
    <2> QED
      BY <1>2, <2>2 DEF AccountsInv
  <1> QED
    BY <1>3, <1>4 DEF Restart, BootstrapAdminFromEnv

LEMMA Serves ==
    ASSUME AccountsInv, NEW r \in Requests, Serve(r)
    PROVE  AccountsInv'
  <1>1. AccountsTyped /\ Guarded /\ Signed
    BY DEF AccountsInv
  <1>2. CASE Setup(r)
    BY <1>2, Goes DEF Setup, Body
  <1>3. CASE Create(r)
    BY <1>3, Goes DEF Create, Body, SignedIn, Good
  <1>4. CASE SetPassword(r)
    BY <1>1, <1>4, Goes DEF SetPassword, Change, AccountsTyped
  <1>5. CASE DeleteAccount(r)
    BY <1>5, Goes DEF DeleteAccount
  <1>6. CASE FastPath(r)
    BY <1>6, Goes DEF FastPath, Answer
  <1>7. CASE PostSession(r)
    <2>1. PICK i \in DOMAIN admins :
            Goto(r, "mint", [id |-> i, key |-> admins[i].key, password |-> admins[i].password])
      BY <1>7 DEF PostSession
    <2>2. admins[i] \in Row /\ i \in Nat /\ i <= last /\ admins[i].key <= last
      BY <1>1 DEF AccountsTyped
    <2>3. Matches([id |-> i, key |-> admins[i].key, password |-> admins[i].password])
      BY <2>2 DEF Matches, Token, Row
    <2> QED
      BY <1>7, <2>1, <2>3, Goes DEF PostSession
  <1>8. CASE RefreshSession(r)
    <2>1. PICK t \in tokens :
            Good(t) /\ Goto(r, "mint", [id |-> t.id, key |-> admins[t.id].key, password |-> t.password])
      BY <1>8 DEF RefreshSession
    <2>2. Matches(t) /\ t \in Token /\ admins[t.id].key = t.key
      BY <1>1, <2>1 DEF Signed, Matches, Good
    <2>3. [id |-> t.id, key |-> admins[t.id].key, password |-> t.password] = t
      BY <2>2 DEF Token
    <2> QED
      BY <1>8, <2>1, <2>2, <2>3, Goes DEF RefreshSession
  <1>9. CASE NewAuthToken(r)
    <2>1. /\ UNCHANGED <<admins, accountMu, last>> /\ Answer(r)
          /\ tokens' = tokens \union {held[r]} /\ Matches(held[r])
      BY <1>1, <1>9 DEF NewAuthToken, Signed
    <2>2. AccountsTyped' /\ Guarded' /\ Signed'
      BY <1>1, <2>1, RowsKept, Answered DEF AccountsTyped, Guarded, Signed
    <2> QED
      BY <2>2 DEF AccountsInv
  <1>10. CASE SetupSave(r) \/ CreateSave(r)
    BY <1>10, InsertEnds DEF SetupSave, CreateSave
  <1> QED
    BY <1>2, <1>3, <1>4, <1>5, <1>6, <1>7, <1>8, <1>9, <1>10, Counts, PasswordSaves, Deletes
    DEF Serve

-----------------------------------------------------------------------------
(* What every handler may count on, at every moment of every behaviour.    *)
THEOREM AccountsInvariant == AccountsSpec => []AccountsInv
  <1>1. AccountsInv /\ [AccountsNext]_accountVars => AccountsInv'
    <2> SUFFICES ASSUME AccountsInv, [AccountsNext]_accountVars PROVE AccountsInv'
      OBVIOUS
    <2>1. CASE UNCHANGED accountVars
      BY <2>1, RowsKept DEF accountVars, AccountsInv, AccountsTyped, Guarded, Signed
    <2> QED
      BY <2>1, Restarts, Serves DEF AccountsNext
  <1> QED
    BY <1>1, AccountsInvInit, PTL DEF AccountsSpec

(* No session outlives the password that opened it: docs/SECURITY.md says  *)
(* that all outstanding tokens of an account die with its password, and so *)
(* do those that a login or refresh under way was about to sign.           *)
THEOREM SessionsEnd == AccountsSpec => []PasswordEndsSessions
  <1>1. AccountsInv => PasswordEndsSessions
    BY DEF AccountsInv, Signed, Matches, PasswordEndsSessions
  <1> QED
    BY <1>1, AccountsInvariant, PTL

(* The guards of account.go hold together: one first admin, never none     *)
(* again, on every path and in every order.                                *)
THEOREM FirstAdminOnce == AccountsSpec => OneFirstAdmin
  <1> DEFINE Kept ==
        /\ DOMAIN admins # {} => DOMAIN admins' # {}
        /\ \A r \in Requests : pc[r] = "setupSave" /\ admins' # admins => DOMAIN admins = {}
  <1>1. AccountsInv /\ [AccountsNext]_accountVars => [Kept]_accountVars
    <2> SUFFICES ASSUME AccountsInv, AccountsNext PROVE Kept
      OBVIOUS
    <2>1. \A r \in Requests : pc[r] = "setupSave" => DOMAIN admins = {}
      BY DEF AccountsInv, Guarded
    <2>2. ASSUME NEW r \in Requests, DeleteRow(r) PROVE DOMAIN admins' # {}
      BY <2>2, Deletes
    <2>3. ASSUME NEW r \in Requests, Serve(r), ~DeleteRow(r)
          PROVE  DOMAIN admins \subseteq DOMAIN admins'
      BY <2>3 DEF Serve, Setup, SetupCount, SetupSave, Create, CreateSave, SetPassword, PasswordSave,
                  DeleteAccount, FastPath, GuardHook, PostSession, RefreshSession, NewAuthToken, Insert
    <2>4. ASSUME Restart PROVE DOMAIN admins \subseteq DOMAIN admins'
      BY <2>4 DEF Restart, BootstrapAdminFromEnv, Insert
    <2> QED
      BY <2>1, <2>2, <2>3, <2>4 DEF AccountsNext
  <1> QED
    BY <1>1, AccountsInvariant, PTL DEF AccountsSpec, OneFirstAdmin

-----------------------------------------------------------------------------
(* The page. *)

SesFields == {"server", "cookie", "moves", "missed", "authed", "authMode", "cloudUrl", "shown", "card", "logout",
              "loginError", "ssoError", "listed", "left", "ticket", "net"}
SesHas(s) == SesFields \subseteq DOMAIN s

(* What no reaction of the page changes; requests are only added. *)
SesGrows(t, s) ==
    /\ t.server = s.server /\ t.cookie = s.cookie /\ t.moves = s.moves /\ t.missed = s.missed /\ t.listed = s.listed
    /\ s.net \subseteq t.net

(* The rest, but for the requests. *)
SesLooks(t, s) ==
    /\ (t.authed <=> s.authed) /\ t.authMode = s.authMode /\ t.shown = s.shown /\ (t.card <=> s.card)
    /\ (t.logout <=> s.logout)

SesNew(s, what, arg, then) ==
    [what |-> what, arg |-> arg, then |-> then, token |-> s.cookie, out |-> None, data |-> None]

LEMMA SesTrans ==
  ASSUME NEW s, NEW t, NEW u, SesGrows(t, s), SesGrows(u, t)
  PROVE  SesGrows(u, s)
  BY DEF SesGrows

LEMMA SesSend ==
  ASSUME NEW s, SesHas(s), NEW what, NEW arg, NEW then, NEW t, t = Session!Send(s, what, arg, then)
  PROVE  SesHas(t) /\ SesGrows(t, s) /\ SesLooks(t, s) /\ t.net = s.net \union {SesNew(s, what, arg, then)}
  BY DEF SesHas, SesFields, SesGrows, SesLooks, SesNew, Session!Send

LEMMA SesGating ==
  ASSUME NEW s, SesHas(s), NEW t, t = Session!applySsoUiGating(s)
  PROVE  /\ SesHas(t) /\ SesGrows(t, s) /\ t.net = s.net
         /\ (t.authed <=> s.authed) /\ t.authMode = s.authMode /\ (t.logout <=> s.logout)
         /\ s.authMode = "sso" => t.shown = s.shown \ {"login", "setup"} /\ ~t.card
         /\ s.authMode # "sso" => t = s
  BY DEF SesHas, SesFields, SesGrows, Session!applySsoUiGating, Session!isSsoMode

LEMMA SesNotice ==
  ASSUME NEW s, SesHas(s), NEW msg, NEW t, t = Session!showSsoNotice(s, msg)
  PROVE  /\ SesHas(t) /\ SesGrows(t, s) /\ t.net = s.net
         /\ (t.authed <=> s.authed) /\ t.authMode = s.authMode /\ ~t.logout /\ t.shown = {"sso"}
         /\ s.authMode = "sso" => ~t.card
  <1> DEFINE u == [s EXCEPT !.shown = {"sso"}, !.logout = FALSE, !.loginError = "", !.ssoError = msg]
  <1>1. /\ SesHas(u) /\ SesGrows(u, s) /\ u.net = s.net
        /\ (u.authed <=> s.authed) /\ u.authMode = s.authMode /\ ~u.logout /\ u.shown = {"sso"}
    BY DEF SesHas, SesFields, SesGrows
  <1>2. t = Session!applySsoUiGating(u)
    BY DEF Session!showSsoNotice
  <1> HIDE DEF u
  <1>3. /\ SesHas(t) /\ SesGrows(t, u) /\ t.net = u.net
        /\ (t.authed <=> u.authed) /\ t.authMode = u.authMode /\ (t.logout <=> u.logout)
        /\ u.authMode = "sso" => t.shown = u.shown \ {"login", "setup"} /\ ~t.card
        /\ u.authMode # "sso" => t = u
    BY <1>1, <1>2, SesGating
  <1>4. t.shown = {"sso"}
    BY <1>1, <1>3
  <1> QED
    BY <1>1, <1>3, <1>4, SesTrans

LEMMA SesLoggedIn ==
  ASSUME NEW s, SesHas(s), NEW t, t = Session!setLoggedIn(s, TRUE)
  PROVE  /\ SesHas(t) /\ SesGrows(t, s) /\ t.net = s.net
         /\ s.authMode # "sso" => /\ t.authed /\ t.logout /\ t.authMode = s.authMode /\ (t.card <=> s.card)
                                  /\ t.shown = (s.shown \ {"login", "setup"}) \union {"admin"}
  <1> DEFINE u == [s EXCEPT !.authed = TRUE, !.logout = TRUE]
  <1>1. SesHas(u) /\ SesGrows(u, s) /\ u.net = s.net /\ u.authed /\ u.logout /\ u.authMode = s.authMode
        /\ u.shown = s.shown /\ (u.card <=> s.card)
    BY DEF SesHas, SesFields, SesGrows
  <1> HIDE DEF u
  <1>2. CASE s.authMode # "sso"
    <2> DEFINE v == [u EXCEPT !.shown = (@ \ {"login", "setup"}) \union {"admin"}]
    <2>1. t = v
      BY <1>1, <1>2 DEF Session!setLoggedIn, Session!isSsoMode, u
    <2>2. SesHas(v) /\ SesGrows(v, u) /\ v.net = u.net /\ v.authed /\ v.logout /\ v.authMode = u.authMode
          /\ v.shown = (u.shown \ {"login", "setup"}) \union {"admin"} /\ (v.card <=> u.card)
      BY <1>1 DEF SesHas, SesFields, SesGrows
    <2> HIDE DEF v
    <2> QED
      BY <1>1, <2>1, <2>2, SesTrans
  <1>3. CASE s.authMode = "sso"
    <2> DEFINE v == [u EXCEPT !.shown = (@ \ {"sso"}) \union {"admin"}, !.loginError = ""]
    <2>1. t = Session!applySsoUiGating(v)
      BY <1>1, <1>3 DEF Session!setLoggedIn, Session!isSsoMode, u
    <2>2. SesHas(v) /\ SesGrows(v, u) /\ v.net = u.net
      BY <1>1 DEF SesHas, SesFields, SesGrows
    <2> HIDE DEF v
    <2>3. SesHas(t) /\ SesGrows(t, v) /\ t.net = v.net
      BY <2>1, <2>2, SesGating
    <2> QED
      BY <1>1, <1>3, <2>2, <2>3, SesTrans
  <1> QED
    BY <1>2, <1>3

LEMMA SesLoggedOut ==
  ASSUME NEW s, SesHas(s), NEW t, t = Session!setLoggedIn(s, FALSE)
  PROVE  /\ SesHas(t) /\ SesGrows(t, s) /\ t.net = s.net
         /\ ~t.authed /\ ~t.logout /\ t.authMode = s.authMode
         /\ s.authMode # "sso" => t.shown = (s.shown \ {"admin"}) \union {"login"} /\ (t.card <=> s.card)
         /\ s.authMode = "sso" => t.shown = {"sso"} /\ ~t.card
  <1> DEFINE u == [s EXCEPT !.authed = FALSE, !.logout = FALSE]
  <1>1. SesHas(u) /\ SesGrows(u, s) /\ u.net = s.net /\ ~u.authed /\ ~u.logout /\ u.authMode = s.authMode
        /\ u.shown = s.shown /\ (u.card <=> s.card)
    BY DEF SesHas, SesFields, SesGrows
  <1> HIDE DEF u
  <1>2. CASE s.authMode # "sso"
    <2> DEFINE v == [u EXCEPT !.shown = (@ \ {"admin"}) \union {"login"}]
    <2>1. t = v
      BY <1>1, <1>2 DEF Session!setLoggedIn, Session!isSsoMode, u
    <2>2. SesHas(v) /\ SesGrows(v, u) /\ v.net = u.net /\ ~v.authed /\ ~v.logout /\ v.authMode = u.authMode
          /\ v.shown = (u.shown \ {"admin"}) \union {"login"} /\ (v.card <=> u.card)
      BY <1>1 DEF SesHas, SesFields, SesGrows
    <2> HIDE DEF v
    <2> QED
      BY <1>1, <1>2, <2>1, <2>2, SesTrans
  <1>3. CASE s.authMode = "sso"
    <2> DEFINE msg == ""
    <2>1. t = Session!showSsoNotice(u, msg)
      BY <1>1, <1>3 DEF Session!setLoggedIn, Session!isSsoMode, u
    <2> HIDE DEF msg
    <2>2. /\ SesHas(t) /\ SesGrows(t, u) /\ t.net = u.net
          /\ (t.authed <=> u.authed) /\ t.authMode = u.authMode /\ ~t.logout /\ t.shown = {"sso"}
          /\ u.authMode = "sso" => ~t.card
      BY <1>1, <2>1, SesNotice
    <2> QED
      BY <1>1, <1>3, <2>2, SesTrans
  <1> QED
    BY <1>2, <1>3

LEMMA SesCleared ==
  ASSUME NEW s, SesHas(s), NEW t, t = Session!clearToken(s)
  PROVE  /\ SesHas(t) /\ SesGrows(t, s) /\ t.net = s.net /\ ~t.authed
         /\ t.authMode = s.authMode /\ t.shown = s.shown /\ (t.card <=> s.card) /\ (t.logout <=> s.logout)
  BY DEF SesHas, SesFields, SesGrows, Session!clearToken

LEMMA SesError ==
  ASSUME NEW s, SesHas(s), NEW msg, NEW t, t = Session!showLoginError(s, msg)
  PROVE  SesHas(t) /\ SesGrows(t, s) /\ SesLooks(t, s) /\ t.net = s.net
  BY DEF SesHas, SesFields, SesGrows, SesLooks, Session!showLoginError

(* Signing out: the browser is told, and the page shows what a guest sees. *)
LEMMA SesLogsOut ==
  ASSUME NEW s, SesHas(s), NEW t, t = Session!doLogout(s)
  PROVE  /\ SesHas(t) /\ SesGrows(t, s) /\ t.net = s.net \union {SesNew(s, "end", None, "end")}
         /\ ~t.authed /\ ~t.logout /\ t.authMode = s.authMode
         /\ s.authMode # "sso" => t.shown = (s.shown \ {"admin"}) \union {"login"} /\ (t.card <=> s.card)
         /\ s.authMode = "sso" => t.shown = {"sso"} /\ ~t.card
  <1> DEFINE a == Session!Send(s, "end", None, "end")
             b == Session!clearToken(a)
             c == Session!setLoggedIn(b, FALSE)
  <1>1. SesHas(a) /\ SesGrows(a, s) /\ SesLooks(a, s) /\ a.net = s.net \union {SesNew(s, "end", None, "end")}
    BY SesSend
  <1>0. t = Session!ssoLogoutHome(c)
    BY DEF Session!doLogout
  <1> HIDE DEF a
  <1>2. /\ SesHas(b) /\ SesGrows(b, a) /\ b.net = a.net /\ ~b.authed
        /\ b.authMode = a.authMode /\ b.shown = a.shown /\ (b.card <=> a.card) /\ (b.logout <=> a.logout)
    BY <1>1, SesCleared
  <1> HIDE DEF b
  <1>3. /\ SesHas(c) /\ SesGrows(c, b) /\ c.net = b.net
        /\ ~c.authed /\ ~c.logout /\ c.authMode = b.authMode
        /\ b.authMode # "sso" => c.shown = (b.shown \ {"admin"}) \union {"login"} /\ (c.card <=> b.card)
        /\ b.authMode = "sso" => c.shown = {"sso"} /\ ~c.card
    BY <1>2, SesLoggedOut
  <1> HIDE DEF c
  <1>4. /\ SesHas(t) /\ SesGrows(t, c) /\ SesLooks(t, c) /\ t.net = c.net
    BY <1>0, <1>3 DEF SesHas, SesFields, SesGrows, SesLooks, Session!ssoLogoutHome
  <1>5. SesGrows(t, s)
    BY <1>1, <1>2, <1>3, <1>4, SesTrans
  <1> QED
    BY <1>1, <1>2, <1>3, <1>4, <1>5 DEF SesLooks

(* The mode is asked for only while it is not known. *)
LEMMA SesAsks ==
  ASSUME NEW s, NEW then
  PROVE  /\ s.authMode # None => Session!getAuthMode(s, then) = Session!Resolved(s, then, s.authMode)
         /\ s.authMode = None => Session!getAuthMode(s, then) = Session!Send(s, "mode", None, then)
  BY DEF Session!getAuthMode

SesNoMsg == ""

LEMMA SesResolved ==
  ASSUME NEW s, NEW mode
  PROVE  /\ mode = "sso" => /\ Session!Resolved(s, "gate", mode) = Session!applySsoUiGating(s)
                            /\ Session!Resolved(s, "guest", mode) = Session!showSsoNotice(s, SesNoMsg)
                            /\ Session!Resolved(s, "ticket", mode) = Session!showSsoNotice(s, "redeem failed")
         /\ mode # "sso" => /\ Session!Resolved(s, "gate", mode) = s
                            /\ Session!Resolved(s, "guest", mode) = Session!checkSetup(Session!setLoggedIn(s, FALSE))
                            /\ Session!Resolved(s, "ticket", mode) =
                                 Session!showLoginError(Session!bootWithoutTicket(s), "redeem failed")
         /\ Session!Resolved(s, "logout", mode) = Session!doLogout(s)
  BY DEF Session!Resolved, SesNoMsg

SesToken == [who : Admins, key : Nat]

(* A cookie that was there at some time: its key is no newer than n. *)
SesHeld(token, n) == token # None => token \in SesToken /\ token.key <= n

SesWhats == {"mode", "status", "end", "setup", "login", "redeem", "probe", "data", "refresh", "accounts",
             "create", "password", "remove"}

(* Requests are ones the page sends, each with a way to go on. *)
SesAsked(m) ==
    /\ {"what", "arg", "then", "token", "out", "data"} \subseteq DOMAIN m
    /\ m.what \in SesWhats
    /\ m.what = "mode" => m.then \in {"gate", "guest", "ticket", "logout"}

SesShape(s) == SesHas(s) /\ \A m \in s.net : SesAsked(m)

(* What a request under way knows: the answer, once there is one, is the   *)
(* server's, and the accounts that were listed are still those there are.  *)
SesMsg(m, server, n) ==
    /\ SesHeld(m.token, n)
    /\ m.what \in {"setup", "create"} => m.arg \in Admins
    /\ m.what \in {"mode", "status", "end"} => m.out \in {None, "ok"}
    /\ m.what = "mode" /\ m.out = "ok" => m.data.mode = server.mode
    /\ m.what \in {"login", "redeem", "refresh"} /\ m.out = "ok" => m.data \in SesToken /\ m.data.key <= n
    /\ m.what = "accounts" /\ m.out = "ok" => m.data = DOMAIN server.accounts /\ m.data # {}
    /\ m.what = "setup" /\ m.out = "denied" => SetupToken

SesServer(server, n) ==
    /\ {"mode", "cloud", "accounts"} \subseteq DOMAIN server /\ server.mode \in Modes
    /\ DOMAIN server.accounts \subseteq Admins
    /\ \A a \in DOMAIN server.accounts : server.accounts[a] \in Nat /\ server.accounts[a] <= n

SesCore(s) ==
    /\ s.moves \in Nat
    /\ SesServer(s.server, s.moves + 1)
    /\ SesHeld(s.cookie, s.moves + 1)
    /\ \A m \in s.net : SesMsg(m, s.server, s.moves + 1)
    /\ s.listed # None => DOMAIN s.server.accounts # {}

(* A list of accounts is the right one or will be replaced. *)
SesListed(s) ==
    \/ s.listed = None \/ s.listed = DOMAIN s.server.accounts
    \/ \E m \in s.net : m.what = "accounts" \/ (m.what \in {"create", "remove"} /\ m.out = "ok")

(* Signed in. *)
SesInLook(s) ==
    /\ s.authed /\ s.logout /\ s.shown = {"admin"} /\ s.cookie # None
    /\ s.authMode \in {None, s.server.mode}
    /\ s.authMode = "sso" => ~s.card

SesInKind(m) == m.what \in {"data", "accounts"} \/ (m.what = "mode" /\ m.then \in {"gate", "logout"})

SesIn(s) ==
    /\ SesInLook(s)
    /\ \/ \A m \in s.net : SesInKind(m)
       \/ \E m : s.net = {m} /\ m.what \in {"create", "password", "remove", "refresh"}

(* The login form.  A setup that is refused for want of the token leaves   *)
(* the form of the setup and adds this one.                                *)
SesForm(shown) == shown = {"login"} \/ (SetupToken /\ shown = {"login", "setup"})

(* Signed out: what was asked before is still answered. *)
SesOutLook(s) ==
    /\ ~s.authed /\ ~s.logout /\ s.authMode = s.server.mode
    /\ s.authMode = "sso" => ~s.card /\ s.shown = {"sso"}
    /\ s.authMode # "sso" => SesForm(s.shown)

SesOut(s) ==
    /\ SesOutLook(s)
    /\ \A m \in s.net : SesInKind(m) \/ m.what = "end"
    /\ s.authMode = "sso" \/ s.cookie = None \/ \E m \in s.net : m.what = "end"

(* Signed out at a form. *)
SesGuestLook(s) ==
    /\ ~s.authed /\ ~s.logout /\ s.authMode = s.server.mode /\ s.authMode # "sso"
    /\ SesForm(s.shown) \/ s.shown = {"setup"}
    /\ ~Session!Valid(s.server, s.cookie) /\ SesHeld(s.cookie, s.moves)

SesGuest(s) ==
    /\ SesGuestLook(s)
    /\ s.net = {} \/ \E m : s.net = {m} /\ m.what \in {"status", "login", "setup"}

(* A page that was just loaded. *)
SesBootKind(s, m) ==
    \/ /\ m.what = "probe" /\ m.token = s.cookie
       /\ s.authMode = None \/ (s.authMode = s.server.mode /\ s.authMode # "sso")
       /\ m.out = "ok" => s.cookie # None
       /\ m.out \notin {None, "ok"} => ~Session!Valid(s.server, s.cookie)
    \/ s.authMode = None /\ (m.what = "redeem" \/ (m.what = "mode" /\ m.then = "ticket"))
    \/ s.authMode = None /\ m.what = "mode" /\ m.then = "guest" /\ ~Session!Valid(s.server, s.cookie)

SesFresh(s) ==
    /\ ~s.authed /\ ~s.logout /\ s.shown = {"login"} /\ SesHeld(s.cookie, s.moves)
    /\ \E m : s.net = {m} /\ SesBootKind(s, m)

SesTrue(s) == SesCore(s) /\ SesListed(s) /\ (SesIn(s) \/ SesOut(s) \/ SesGuest(s) \/ SesFresh(s))

SesInv(s) == SesShape(s) /\ (~s.missed => SesTrue(s))

-----------------------------------------------------------------------------
(* What a reaction of the page does to what it does not decide. *)

(* A request that was just sent with the cookie there is. *)
SesAsk(m, s) ==
    /\ SesAsked(m) /\ m.token = s.cookie /\ m.out = None
    /\ m.what \in {"setup", "create"} => m.arg \in Admins

SesReacts(t, s) ==
    /\ SesHas(t) /\ SesGrows(t, s)
    /\ \A m \in t.net : m \in s.net \/ SesAsk(m, s)

LEMMA SesReactsOn ==
  ASSUME NEW s, NEW t, NEW u, SesReacts(t, s), SesReacts(u, t)
  PROVE  SesReacts(u, s)
  BY DEF SesReacts, SesGrows, SesAsk

LEMMA SesStill ==
  ASSUME NEW s, NEW t, SesHas(t), SesGrows(t, s), t.net = s.net
  PROVE  SesReacts(t, s)
  BY DEF SesReacts

LEMMA SesSame == ASSUME NEW s, SesHas(s) PROVE SesReacts(s, s)
  BY DEF SesReacts, SesGrows

LEMMA SesNewIs ==
  ASSUME NEW s, NEW what \in SesWhats, NEW arg, NEW then,
         what = "mode" => then \in {"gate", "guest", "ticket", "logout"},
         what \in {"setup", "create"} => arg \in Admins,
         NEW m, m = SesNew(s, what, arg, then)
  PROVE  SesAsk(m, s) /\ m.what = what /\ m.then = then /\ m.out = None /\ m.token = s.cookie
  BY DEF SesNew, SesAsk, SesAsked

LEMMA SesSends ==
  ASSUME NEW s, SesHas(s), NEW what \in SesWhats, NEW arg, NEW then,
         what = "mode" => then \in {"gate", "guest", "ticket", "logout"},
         what \in {"setup", "create"} => arg \in Admins,
         NEW t, t = Session!Send(s, what, arg, then)
  PROVE  /\ SesReacts(t, s) /\ SesLooks(t, s)
         /\ \E m : /\ t.net = s.net \union {m} /\ m.what = what /\ m.then = then /\ m.out = None
                   /\ m.token = s.cookie
  <1> DEFINE m == SesNew(s, what, arg, then)
  <1>1. SesHas(t) /\ SesGrows(t, s) /\ SesLooks(t, s) /\ t.net = s.net \union {m}
    BY SesSend
  <1>2. SesAsk(m, s) /\ m.what = what /\ m.then = then /\ m.out = None /\ m.token = s.cookie
    BY SesNewIs
  <1> HIDE DEF m
  <1> QED
    BY <1>1, <1>2 DEF SesReacts

LEMMA SesLeaves ==
  ASSUME NEW s, SesHas(s), NEW t, t = Session!doLogout(s)
  PROVE  /\ SesReacts(t, s)
         /\ \E m : t.net = s.net \union {m} /\ m.what = "end"
         /\ ~t.authed /\ ~t.logout /\ t.authMode = s.authMode
         /\ s.authMode # "sso" => t.shown = (s.shown \ {"admin"}) \union {"login"} /\ (t.card <=> s.card)
         /\ s.authMode = "sso" => t.shown = {"sso"} /\ ~t.card
  <1> DEFINE m == SesNew(s, "end", None, "end")
  <1>1. /\ SesHas(t) /\ SesGrows(t, s) /\ t.net = s.net \union {m}
        /\ ~t.authed /\ ~t.logout /\ t.authMode = s.authMode
        /\ s.authMode # "sso" => t.shown = (s.shown \ {"admin"}) \union {"login"} /\ (t.card <=> s.card)
        /\ s.authMode = "sso" => t.shown = {"sso"} /\ ~t.card
    BY SesLogsOut
  <1>2. SesAsk(m, s) /\ m.what = "end"
    BY SesNewIs DEF SesWhats
  <1> HIDE DEF m
  <1> QED
    BY <1>1, <1>2 DEF SesReacts

LEMMA SesChecks ==
  ASSUME NEW s, SesHas(s), NEW t, t = Session!checkSetup(s)
  PROVE  /\ SesReacts(t, s)
         /\ s.authMode # "sso" /\ ~s.authed =>
              SesLooks(t, s) /\ \E m : t.net = s.net \union {m} /\ m.what = "status" /\ m.out = None
  <1>1. CASE s.authMode = "sso"
    <2> DEFINE u == [s EXCEPT !.shown = @ \ {"login", "setup"}]
    <2>1. SesHas(u) /\ SesGrows(u, s) /\ u.net = s.net
      BY DEF SesHas, SesFields, SesGrows
    <2>2. t = u
      BY <1>1 DEF Session!checkSetup, Session!isSsoMode
    <2> HIDE DEF u
    <2> QED
      BY <1>1, <2>1, <2>2, SesStill
  <1>2. CASE s.authMode # "sso" /\ s.authed
    BY <1>2, SesSame DEF Session!checkSetup, Session!isSsoMode, Session!isAuthed
  <1>3. CASE s.authMode # "sso" /\ ~s.authed
    <2>1. t = Session!Send(s, "status", None, "status")
      BY <1>3 DEF Session!checkSetup, Session!isSsoMode, Session!isAuthed
    <2> QED
      BY <1>3, <2>1, SesSends DEF SesWhats
  <1> QED
    BY <1>1, <1>2, <1>3

LEMMA SesBoots ==
  ASSUME NEW s, SesHas(s), NEW t, t = Session!bootWithoutTicket(s)
  PROVE  /\ SesReacts(t, s) /\ (t.authed <=> s.authed) /\ (t.logout <=> s.logout) /\ t.authMode = s.authMode
         /\ t.shown = s.shown \ {"sso"} /\ (t.card <=> s.card)
         /\ \E m : t.net = s.net \union {m} /\ m.what = "probe" /\ m.out = None /\ m.token = s.cookie
  <1> DEFINE u == [s EXCEPT !.shown = @ \ {"sso"}]
  <1>1. SesHas(u) /\ SesGrows(u, s) /\ u.net = s.net /\ (u.authed <=> s.authed) /\ (u.logout <=> s.logout)
        /\ u.authMode = s.authMode /\ u.shown = s.shown \ {"sso"} /\ (u.card <=> s.card) /\ u.cookie = s.cookie
    BY DEF SesHas, SesFields, SesGrows
  <1>2. t = Session!Send(u, "probe", None, "boot")
    BY DEF Session!bootWithoutTicket
  <1> HIDE DEF u
  <1>3. /\ SesReacts(t, u) /\ SesLooks(t, u)
        /\ \E m : t.net = u.net \union {m} /\ m.what = "probe" /\ m.out = None /\ m.token = u.cookie
    BY <1>1, <1>2, SesSends DEF SesWhats
  <1>4. SesReacts(t, s)
    BY <1>1, <1>3, SesStill, SesReactsOn
  <1> QED
    BY <1>1, <1>3, <1>4 DEF SesLooks

LEMMA SesLoads ==
  ASSUME NEW s, SesHas(s), NEW t, t = Session!refreshAll(s)
  PROVE  SesReacts(t, s) /\ SesLooks(t, s) /\ \E m : t.net = s.net \union {m} /\ m.what = "data" /\ m.out = None
  BY SesSends DEF Session!refreshAll, SesWhats

LEMMA SesLists ==
  ASSUME NEW s, SesHas(s), NEW t, t = Session!loadAccounts(s)
  PROVE  SesReacts(t, s) /\ SesLooks(t, s) /\ \E m : t.net = s.net \union {m} /\ m.what = "accounts" /\ m.out = None
  BY SesSends DEF Session!loadAccounts, SesWhats

LEMMA SesResolves ==
  ASSUME NEW s, SesHas(s), NEW then \in {"gate", "guest", "ticket", "logout"}, NEW mode,
         NEW t, t = Session!Resolved(s, then, mode)
  PROVE  SesReacts(t, s)
  <1>1. CASE then = "gate"
    BY <1>1, SesResolved, SesGating, SesStill, SesSame
  <1>2. CASE then = "logout"
    <2>1. t = Session!doLogout(s)
      BY <1>2, SesResolved
    <2> QED
      BY <2>1, SesLeaves
  <1>3. CASE then = "guest" /\ mode = "sso"
    <2>1. t = Session!showSsoNotice(s, SesNoMsg)
      BY <1>3, SesResolved
    <2>2. SesHas(t) /\ SesGrows(t, s) /\ t.net = s.net
      BY <2>1, SesNotice
    <2> QED
      BY <2>2, SesStill
  <1>4. CASE then = "guest" /\ mode # "sso"
    <2> DEFINE u == Session!setLoggedIn(s, FALSE)
    <2>1. SesReacts(u, s) /\ SesHas(u)
      BY SesLoggedOut, SesStill
    <2>2. t = Session!checkSetup(u)
      BY <1>4, SesResolved
    <2> HIDE DEF u
    <2> QED
      BY <2>1, <2>2, SesChecks, SesReactsOn
  <1>5. CASE then = "ticket" /\ mode = "sso"
    <2> DEFINE msg == "redeem failed"
    <2>1. t = Session!showSsoNotice(s, msg)
      BY <1>5, SesResolved
    <2> HIDE DEF msg
    <2>2. SesHas(t) /\ SesGrows(t, s) /\ t.net = s.net
      BY <2>1, SesNotice
    <2> QED
      BY <2>2, SesStill
  <1>6. CASE then = "ticket" /\ mode # "sso"
    <2> DEFINE u == Session!bootWithoutTicket(s)
    <2>1. SesReacts(u, s) /\ SesHas(u)
      BY SesBoots DEF SesReacts
    <2>2. t = Session!showLoginError(u, "redeem failed")
      BY <1>6, SesResolved
    <2> HIDE DEF u
    <2> QED
      BY <2>1, <2>2, SesError, SesStill, SesReactsOn
  <1> QED
    BY <1>1, <1>2, <1>3, <1>4, <1>5, <1>6

LEMMA SesWants ==
  ASSUME NEW s, SesHas(s), NEW then \in {"gate", "guest", "ticket", "logout"},
         NEW t, t = Session!getAuthMode(s, then)
  PROVE  /\ SesReacts(t, s)
         /\ s.authMode = None => SesLooks(t, s) /\ \E m : /\ t.net = s.net \union {m} /\ m.what = "mode"
                                                          /\ m.then = then /\ m.out = None
  <1>1. CASE s.authMode = None
    BY <1>1, SesAsks, SesSends DEF SesWhats
  <1>2. CASE s.authMode # None
    BY <1>2, SesAsks, SesResolves
  <1> QED
    BY <1>1, <1>2

LEMMA SesRefuses ==
  ASSUME NEW s, SesHas(s), NEW m, NEW t, t = Session!Refused(s, m)
  PROVE  SesReacts(t, s) /\ (m.out # "denied" => t = s) /\ (m.out = "denied" => t = Session!logout(s))
  BY SesWants, SesSame DEF Session!Refused, Session!logout

LEMMA SesGotMode ==
  ASSUME NEW s, SesHas(s), NEW m, SesAsked(m), m.what = "mode", NEW t, t = Session!GotAuthMode(s, m)
  PROVE  SesReacts(t, s)
  <1>0. m.then \in {"gate", "guest", "ticket", "logout"}
    BY DEF SesAsked
  <1>1. CASE m.out = "ok"
    <2> DEFINE u == [s EXCEPT !.authMode = m.data.mode, !.cloudUrl = m.data.cloud]
    <2>0. SesHas(u) /\ SesGrows(u, s) /\ u.net = s.net
      BY DEF SesHas, SesFields, SesGrows
    <2>2. t = Session!Resolved(u, m.then, m.data.mode)
      BY <1>1 DEF Session!GotAuthMode
    <2> HIDE DEF u
    <2>1. SesReacts(u, s)
      BY <2>0, SesStill
    <2> QED
      BY <1>0, <2>0, <2>1, <2>2, SesResolves, SesReactsOn
  <1>2. CASE m.out # "ok"
    BY <1>0, <1>2, SesResolves DEF Session!GotAuthMode
  <1> QED
    BY <1>1, <1>2

(* Logins: the cookie is the browser's, the shell is shown. *)
LEMMA SesEnters ==
  ASSUME NEW s, SesHas(s), NEW t, t = Session!refreshAll(Session!setLoggedIn(s, TRUE))
  PROVE  /\ SesReacts(t, s)
         /\ s.authMode # "sso" =>
              /\ t.authed /\ t.logout /\ t.authMode = s.authMode /\ (t.card <=> s.card)
              /\ t.shown = (s.shown \ {"login", "setup"}) \union {"admin"}
              /\ \E m : t.net = s.net \union {m} /\ m.what = "data"
  <1> DEFINE u == Session!setLoggedIn(s, TRUE)
  <1>1. /\ SesHas(u) /\ SesGrows(u, s) /\ u.net = s.net
        /\ s.authMode # "sso" => /\ u.authed /\ u.logout /\ u.authMode = s.authMode /\ (u.card <=> s.card)
                                 /\ u.shown = (s.shown \ {"login", "setup"}) \union {"admin"}
    BY SesLoggedIn
  <1>2. t = Session!refreshAll(u)
    OBVIOUS
  <1> HIDE DEF u
  <1>3. SesReacts(t, u) /\ SesLooks(t, u) /\ \E m : t.net = u.net \union {m} /\ m.what = "data" /\ m.out = None
    BY <1>1, <1>2, SesLoads
  <1>4. SesReacts(t, s)
    BY <1>1, <1>3, SesStill, SesReactsOn
  <1> QED
    BY <1>1, <1>3, <1>4 DEF SesLooks

LEMMA SesLogsIn ==
  ASSUME NEW s, SesHas(s), NEW m, NEW t, t = Session!LoggedIn(s, m)
  PROVE  /\ SesReacts(t, s)
         /\ m.out # "ok" => /\ t.net = s.net /\ ~t.authed /\ t.authMode = s.authMode /\ t.shown = s.shown
                            /\ (t.card <=> s.card) /\ (t.logout <=> s.logout)
         /\ m.out = "ok" /\ s.authMode # "sso" =>
              /\ t.authed /\ t.logout /\ t.authMode = s.authMode /\ (t.card <=> s.card)
              /\ t.shown = (s.shown \ {"login", "setup"}) \union {"admin"}
              /\ \E n : t.net = s.net \union {n} /\ n.what = "data"
  <1> DEFINE u == Session!clearToken(s)
  <1>1. /\ SesHas(u) /\ SesGrows(u, s) /\ u.net = s.net /\ ~u.authed
        /\ u.authMode = s.authMode /\ u.shown = s.shown /\ (u.card <=> s.card) /\ (u.logout <=> s.logout)
    BY SesCleared
  <1>2. SesReacts(u, s)
    BY <1>1, SesStill
  <1>3. /\ m.out = "ok" => t = Session!refreshAll(Session!setLoggedIn(u, TRUE))
        /\ m.out # "ok" => t = Session!showLoginError(u, "login failed")
    BY DEF Session!LoggedIn
  <1> HIDE DEF u
  <1>4. CASE m.out = "ok"
    <2>0. t = Session!refreshAll(Session!setLoggedIn(u, TRUE))
      BY <1>3, <1>4
    <2>1. /\ SesReacts(t, u)
          /\ u.authMode # "sso" =>
              /\ t.authed /\ t.logout /\ t.authMode = u.authMode /\ (t.card <=> u.card)
              /\ t.shown = (u.shown \ {"login", "setup"}) \union {"admin"}
              /\ \E n : t.net = u.net \union {n} /\ n.what = "data"
      BY <1>1, <2>0, SesEnters
    <2>2. SesReacts(t, s)
      BY <1>2, <2>1, SesReactsOn
    <2> QED
      BY <1>1, <1>4, <2>1, <2>2
  <1>5. CASE m.out # "ok"
    <2> DEFINE msg == "login failed"
    <2>0. t = Session!showLoginError(u, msg)
      BY <1>3, <1>5
    <2> HIDE DEF msg
    <2>1. SesHas(t) /\ SesGrows(t, u) /\ SesLooks(t, u) /\ t.net = u.net
      BY <1>1, <2>0, SesError
    <2>2. SesReacts(t, s)
      BY <1>2, <2>1, SesStill, SesReactsOn
    <2> QED
      BY <1>1, <1>5, <2>1, <2>2 DEF SesLooks
  <1> QED
    BY <1>4, <1>5

LEMMA SesTries ==
  ASSUME NEW s, SesHas(s), NEW who, NEW t, t = Session!login(s, who)
  PROVE  /\ SesReacts(t, s) /\ SesLooks(t, s)
         /\ \E m : t.net = s.net \union {m} /\ m.what = "login" /\ m.out = None
  <1> DEFINE msg == ""
             u == Session!showLoginError(s, msg)
  <1>2. t = Session!Send(u, "login", who, "login")
    BY DEF Session!login
  <1> HIDE DEF msg
  <1>1. SesHas(u) /\ SesGrows(u, s) /\ SesLooks(u, s) /\ u.net = s.net
    BY SesError
  <1> HIDE DEF u
  <1>3. /\ SesReacts(t, u) /\ SesLooks(t, u)
        /\ \E m : t.net = u.net \union {m} /\ m.what = "login" /\ m.then = "login" /\ m.out = None /\ m.token = u.cookie
    BY <1>1, <1>2, SesSends DEF SesWhats
  <1>4. SesReacts(t, s)
    BY <1>1, <1>3, SesStill, SesReactsOn
  <1> QED
    BY <1>1, <1>3, <1>4 DEF SesLooks

LEMMA SesAnswer ==
  ASSUME NEW s, NEW m
  PROVE  /\ m.what = "mode" => Session!Answered(s, m) = Session!GotAuthMode(s, m)
         /\ m.what = "status" => Session!Answered(s, m) = Session!CheckedSetup(Session!Refused(s, m), m)
         /\ m.what = "probe" => Session!Answered(s, m) = Session!Booted(s, m)
         /\ m.what = "redeem" => Session!Answered(s, m) = Session!Redeemed(s, m)
         /\ m.what = "login" => Session!Answered(s, m) = Session!LoggedIn(s, m)
         /\ m.what = "setup" => Session!Answered(s, m) = Session!CreatedSetup(s, m)
         /\ m.what = "data" => Session!Answered(s, m) = Session!Refused(s, m)
         /\ m.what = "accounts" => Session!Answered(s, m) = Session!LoadedAccounts(s, m)
         /\ m.what = "create" => Session!Answered(s, m) = Session!CreatedAccount(s, m)
         /\ m.what = "password" => Session!Answered(s, m) = Session!ChangedPassword(s, m)
         /\ m.what = "remove" => Session!Answered(s, m) = Session!DeletedAccount(s, m)
         /\ m.what \in {"refresh", "end"} => Session!Answered(s, m) = s
  <1>1. ASSUME m.what = "mode" PROVE Session!Answered(s, m) = Session!GotAuthMode(s, m)
    BY <1>1 DEF Session!Answered
  <1>2. ASSUME m.what = "status" PROVE Session!Answered(s, m) = Session!CheckedSetup(Session!Refused(s, m), m)
    BY <1>2 DEF Session!Answered
  <1>3. ASSUME m.what = "probe" PROVE Session!Answered(s, m) = Session!Booted(s, m)
    BY <1>3 DEF Session!Answered
  <1>4. ASSUME m.what = "redeem" PROVE Session!Answered(s, m) = Session!Redeemed(s, m)
    BY <1>4 DEF Session!Answered
  <1>5. ASSUME m.what = "login" PROVE Session!Answered(s, m) = Session!LoggedIn(s, m)
    BY <1>5 DEF Session!Answered
  <1>6. ASSUME m.what = "setup" PROVE Session!Answered(s, m) = Session!CreatedSetup(s, m)
    BY <1>6 DEF Session!Answered
  <1>7. ASSUME m.what = "data" PROVE Session!Answered(s, m) = Session!Refused(s, m)
    BY <1>7 DEF Session!Answered
  <1>8. ASSUME m.what = "accounts" PROVE Session!Answered(s, m) = Session!LoadedAccounts(s, m)
    BY <1>8 DEF Session!Answered
  <1>9. ASSUME m.what = "create" PROVE Session!Answered(s, m) = Session!CreatedAccount(s, m)
    BY <1>9 DEF Session!Answered
  <1>10. ASSUME m.what = "password" PROVE Session!Answered(s, m) = Session!ChangedPassword(s, m)
    BY <1>10 DEF Session!Answered
  <1>11. ASSUME m.what = "remove" PROVE Session!Answered(s, m) = Session!DeletedAccount(s, m)
    BY <1>11 DEF Session!Answered
  <1>12. ASSUME m.what \in {"refresh", "end"} PROVE Session!Answered(s, m) = s
    BY <1>12 DEF Session!Answered
  <1> QED
    BY <1>1, <1>2, <1>3, <1>4, <1>5, <1>6, <1>7, <1>8, <1>9, <1>10, <1>11, <1>12

(* The answers one by one. *)
LEMMA SesGotStatus ==
  ASSUME NEW s, SesHas(s), NEW m, NEW t, t = Session!CheckedSetup(Session!Refused(s, m), m)
  PROVE  /\ SesReacts(t, s)
         /\ m.out # "denied" =>
              /\ t.net = s.net /\ (t.authed <=> s.authed) /\ t.authMode = s.authMode /\ (t.logout <=> s.logout)
              /\ (t.card <=> s.card)
              /\ \E form \in {"login", "setup"} : t.shown = (s.shown \ {"login", "setup"}) \union {form}
  <1> DEFINE r == Session!Refused(s, m)
             form == IF m.out = "ok" /\ m.data = "needed" THEN "setup" ELSE "login"
  <1>1. SesReacts(r, s) /\ (m.out # "denied" => r = s)
    BY SesRefuses
  <1>2. t = [r EXCEPT !.shown = (@ \ {"login", "setup"}) \union {form}] /\ form \in {"login", "setup"}
    BY DEF Session!CheckedSetup
  <1> HIDE DEF r, form
  <1>3. /\ SesHas(t) /\ SesGrows(t, r) /\ t.net = r.net /\ (t.authed <=> r.authed) /\ t.authMode = r.authMode
        /\ (t.logout <=> r.logout) /\ (t.card <=> r.card) /\ t.shown = (r.shown \ {"login", "setup"}) \union {form}
    BY <1>1, <1>2 DEF SesReacts, SesHas, SesFields, SesGrows
  <1>4. SesReacts(t, s)
    BY <1>1, <1>3, SesStill, SesReactsOn
  <1> QED
    BY <1>1, <1>2, <1>3, <1>4

LEMMA SesBooted ==
  ASSUME NEW s, SesHas(s), NEW m, NEW t, t = Session!Booted(s, m)
  PROVE  SesReacts(t, s)
  <1>1. CASE m.out = "ok"
    <2> DEFINE u == Session!refreshAll(Session!setLoggedIn(s, TRUE))
    <2>1. SesReacts(u, s)
      BY SesEnters
    <2>2. t = Session!getAuthMode(u, "gate")
      BY <1>1 DEF Session!Booted, Session!bootAuthed
    <2> HIDE DEF u
    <2> QED
      BY <2>1, <2>2, SesWants, SesReactsOn DEF SesReacts
  <1>2. CASE m.out # "ok"
    <2>1. t = Session!getAuthMode(s, "guest")
      BY <1>2 DEF Session!Booted, Session!bootLoggedOut
    <2> QED
      BY <2>1, SesWants
  <1> QED
    BY <1>1, <1>2

LEMMA SesRedeemed ==
  ASSUME NEW s, SesHas(s), NEW m, NEW t, t = Session!Redeemed(s, m)
  PROVE  /\ SesReacts(t, s)
         /\ m.out = "ok" /\ s.authMode # "sso" =>
              /\ t.authed /\ t.logout /\ t.authMode = s.authMode
              /\ t.shown = (s.shown \ {"sso", "login", "setup"}) \union {"admin"}
              /\ \E n : t.net = s.net \union {n} /\ n.what = "data"
  <1>1. CASE m.out = "ok"
    <2> DEFINE c == Session!clearToken(s)
               u == [c EXCEPT !.shown = @ \ {"sso"}]
               v == Session!refreshAll(Session!setLoggedIn(u, TRUE))
    <2>1. SesHas(c) /\ SesGrows(c, s) /\ c.net = s.net /\ c.authMode = s.authMode /\ c.shown = s.shown
      BY SesCleared
    <2>2. t = [v EXCEPT !.ticket = None]
      BY <1>1 DEF Session!Redeemed, Session!stripSsoParam
    <2> HIDE DEF c
    <2>3. SesHas(u) /\ SesGrows(u, c) /\ u.net = c.net /\ u.authMode = c.authMode /\ u.shown = c.shown \ {"sso"}
      BY <2>1 DEF SesHas, SesFields, SesGrows
    <2> HIDE DEF u
    <2>4. /\ SesReacts(v, u)
          /\ u.authMode # "sso" =>
              /\ v.authed /\ v.logout /\ v.authMode = u.authMode /\ (v.card <=> u.card)
              /\ v.shown = (u.shown \ {"login", "setup"}) \union {"admin"}
              /\ \E n : v.net = u.net \union {n} /\ n.what = "data"
      BY <2>3, SesEnters
    <2> HIDE DEF v
    <2>5. SesHas(t) /\ SesGrows(t, v) /\ t.net = v.net /\ (t.authed <=> v.authed) /\ (t.logout <=> v.logout)
          /\ t.authMode = v.authMode /\ t.shown = v.shown
      BY <2>2, <2>4 DEF SesReacts, SesHas, SesFields, SesGrows
    <2>6. SesReacts(t, s)
      BY <2>1, <2>3, <2>4, <2>5, SesStill, SesReactsOn
    <2> QED
      BY <1>1, <2>1, <2>3, <2>4, <2>5, <2>6
  <1>2. CASE m.out # "ok"
    BY <1>2, SesWants DEF Session!Redeemed
  <1> QED
    BY <1>1, <1>2

LEMMA SesCreated ==
  ASSUME NEW s, SesHas(s), NEW m, NEW t, t = Session!CreatedSetup(s, m)
  PROVE  /\ SesReacts(t, s)
         /\ m.out = "ok" => SesLooks(t, s) /\ \E n : t.net = s.net \union {n} /\ n.what = "login" /\ n.out = None
         /\ m.out # "ok" => t = Session!Refused(s, m)
  BY SesTries, SesRefuses DEF Session!CreatedSetup

(* A list was shown on the page r. *)
SesShows(t, r, m) ==
    /\ SesHas(t) /\ SesLooks(t, r) /\ t.net = r.net /\ t.server = r.server /\ t.cookie = r.cookie
    /\ t.moves = r.moves /\ t.missed = r.missed
    /\ (m.out = "ok" => t.listed = m.data) /\ (m.out # "ok" => t.listed = None)

LEMMA SesAccounts ==
  ASSUME NEW s, SesHas(s), NEW m, NEW t, t = Session!LoadedAccounts(s, m)
  PROVE  \E r : r = Session!Refused(s, m) /\ SesReacts(r, s) /\ SesShows(t, r, m)
  <1> DEFINE r == Session!Refused(s, m)
  <1>0. r = Session!Refused(s, m)
    OBVIOUS
  <1>1. SesReacts(r, s)
    BY SesRefuses
  <1>2. t = [r EXCEPT !.listed = IF m.out = "ok" THEN m.data ELSE None]
    BY DEF Session!LoadedAccounts, Session!renderAccounts
  <1> HIDE DEF r
  <1>4. SesShows(t, r, m)
    BY <1>1, <1>2 DEF SesReacts, SesHas, SesFields, SesLooks, SesShows
  <1> QED
    BY <1>0, <1>1, <1>4

(* After a change of the accounts they are listed again, unless refused. *)
LEMMA SesChanged ==
  ASSUME NEW s, SesHas(s), NEW m,
         NEW t, t \in {Session!CreatedAccount(s, m), Session!ChangedPassword(s, m), Session!DeletedAccount(s, m)},
         NEW r, r = Session!Refused(s, m)
  PROVE  /\ SesReacts(t, s) /\ SesReacts(r, s) /\ SesReacts(t, r) /\ SesLooks(t, r)
         /\ t.net = r.net \/ \E n : t.net = r.net \union {n} /\ n.what = "accounts"
         /\ m.out = "ok" => \E n \in t.net : n.what = "accounts"
  <1>1. SesReacts(r, s) /\ SesHas(r) /\ (m.out # "denied" => r = s)
    BY SesRefuses DEF SesReacts
  <1>2. \/ t = Session!loadAccounts(r)
        \/ m.out = "ok" /\ t = Session!loadAccounts(s)
        \/ m.out # "ok" /\ t = r
    BY DEF Session!CreatedAccount, Session!ChangedPassword, Session!DeletedAccount
  <1>4. \/ t = Session!loadAccounts(r)
        \/ m.out # "ok" /\ t = r
    BY <1>1, <1>2
  <1>5. CASE t = Session!loadAccounts(r)
    <2>1. SesReacts(t, r) /\ SesLooks(t, r) /\ \E n : t.net = r.net \union {n} /\ n.what = "accounts" /\ n.out = None
      BY <1>1, <1>5, SesLists
    <2>2. SesReacts(t, s)
      BY <1>1, <2>1, SesReactsOn
    <2> QED
      BY <1>1, <2>1, <2>2
  <1>6. CASE m.out # "ok" /\ t = r
    BY <1>1, <1>6, SesSame DEF SesLooks
  <1> QED
    BY <1>4, <1>5, <1>6

LEMMA SesNone ==
    /\ None \notin {"ok", "denied", "sso"} /\ None \notin Modes /\ None \notin SesToken
  BY PanelsAssumption DEF SesToken

LEMMA SesShapes ==
  ASSUME NEW s, SesShape(s), NEW t, SesReacts(t, s)
  PROVE  SesShape(t) /\ t.missed = s.missed
  BY DEF SesShape, SesReacts, SesGrows, SesAsk

LEMMA SesAskedMsg ==
  ASSUME NEW s, NEW m, SesAsk(m, s), NEW server, NEW n, SesHeld(s.cookie, n)
  PROVE  SesMsg(m, server, n)
  BY SesNone DEF SesAsk, SesMsg

LEMMA SesCores ==
  ASSUME NEW s, SesCore(s), NEW t, SesReacts(t, s)
  PROVE  SesCore(t)
  <1>1. /\ t.server = s.server /\ t.cookie = s.cookie /\ t.moves = s.moves /\ t.listed = s.listed
        /\ \A m \in t.net : m \in s.net \/ SesAsk(m, s)
    BY DEF SesReacts, SesGrows
  <1>2. ASSUME NEW m \in t.net PROVE SesMsg(m, t.server, t.moves + 1)
    BY <1>1, SesAskedMsg DEF SesCore
  <1> QED
    BY <1>1, <1>2 DEF SesCore

LEMMA SesAnswersShape ==
  ASSUME NEW s, SesShape(s), NEW m, SesAsked(m), NEW t, t = Session!Answered(s, m)
  PROVE  SesShape(t) /\ t.missed = s.missed
  <1>0. SesHas(s)
    BY DEF SesShape
  <1>1. CASE m.what = "accounts"
    <2>1. t = Session!LoadedAccounts(s, m)
      BY <1>1, SesAnswer
    <2>2. PICK r : SesReacts(r, s) /\ SesShows(t, r, m)
      BY <1>0, <2>1, SesAccounts
    <2>3. SesShape(r) /\ r.missed = s.missed
      BY <2>2, SesShapes
    <2> QED
      BY <2>2, <2>3 DEF SesShape, SesShows
  <1>2. CASE m.what # "accounts"
    <2>1. SesReacts(t, s)
      <3>1. CASE m.what = "mode"
        BY <1>0, <3>1, SesAnswer, SesGotMode
      <3>2. CASE m.what = "status"
        BY <1>0, <3>2, SesAnswer, SesGotStatus
      <3>3. CASE m.what = "probe"
        BY <1>0, <3>3, SesAnswer, SesBooted
      <3>4. CASE m.what = "redeem"
        BY <1>0, <3>4, SesAnswer, SesRedeemed
      <3>5. CASE m.what = "login"
        BY <1>0, <3>5, SesAnswer, SesLogsIn
      <3>6. CASE m.what = "setup"
        BY <1>0, <3>6, SesAnswer, SesCreated
      <3>7. CASE m.what = "data"
        BY <1>0, <3>7, SesAnswer, SesRefuses
      <3>8. CASE m.what \in {"create", "password", "remove"}
        <4>1. t \in {Session!CreatedAccount(s, m), Session!ChangedPassword(s, m), Session!DeletedAccount(s, m)}
          BY <3>8, SesAnswer
        <4> QED
          BY <1>0, <4>1, SesChanged
      <3>9. CASE m.what \in {"refresh", "end"}
        BY <1>0, <3>9, SesAnswer, SesSame
      <3> QED
        BY <1>2, <3>1, <3>2, <3>3, <3>4, <3>5, <3>6, <3>7, <3>8, <3>9 DEF SesAsked, SesWhats
    <2> QED
      BY <2>1, SesShapes
  <1> QED
    BY <1>1, <1>2

-----------------------------------------------------------------------------
(* An answer is taken: its request goes, and its cookie is kept. *)

SesTaken(u, s, m) ==
    /\ SesHas(u)
    /\ u.server = s.server /\ u.moves = s.moves /\ u.missed = s.missed /\ u.listed = s.listed
    /\ (u.authed <=> s.authed) /\ u.authMode = s.authMode /\ u.shown = s.shown
    /\ (u.card <=> s.card) /\ (u.logout <=> s.logout)
    /\ u.net = s.net \ {m}
    /\ u.cookie = CASE m.what \in {"login", "redeem", "refresh"} /\ m.out = "ok" -> m.data
                    [] m.what = "end" /\ m.out = "ok" -> None
                    [] OTHER -> s.cookie

LEMMA SesTakes ==
  ASSUME NEW s, SesHas(s), NEW m, NEW u, u = Session!Kept([s EXCEPT !.net = @ \ {m}], m)
  PROVE  SesTaken(u, s, m)
  <1> DEFINE v == [s EXCEPT !.net = @ \ {m}]
             k == CASE m.what \in {"login", "redeem", "refresh"} /\ m.out = "ok" -> m.data
                    [] m.what = "end" /\ m.out = "ok" -> None
                    [] OTHER -> s.cookie
  <1>1. /\ SesHas(v) /\ v.server = s.server /\ v.moves = s.moves /\ v.missed = s.missed /\ v.listed = s.listed
        /\ (v.authed <=> s.authed) /\ v.authMode = s.authMode /\ v.shown = s.shown
        /\ (v.card <=> s.card) /\ (v.logout <=> s.logout) /\ v.net = s.net \ {m} /\ v.cookie = s.cookie
    BY DEF SesHas, SesFields
  <1>2. u = Session!Kept(v, m)
    OBVIOUS
  <1> HIDE DEF v
  <1>3. CASE m.what \in {"login", "redeem", "refresh"} /\ m.out = "ok"
    <2>1. u = [v EXCEPT !.cookie = m.data]
      BY <1>2, <1>3 DEF Session!Kept
    <2>2. k = m.data
      BY <1>3
    <2> HIDE DEF k
    <2>3. u.cookie = k
      BY <1>1, <2>1, <2>2 DEF SesHas, SesFields
    <2>4. SesTaken(u, s, m)
      BY <1>1, <2>1, <2>3 DEF SesTaken, SesHas, SesFields, k
    <2> QED
      BY <2>4
  <1>4. CASE m.what = "end" /\ m.out = "ok"
    <2>1. u = [v EXCEPT !.cookie = None]
      BY <1>2, <1>4 DEF Session!Kept
    <2>2. k = None
      BY <1>4
    <2> HIDE DEF k
    <2>3. u.cookie = k
      BY <1>1, <2>1, <2>2 DEF SesHas, SesFields
    <2>4. SesTaken(u, s, m)
      BY <1>1, <2>1, <2>3 DEF SesTaken, SesHas, SesFields, k
    <2> QED
      BY <2>4
  <1>5. CASE ~(m.what \in {"login", "redeem", "refresh"} /\ m.out = "ok") /\ ~(m.what = "end" /\ m.out = "ok")
    <2>1. u = v
      BY <1>2, <1>5 DEF Session!Kept
    <2>2. k = s.cookie
      BY <1>5
    <2> HIDE DEF k
    <2> QED
      BY <1>1, <2>1, <2>2 DEF SesTaken, k
  <1> QED
    BY <1>3, <1>4, <1>5

LEMMA SesTakenCore ==
  ASSUME NEW s, SesCore(s), NEW m \in s.net, NEW u, SesTaken(u, s, m)
  PROVE  SesCore(u)
  <1>1. SesMsg(m, s.server, s.moves + 1)
    BY DEF SesCore
  <1>2. SesHeld(u.cookie, s.moves + 1)
    <2>1. CASE m.what \in {"login", "redeem", "refresh"} /\ m.out = "ok"
      BY <1>1, <2>1 DEF SesTaken, SesMsg, SesHeld
    <2>2. CASE ~(m.what \in {"login", "redeem", "refresh"} /\ m.out = "ok") /\ m.what = "end" /\ m.out = "ok"
      BY <2>2 DEF SesTaken, SesHeld
    <2>3. CASE ~(m.what \in {"login", "redeem", "refresh"} /\ m.out = "ok") /\ ~(m.what = "end" /\ m.out = "ok")
      BY <2>3 DEF SesTaken, SesCore
    <2> QED
      BY <2>1, <2>2, <2>3
  <1> QED
    BY <1>2 DEF SesTaken, SesCore

(* Loads and gates run while signed in, and after. *)
SesRuns(s) ==
    \/ SesInLook(s) /\ \A m \in s.net : SesInKind(m)
    \/ SesOut(s)

LEMMA SesTakenRuns ==
  ASSUME NEW s, SesCore(s), SesIn(s) \/ SesOut(s), NEW m \in s.net, m.out # None, NEW u, SesTaken(u, s, m)
  PROVE  SesRuns(u)
  <1>1. SesMsg(m, s.server, s.moves + 1)
    BY DEF SesCore
  <1>2. CASE SesInLook(s) /\ \A n \in s.net : SesInKind(n)
    <2>1. SesInKind(m)
      BY <1>2
    <2>2. u.cookie = s.cookie
      BY <2>1 DEF SesInKind, SesTaken
    <2> QED
      BY <1>2, <2>2 DEF SesTaken, SesInLook, SesRuns
  <1>3. CASE SesInLook(s) /\ \E n : s.net = {n} /\ n.what \in {"create", "password", "remove", "refresh"}
    <2>1. s.net = {m} /\ m.what \in {"create", "password", "remove", "refresh"}
      BY <1>3
    <2>2. u.cookie # None
      <3>1. CASE m.what = "refresh" /\ m.out = "ok"
        BY <1>1, <3>1, SesNone DEF SesTaken, SesMsg
      <3>2. CASE ~(m.what = "refresh" /\ m.out = "ok")
        BY <1>3, <2>1, <3>2 DEF SesTaken, SesInLook
      <3> QED
        BY <3>1, <3>2
    <2>3. u.net = {}
      BY <2>1 DEF SesTaken
    <2> QED
      BY <1>3, <2>2, <2>3 DEF SesTaken, SesInLook, SesRuns
  <1>4. CASE SesOut(s) /\ m.what = "end"
    <2>1. m.out = "ok"
      BY <1>1, <1>4 DEF SesMsg
    <2>2. u.cookie = None
      BY <1>4, <2>1 DEF SesTaken
    <2>3. SesOutLook(u)
      BY <1>4 DEF SesTaken, SesOut, SesOutLook
    <2> QED
      BY <1>4, <2>2, <2>3 DEF SesTaken, SesOut, SesRuns
  <1>5. CASE SesOut(s) /\ m.what # "end"
    <2>1. SesInKind(m)
      BY <1>5 DEF SesOut
    <2>2. u.cookie = s.cookie
      BY <2>1 DEF SesInKind, SesTaken
    <2>3. SesOutLook(u)
      BY <1>5 DEF SesTaken, SesOut, SesOutLook
    <2>4. u.net = s.net \ {m}
      BY DEF SesTaken
    <2>5. u.authMode = s.authMode
      BY DEF SesTaken
    <2> QED
      BY <1>5, <2>2, <2>3, <2>4, <2>5 DEF SesOut, SesRuns
  <1> QED
    BY <1>2, <1>3, <1>4, <1>5 DEF SesIn

(* The same page with one more request of the kind. *)
LEMMA SesRunsOn ==
  ASSUME NEW s, SesRuns(s), NEW t, SesLooks(t, s), t.server = s.server, t.cookie = s.cookie,
         NEW n, t.net = s.net \/ (t.net = s.net \union {n} /\ SesInKind(n))
  PROVE  SesRuns(t)
  <1>1. CASE SesInLook(s) /\ \A m \in s.net : SesInKind(m)
    BY <1>1 DEF SesLooks, SesInLook, SesRuns
  <1>2. CASE SesOut(s)
    <2>1. SesOutLook(t)
      BY <1>2 DEF SesLooks, SesOut, SesOutLook
    <2>2. \A m \in t.net : SesInKind(m) \/ m.what = "end"
      BY <1>2 DEF SesOut
    <2>3. t.authMode = "sso" \/ t.cookie = None \/ \E m \in t.net : m.what = "end"
      BY <1>2 DEF SesOut, SesLooks
    <2> QED
      BY <2>1, <2>2, <2>3 DEF SesOut, SesRuns
  <1> QED
    BY <1>1, <1>2 DEF SesRuns

(* Signing out ends in the surface of a guest. *)
LEMMA SesEnds ==
  ASSUME NEW s, SesHas(s), s.authMode = s.server.mode,
         s.authMode # "sso" => s.shown = {"admin"} \/ SesForm(s.shown),
         \A m \in s.net : SesInKind(m) \/ m.what = "end",
         NEW t, t = Session!doLogout(s)
  PROVE  SesOut(t)
  <1>1. /\ SesReacts(t, s)
        /\ \E m : t.net = s.net \union {m} /\ m.what = "end"
        /\ ~t.authed /\ ~t.logout /\ t.authMode = s.authMode
        /\ s.authMode # "sso" => t.shown = (s.shown \ {"admin"}) \union {"login"} /\ (t.card <=> s.card)
        /\ s.authMode = "sso" => t.shown = {"sso"} /\ ~t.card
    BY SesLeaves
  <1>2. t.server = s.server
    BY <1>1 DEF SesReacts, SesGrows
  <1>3. s.authMode # "sso" => SesForm(t.shown)
    <2>1. CASE s.shown = {"admin"} /\ s.authMode # "sso"
      <3>1. t.shown = {"login"}
        BY <1>1, <2>1
      <3> QED
        BY <3>1 DEF SesForm
    <2>2. CASE SesForm(s.shown) /\ s.authMode # "sso"
      <3>1. t.shown = s.shown
        BY <1>1, <2>2 DEF SesForm
      <3> QED
        BY <2>2, <3>1
    <2> QED
      BY <2>1, <2>2
  <1>4. SesOutLook(t)
    BY <1>1, <1>2, <1>3 DEF SesOutLook
  <1> QED
    BY <1>1, <1>4 DEF SesOut

LEMMA SesRunsEnd ==
  ASSUME NEW s, SesHas(s), SesCore(s), SesRuns(s), NEW t, t = Session!logout(s)
  PROVE  SesRuns(t)
  <1>0. s.server.mode # None
    BY SesNone DEF SesCore, SesServer
  <1>1. CASE s.authMode = None
    <2>1. SesReacts(t, s) /\ SesLooks(t, s) /\ \E m : /\ t.net = s.net \union {m} /\ m.what = "mode"
                                                      /\ m.then = "logout" /\ m.out = None
      BY <1>1, SesWants DEF Session!logout
    <2>2. PICK n : t.net = s.net \union {n} /\ SesInKind(n)
      BY <2>1 DEF SesInKind
    <2>3. t.server = s.server /\ t.cookie = s.cookie
      BY <2>1 DEF SesReacts, SesGrows
    <2> QED
      BY <2>1, <2>2, <2>3, SesRunsOn
  <1>2. CASE s.authMode # None
    <2>1. t = Session!doLogout(s)
      <3>1. t = Session!Resolved(s, "logout", s.authMode)
        BY <1>2, SesAsks DEF Session!logout
      <3> QED
        BY <3>1, SesResolved
    <2>2. s.authMode = s.server.mode /\ (s.authMode # "sso" => s.shown = {"admin"} \/ SesForm(s.shown))
      BY <1>2 DEF SesRuns, SesInLook, SesOut, SesOutLook
    <2>3. \A m \in s.net : SesInKind(m) \/ m.what = "end"
      BY DEF SesRuns, SesOut
    <2> QED
      BY <2>1, <2>2, <2>3, SesEnds DEF SesRuns
  <1> QED
    BY <1>1, <1>2

LEMMA SesRunsRefused ==
  ASSUME NEW s, SesHas(s), SesCore(s), SesRuns(s), NEW m, NEW t, t = Session!Refused(s, m)
  PROVE  SesRuns(t)
  BY SesRefuses, SesRunsEnd

(* The mode is known now. *)
LEMMA SesRunsMode ==
  ASSUME NEW s, SesHas(s), SesRuns(s), NEW m, m.what = "mode", SesInKind(m), m.out = "ok",
         m.data.mode = s.server.mode, NEW t, t = Session!GotAuthMode(s, m)
  PROVE  SesRuns(t)
  <1> DEFINE mode == m.data.mode
  <1>v. PICK v : v = [s EXCEPT !.authMode = mode, !.cloudUrl = m.data.cloud]
    OBVIOUS
  <1>1. t = Session!Resolved(v, m.then, mode) /\ m.then \in {"gate", "logout"}
    BY <1>v DEF Session!GotAuthMode, SesInKind
  <1>2. /\ SesHas(v) /\ SesGrows(v, s) /\ v.net = s.net /\ (v.authed <=> s.authed) /\ v.authMode = mode
        /\ v.shown = s.shown /\ (v.card <=> s.card) /\ (v.logout <=> s.logout)
    BY <1>v DEF SesHas, SesFields, SesGrows
  <1>0. mode = s.server.mode
    OBVIOUS
  <1> HIDE DEF mode
  <1>3. v.server = s.server /\ v.cookie = s.cookie
    BY <1>2 DEF SesGrows
  <1>4. CASE m.then = "logout"
    <2>1. t = Session!doLogout(v)
      BY <1>1, <1>4, SesResolved
    <2>2. v.authMode = v.server.mode /\ (v.authMode # "sso" => v.shown = {"admin"} \/ SesForm(v.shown))
      BY <1>0, <1>2, <1>3 DEF SesRuns, SesInLook, SesOut, SesOutLook
    <2>3. \A n \in v.net : SesInKind(n) \/ n.what = "end"
      BY <1>2 DEF SesRuns, SesOut
    <2> QED
      BY <1>2, <2>1, <2>2, <2>3, SesEnds DEF SesRuns
  <1>5. CASE m.then = "gate" /\ mode = "sso"
    <2>1. t = Session!applySsoUiGating(v)
      BY <1>1, <1>5, SesResolved
    <2>2. /\ SesHas(t) /\ SesGrows(t, v) /\ t.net = v.net
          /\ (t.authed <=> v.authed) /\ t.authMode = v.authMode /\ (t.logout <=> v.logout)
          /\ t.shown = v.shown \ {"login", "setup"} /\ ~t.card
      BY <1>2, <1>5, <2>1, SesGating
    <2>3. t.server = v.server /\ t.cookie = v.cookie
      BY <2>2 DEF SesGrows
    <2>4. CASE SesInLook(s) /\ \A n \in s.net : SesInKind(n)
      <3>1. t.shown = {"admin"}
        BY <1>2, <2>2, <2>4 DEF SesInLook
      <3> QED
        BY <1>0, <1>2, <1>3, <2>2, <2>3, <2>4, <3>1 DEF SesInLook, SesRuns
    <2>5. CASE SesOut(s)
      <3>1. s.shown = {"sso"}
        BY <1>0, <1>5, <2>5 DEF SesOut, SesOutLook
      <3>2. t.shown = {"sso"}
        BY <1>2, <2>2, <3>1
      <3>3. SesOutLook(t) /\ t.authMode = "sso"
        BY <1>0, <1>2, <1>3, <1>5, <2>2, <2>3, <2>5, <3>2 DEF SesOut, SesOutLook
      <3>4. \A n \in t.net : SesInKind(n) \/ n.what = "end"
        BY <1>2, <2>2, <2>5 DEF SesOut
      <3> QED
        BY <3>3, <3>4 DEF SesOut, SesRuns
    <2> QED
      BY <2>4, <2>5 DEF SesRuns
  <1>6. CASE m.then = "gate" /\ mode # "sso"
    <2>1. t = v
      BY <1>1, <1>6, SesResolved
    <2>4. CASE SesInLook(s) /\ \A n \in s.net : SesInKind(n)
      BY <1>0, <1>2, <1>3, <1>6, <2>1, <2>4 DEF SesInLook, SesRuns
    <2>5. CASE SesOut(s)
      <3>1. SesLooks(v, s)
        BY <1>0, <1>2, <2>5 DEF SesOut, SesOutLook, SesLooks
      <3> QED
        BY <1>2, <1>3, <2>1, <3>1, SesRunsOn
    <2> QED
      BY <2>4, <2>5 DEF SesRuns
  <1> QED
    BY <1>1, <1>4, <1>5, <1>6

(* What is listed stays right, or stays about to be replaced. *)
LEMMA SesListedOn ==
  ASSUME NEW s, SesListed(s), NEW m \in s.net, NEW u, SesTaken(u, s, m), NEW t, SesReacts(t, u),
         m.what # "accounts",
         m.what \in {"create", "remove"} /\ m.out = "ok" => \E n \in t.net : n.what = "accounts"
  PROVE  SesListed(t)
  <1>1. t.listed = s.listed /\ t.server = s.server /\ s.net \ {m} \subseteq t.net
    BY DEF SesReacts, SesGrows, SesTaken
  <1>2. CASE \E n \in s.net : n.what = "accounts" \/ (n.what \in {"create", "remove"} /\ n.out = "ok")
    BY <1>1, <1>2 DEF SesListed
  <1>3. CASE s.listed = None \/ s.listed = DOMAIN s.server.accounts
    BY <1>1, <1>3 DEF SesListed
  <1> QED
    BY <1>2, <1>3 DEF SesListed

LEMMA SesTakenReacts ==
  ASSUME NEW s, SesTrue(s), NEW m \in s.net, NEW u, SesTaken(u, s, m), NEW t, SesReacts(t, u),
         m.what \notin {"accounts", "create", "remove"}
  PROVE  SesCore(t) /\ SesListed(t)
  BY SesTakenCore, SesCores, SesListedOn DEF SesTrue

(* The answer of a page that is signed in or was. *)
LEMMA SesRunsAnswer ==
  ASSUME NEW s, SesShape(s), SesTrue(s), SesIn(s) \/ SesOut(s), NEW m \in s.net, m.out # None,
         NEW u, SesTaken(u, s, m), NEW t, t = Session!Answered(u, m)
  PROVE  SesTrue(t)
  <1>0. SesHas(u) /\ SesCore(u) /\ SesRuns(u)
    BY SesTakenCore, SesTakenRuns DEF SesTrue, SesTaken
  <1>1. SesMsg(m, s.server, s.moves + 1) /\ u.server = s.server
    BY DEF SesTrue, SesCore, SesTaken
  <1>2. \/ m.what \in {"data", "accounts", "create", "password", "remove", "refresh", "end"}
        \/ m.what = "mode" /\ SesInKind(m)
    BY DEF SesIn, SesOut, SesInKind
  <1>3. SesRuns(t) => SesIn(t) \/ SesOut(t)
    BY DEF SesRuns, SesIn
  <1>4. CASE m.what = "data"
    <2>1. t = Session!Refused(u, m)
      BY <1>4, SesAnswer
    <2>2. SesRuns(t)
      BY <1>0, <2>1, SesRunsRefused
    <2>3. SesReacts(t, u)
      BY <1>0, <2>1, SesRefuses
    <2>4. SesCore(t) /\ SesListed(t)
      BY <1>4, <2>3, SesTakenReacts
    <2> QED
      BY <1>3, <2>2, <2>4 DEF SesTrue
  <1>5. CASE m.what \in {"refresh", "end"}
    <2>1. t = u
      BY <1>5, SesAnswer
    <2>2. SesReacts(t, u)
      BY <1>0, <2>1, SesSame
    <2>4. SesCore(t) /\ SesListed(t)
      BY <1>5, <2>2, SesTakenReacts
    <2> QED
      BY <1>0, <1>3, <2>1, <2>4 DEF SesTrue
  <1>6. CASE m.what = "mode" /\ SesInKind(m)
    <2>1. t = Session!GotAuthMode(u, m)
      BY <1>6, SesAnswer
    <2>2. m.out = "ok" /\ m.data.mode = u.server.mode
      BY <1>1, <1>6 DEF SesMsg
    <2>3. SesRuns(t)
      BY <1>0, <1>6, <2>1, <2>2, SesRunsMode
    <2>4. SesReacts(t, u)
      BY <1>0, <1>6, <2>1, SesGotMode DEF SesShape
    <2>5. SesCore(t) /\ SesListed(t)
      BY <1>6, <2>4, SesTakenReacts
    <2> QED
      BY <1>3, <2>3, <2>5 DEF SesTrue
  <1>7. CASE m.what \in {"create", "password", "remove"}
    <2>1. t \in {Session!CreatedAccount(u, m), Session!ChangedPassword(u, m), Session!DeletedAccount(u, m)}
      BY <1>7, SesAnswer
    <2>2. PICK r : r = Session!Refused(u, m)
      OBVIOUS
    <2>3. /\ SesReacts(t, u) /\ SesReacts(r, u) /\ SesReacts(t, r) /\ SesLooks(t, r)
          /\ t.net = r.net \/ \E n : t.net = r.net \union {n} /\ n.what = "accounts"
          /\ m.out = "ok" => \E n \in t.net : n.what = "accounts"
      BY <1>0, <2>1, <2>2, SesChanged
    <2>4. SesRuns(r)
      BY <1>0, <2>2, SesRunsRefused
    <2>5. t.server = r.server /\ t.cookie = r.cookie
      BY <2>3 DEF SesReacts, SesGrows
    <2>6. \E n : t.net = r.net \/ (t.net = r.net \union {n} /\ SesInKind(n))
      BY <2>3 DEF SesInKind
    <2>7. SesRuns(t)
      BY <2>3, <2>4, <2>5, <2>6, SesRunsOn
    <2>8. SesListed(t)
      BY <1>7, <2>3, SesListedOn DEF SesTrue
    <2>9. SesCore(t)
      BY <1>0, <2>3, SesCores
    <2> QED
      BY <1>3, <2>7, <2>8, <2>9 DEF SesTrue
  <1>8. CASE m.what = "accounts"
    <2>1. t = Session!LoadedAccounts(u, m)
      BY <1>8, SesAnswer
    <2>2. PICK r : r = Session!Refused(u, m) /\ SesReacts(r, u) /\ SesShows(t, r, m)
      BY <1>0, <2>1, SesAccounts
    <2>3. SesRuns(r) /\ SesCore(r) /\ r.server = s.server
      BY <1>0, <1>1, <2>2, SesRunsRefused, SesCores DEF SesReacts, SesGrows
    <2>4. SesRuns(t)
      BY <2>2, <2>3, SesRunsOn DEF SesShows
    <2>5. t.listed = None \/ (t.listed = DOMAIN t.server.accounts /\ t.listed # {})
      BY <1>1, <1>8, <2>2, <2>3 DEF SesShows, SesMsg
    <2>6. SesListed(t)
      BY <2>5 DEF SesListed
    <2>7. SesCore(t)
      BY <2>2, <2>3, <2>5 DEF SesCore, SesShows
    <2> QED
      BY <1>3, <2>4, <2>6, <2>7 DEF SesTrue
  <1> QED
    BY <1>2, <1>4, <1>5, <1>6, <1>7, <1>8

(* The answer to a guest. *)
LEMMA SesGuestAnswer ==
  ASSUME NEW s, SesTrue(s), SesGuest(s), NEW m \in s.net, m.out # None,
         NEW u, SesTaken(u, s, m), NEW t, t = Session!Answered(u, m)
  PROVE  SesTrue(t)
  <1>1. s.net = {m} /\ m.what \in {"status", "login", "setup"}
    BY DEF SesGuest
  <1>2. /\ SesHas(u) /\ u.net = {} /\ u.server = s.server /\ u.moves = s.moves /\ ~u.authed /\ ~u.logout
        /\ u.authMode = s.authMode /\ u.shown = s.shown
    BY <1>1 DEF SesTaken, SesGuest, SesGuestLook
  <1>3. /\ u.authMode = u.server.mode /\ u.authMode # "sso"
        /\ SesForm(u.shown) \/ u.shown = {"setup"}
    BY <1>2 DEF SesGuest, SesGuestLook
  <1>4. ~(m.what = "login" /\ m.out = "ok") => u.cookie = s.cookie
    BY <1>1 DEF SesTaken
  <1>5. ~(m.what = "login" /\ m.out = "ok") => SesGuestLook(u)
    BY <1>2, <1>3, <1>4 DEF SesGuest, SesGuestLook
  <1>6. SesMsg(m, s.server, s.moves + 1)
    BY DEF SesTrue, SesCore
  <1>7. SesReacts(t, u) => SesCore(t) /\ SesListed(t)
    BY <1>1, SesTakenReacts
  <1>8. SesReacts(t, u) => t.server = u.server /\ t.cookie = u.cookie /\ t.moves = u.moves
    BY DEF SesReacts, SesGrows
  <1>9. CASE m.what = "status"
    <2>1. t = Session!CheckedSetup(Session!Refused(u, m), m) /\ m.out # "denied"
      BY <1>6, <1>9, SesAnswer DEF SesMsg
    <2>2. /\ SesReacts(t, u)
          /\ t.net = u.net /\ (t.authed <=> u.authed) /\ t.authMode = u.authMode /\ (t.logout <=> u.logout)
          /\ (t.card <=> u.card)
      BY <1>2, <2>1, SesGotStatus
    <2>3. PICK form \in {"login", "setup"} : t.shown = (u.shown \ {"login", "setup"}) \union {form}
      BY <1>2, <2>1, SesGotStatus
    <2>4. t.shown = {form}
      BY <1>3, <2>3 DEF SesForm
    <2>5. SesForm(t.shown) \/ t.shown = {"setup"}
      BY <2>4 DEF SesForm
    <2>6. SesGuestLook(t)
      BY <1>5, <1>8, <1>9, <2>2, <2>5 DEF SesGuestLook
    <2> QED
      BY <1>2, <1>7, <2>2, <2>6 DEF SesGuest, SesTrue
  <1>10. CASE m.what = "login" /\ m.out = "ok"
    <2>1. t = Session!LoggedIn(u, m)
      BY <1>10, SesAnswer
    <2>2. /\ SesReacts(t, u)
          /\ t.authed /\ t.logout /\ t.authMode = u.authMode /\ (t.card <=> u.card)
          /\ t.shown = (u.shown \ {"login", "setup"}) \union {"admin"}
          /\ \E n : t.net = u.net \union {n} /\ n.what = "data"
      BY <1>2, <1>3, <1>10, <2>1, SesLogsIn
    <2>3. t.shown = {"admin"}
      BY <1>3, <2>2 DEF SesForm
    <2>4. t.cookie # None
      BY <1>6, <1>8, <1>10, <2>2, SesNone DEF SesTaken, SesMsg
    <2>5. SesInLook(t)
      BY <1>3, <1>8, <2>2, <2>3, <2>4 DEF SesInLook
    <2>6. \A n \in t.net : SesInKind(n)
      BY <1>2, <2>2 DEF SesInKind
    <2> QED
      BY <1>7, <2>2, <2>5, <2>6 DEF SesIn, SesTrue
  <1>11. CASE m.what = "login" /\ m.out # "ok"
    <2>1. t = Session!LoggedIn(u, m)
      BY <1>11, SesAnswer
    <2>2. /\ SesReacts(t, u)
          /\ t.net = u.net /\ ~t.authed /\ t.authMode = u.authMode /\ t.shown = u.shown
          /\ (t.card <=> u.card) /\ (t.logout <=> u.logout)
      BY <1>2, <1>11, <2>1, SesLogsIn
    <2>6. SesGuestLook(t)
      BY <1>5, <1>8, <1>11, <2>2 DEF SesGuestLook
    <2> QED
      BY <1>2, <1>7, <2>2, <2>6 DEF SesGuest, SesTrue
  <1>12. CASE m.what = "setup" /\ m.out = "ok"
    <2>1. t = Session!CreatedSetup(u, m)
      BY <1>12, SesAnswer
    <2>2. /\ SesReacts(t, u) /\ SesLooks(t, u)
          /\ \E n : t.net = u.net \union {n} /\ n.what = "login" /\ n.out = None
      BY <1>2, <1>12, <2>1, SesCreated
    <2>6. SesGuestLook(t)
      BY <1>5, <1>8, <1>12, <2>2 DEF SesGuestLook, SesLooks
    <2> QED
      BY <1>2, <1>7, <2>2, <2>6 DEF SesGuest, SesTrue
  <1>13. CASE m.what = "setup" /\ m.out # "ok"
    <2>1. t = Session!CreatedSetup(u, m)
      BY <1>13, SesAnswer
    <2>2. t = Session!Refused(u, m)
      BY <1>2, <1>13, <2>1, SesCreated
    <2>3. SesReacts(t, u) /\ (m.out # "denied" => t = u) /\ (m.out = "denied" => t = Session!logout(u))
      BY <1>2, <2>2, SesRefuses
    <2>4. CASE m.out # "denied"
      BY <1>2, <1>5, <1>7, <1>13, <2>3, <2>4 DEF SesGuest, SesTrue
    <2>5. CASE m.out = "denied"
      <3>1. SetupToken
        BY <1>6, <1>13, <2>5 DEF SesMsg
      <3>2. u.authMode # None
        BY <1>2, <1>3, SesNone DEF SesTrue, SesCore, SesServer
      <3>3. t = Session!Resolved(u, "logout", u.authMode)
        BY <2>3, <2>5, <3>2, SesAsks DEF Session!logout
      <3>4. t = Session!doLogout(u)
        BY <3>3, SesResolved
      <3>5. /\ \E n : t.net = u.net \union {n} /\ n.what = "end"
            /\ ~t.authed /\ ~t.logout /\ t.authMode = u.authMode
            /\ t.shown = (u.shown \ {"admin"}) \union {"login"}
        BY <1>2, <1>3, <3>4, SesLeaves
      <3>6. SesForm(t.shown)
        BY <1>3, <3>1, <3>5 DEF SesForm
      <3>7. SesOutLook(t)
        BY <1>3, <1>8, <2>3, <3>5, <3>6 DEF SesOutLook
      <3>8. SesOut(t)
        BY <1>2, <3>5, <3>7 DEF SesOut
      <3> QED
        BY <1>7, <2>3, <3>8 DEF SesTrue
    <2> QED
      BY <2>4, <2>5
  <1> QED
    BY <1>1, <1>9, <1>10, <1>11, <1>12, <1>13

(* The answers of the boot. *)
LEMMA SesFreshAnswer ==
  ASSUME NEW s, SesShape(s), SesTrue(s), SesFresh(s), NEW m \in s.net, m.out # None,
         NEW u, SesTaken(u, s, m), NEW t, t = Session!Answered(u, m)
  PROVE  SesTrue(t)
  <1>1. s.net = {m} /\ SesBootKind(s, m)
    BY DEF SesFresh
  <1>2. /\ SesHas(u) /\ u.net = {} /\ u.server = s.server /\ u.moves = s.moves /\ ~u.authed /\ ~u.logout
        /\ u.authMode = s.authMode /\ u.shown = {"login"}
    BY <1>1 DEF SesTaken, SesFresh
  <1>4. ~(m.what = "redeem" /\ m.out = "ok") => u.cookie = s.cookie /\ SesHeld(u.cookie, u.moves)
    BY <1>1, <1>2 DEF SesTaken, SesBootKind, SesFresh
  <1>6. SesMsg(m, s.server, s.moves + 1) /\ s.server.mode # None
    BY SesNone DEF SesTrue, SesCore, SesServer
  <1>7. SesReacts(t, u) => SesCore(t) /\ SesListed(t)
    BY <1>1, SesTakenReacts DEF SesBootKind
  <1>8. SesReacts(t, u) => t.server = s.server /\ t.cookie = u.cookie /\ t.moves = s.moves
    BY <1>2 DEF SesReacts, SesGrows
  <1>9. CASE m.what = "probe" /\ m.out = "ok"
    <2> DEFINE v == Session!refreshAll(Session!setLoggedIn(u, TRUE))
    <2>0. s.cookie # None /\ u.authMode # "sso" /\ (u.authMode = None \/ u.authMode = s.server.mode)
      BY <1>1, <1>2, <1>9, SesNone DEF SesBootKind
    <2>1. t = Session!getAuthMode(v, "gate")
      BY <1>9, SesAnswer DEF Session!Booted, Session!bootAuthed
    <2>2. /\ SesReacts(v, u)
          /\ v.authed /\ v.logout /\ v.authMode = u.authMode /\ (v.card <=> u.card)
          /\ v.shown = (u.shown \ {"login", "setup"}) \union {"admin"}
          /\ \E n : v.net = u.net \union {n} /\ n.what = "data"
      BY <1>2, <2>0, SesEnters
    <2> HIDE DEF v
    <2>3. v.shown = {"admin"} /\ (\A n \in v.net : SesInKind(n)) /\ SesHas(v)
      BY <1>2, <2>2 DEF SesInKind, SesReacts
    <2>4. SesReacts(t, v)
      BY <2>1, <2>3, SesWants
    <2>5. SesReacts(t, u)
      BY <2>2, <2>4, SesReactsOn
    <2>6. CASE u.authMode = None
      <3>1. SesLooks(t, v) /\ \E n : t.net = v.net \union {n} /\ n.what = "mode" /\ n.then = "gate" /\ n.out = None
        BY <2>1, <2>2, <2>3, <2>6, SesWants
      <3>2. \A n \in t.net : SesInKind(n)
        BY <2>3, <3>1 DEF SesInKind
      <3>3. SesInLook(t)
        BY <1>4, <1>8, <1>9, <2>0, <2>2, <2>3, <2>5, <2>6, <3>1, SesNone DEF SesInLook, SesLooks
      <3> QED
        BY <1>7, <2>5, <3>2, <3>3 DEF SesIn, SesTrue
    <2>7. CASE u.authMode # None
      <3>1. t = Session!Resolved(v, "gate", v.authMode)
        BY <2>1, <2>2, <2>7, SesAsks
      <3>2. t = v
        BY <2>0, <2>2, <3>1, SesResolved
      <3>3. SesInLook(t)
        BY <1>4, <1>8, <1>9, <2>0, <2>2, <2>3, <2>5, <2>7, <3>2 DEF SesInLook
      <3> QED
        BY <1>7, <2>3, <2>5, <3>2, <3>3 DEF SesIn, SesTrue
    <2> QED
      BY <2>6, <2>7
  <1>10. CASE m.what = "probe" /\ m.out # "ok"
    <2>0. ~Session!Valid(s.server, s.cookie) /\ u.authMode # "sso" /\ (u.authMode = None \/ u.authMode = s.server.mode)
      BY <1>1, <1>2, <1>10, SesNone DEF SesBootKind
    <2>1. t = Session!getAuthMode(u, "guest")
      BY <1>10, SesAnswer DEF Session!Booted, Session!bootLoggedOut
    <2>2. SesReacts(t, u)
      BY <1>2, <2>1, SesWants
    <2>6. CASE u.authMode = None
      <3>1. SesLooks(t, u) /\ \E n : t.net = u.net \union {n} /\ n.what = "mode" /\ n.then = "guest" /\ n.out = None
        BY <1>2, <2>1, <2>6, SesWants
      <3>2. PICK n : t.net = {n} /\ n.what = "mode" /\ n.then = "guest"
        BY <1>2, <3>1
      <3>3. SesBootKind(t, n)
        BY <1>4, <1>8, <1>10, <2>0, <2>2, <2>6, <3>1, <3>2 DEF SesBootKind, SesLooks
      <3> QED
        BY <1>2, <1>4, <1>7, <1>8, <1>10, <2>2, <3>1, <3>2, <3>3 DEF SesFresh, SesTrue, SesLooks
    <2>7. CASE u.authMode # None
      <3> DEFINE v == Session!setLoggedIn(u, FALSE)
      <3>1. t = Session!Resolved(u, "guest", u.authMode)
        BY <2>1, <2>7, SesAsks
      <3>2. t = Session!checkSetup(v)
        BY <2>0, <3>1, SesResolved
      <3>3. /\ SesHas(v) /\ SesGrows(v, u) /\ v.net = u.net
            /\ ~v.authed /\ ~v.logout /\ v.authMode = u.authMode
            /\ v.shown = (u.shown \ {"admin"}) \union {"login"} /\ (v.card <=> u.card)
        BY <1>2, <2>0, SesLoggedOut
      <3> HIDE DEF v
      <3>4. SesLooks(t, v) /\ \E n : t.net = v.net \union {n} /\ n.what = "status" /\ n.out = None
        BY <2>0, <3>2, <3>3, SesChecks
      <3>5. v.shown = {"login"}
        BY <1>2, <3>3
      <3>6. SesGuestLook(t)
        BY <1>4, <1>8, <1>10, <2>0, <2>2, <2>7, <1>2, <3>3, <3>4, <3>5 DEF SesGuestLook, SesLooks, SesForm
      <3> QED
        BY <1>2, <1>7, <2>2, <3>3, <3>4, <3>6 DEF SesGuest, SesTrue
    <2> QED
      BY <2>6, <2>7
  <1>11. CASE m.what = "redeem"
    <2>0. u.authMode = None /\ u.authMode # "sso" /\ t = Session!Redeemed(u, m)
      BY <1>1, <1>2, <1>11, SesAnswer, SesNone DEF SesBootKind
    <2>1. SesReacts(t, u)
      BY <1>2, <2>0, SesRedeemed
    <2>2. CASE m.out = "ok"
      <3>1. /\ t.authed /\ t.logout /\ t.authMode = u.authMode
            /\ t.shown = (u.shown \ {"sso", "login", "setup"}) \union {"admin"}
            /\ \E n : t.net = u.net \union {n} /\ n.what = "data"
        BY <1>2, <2>0, <2>2, SesRedeemed
      <3>2. t.shown = {"admin"} /\ \A n \in t.net : SesInKind(n)
        BY <1>2, <3>1 DEF SesInKind
      <3>3. t.cookie # None
        BY <1>6, <1>8, <1>11, <2>1, <2>2, SesNone DEF SesTaken, SesMsg
      <3>4. SesInLook(t)
        BY <1>8, <2>0, <2>1, <3>1, <3>2, <3>3 DEF SesInLook
      <3> QED
        BY <1>7, <2>1, <3>2, <3>4 DEF SesIn, SesTrue
    <2>3. CASE m.out # "ok"
      <3>1. t = Session!getAuthMode(u, "ticket")
        BY <2>0, <2>3 DEF Session!Redeemed
      <3>2. SesLooks(t, u) /\ \E n : t.net = u.net \union {n} /\ n.what = "mode" /\ n.then = "ticket" /\ n.out = None
        BY <1>2, <2>0, <3>1, SesWants
      <3>3. PICK n : t.net = {n} /\ n.what = "mode" /\ n.then = "ticket"
        BY <1>2, <3>2
      <3>4. SesBootKind(t, n)
        BY <2>0, <3>2, <3>3 DEF SesBootKind, SesLooks
      <3> QED
        BY <1>2, <1>4, <1>7, <1>8, <2>1, <2>3, <3>2, <3>3, <3>4 DEF SesFresh, SesTrue, SesLooks
    <2> QED
      BY <2>2, <2>3
  <1>12. CASE m.what = "mode"
    <2> DEFINE mode == m.data.mode
    <2>v. PICK v : v = [u EXCEPT !.authMode = mode, !.cloudUrl = m.data.cloud]
      OBVIOUS
    <2>0. m.out = "ok" /\ mode = s.server.mode /\ t = Session!GotAuthMode(u, m) /\ m.then \in {"ticket", "guest"}
      BY <1>1, <1>6, <1>12, SesAnswer DEF SesMsg, SesBootKind
    <2>1. t = Session!Resolved(v, m.then, mode)
      BY <2>0, <2>v DEF Session!GotAuthMode
    <2>2. /\ SesHas(v) /\ SesGrows(v, u) /\ v.net = u.net /\ (v.authed <=> u.authed) /\ v.authMode = mode
          /\ v.shown = u.shown /\ (v.card <=> u.card) /\ (v.logout <=> u.logout)
      BY <1>2, <2>v DEF SesHas, SesFields, SesGrows
    <2> HIDE DEF mode
    <2>3. SesReacts(t, u)
      BY <1>2, <1>12, <2>0, SesGotMode DEF SesAsked, SesShape
    <2>4. v.server = s.server /\ v.cookie = s.cookie
      BY <1>2, <1>4, <1>12, <2>2 DEF SesGrows
    <2>5. CASE mode = "sso"
      <3> DEFINE msg == IF m.then = "ticket" THEN "redeem failed" ELSE SesNoMsg
      <3>1. t = Session!showSsoNotice(v, msg)
        BY <2>0, <2>1, <2>5, SesResolved
      <3> HIDE DEF msg
      <3>2. /\ SesHas(t) /\ SesGrows(t, v) /\ t.net = v.net
            /\ (t.authed <=> v.authed) /\ t.authMode = v.authMode /\ ~t.logout /\ t.shown = {"sso"}
            /\ ~t.card
        BY <2>2, <2>5, <3>1, SesNotice
      <3>3. SesOutLook(t)
        BY <1>2, <1>8, <2>0, <2>2, <2>3, <2>5, <3>2 DEF SesOutLook
      <3>4. SesOut(t)
        BY <1>2, <2>2, <2>5, <3>2, <3>3 DEF SesOut
      <3> QED
        BY <1>7, <2>3, <3>4 DEF SesTrue
    <2>6. CASE mode # "sso" /\ m.then = "ticket"
      <3> DEFINE msg == "redeem failed"
                 w == Session!bootWithoutTicket(v)
      <3>1. t = Session!showLoginError(w, msg)
        BY <2>1, <2>6, SesResolved
      <3> HIDE DEF msg
      <3>2. /\ SesReacts(w, v) /\ (w.authed <=> v.authed) /\ (w.logout <=> v.logout) /\ w.authMode = v.authMode
            /\ w.shown = v.shown \ {"sso"} /\ (w.card <=> v.card)
            /\ \E n : w.net = v.net \union {n} /\ n.what = "probe" /\ n.out = None /\ n.token = v.cookie
        BY <2>2, SesBoots
      <3> HIDE DEF w
      <3>3. SesHas(t) /\ SesGrows(t, w) /\ SesLooks(t, w) /\ t.net = w.net
        BY <3>1, <3>2, SesError DEF SesReacts
      <3>4. PICK n : t.net = {n} /\ n.what = "probe" /\ n.out = None /\ n.token = v.cookie
        BY <1>2, <2>2, <3>2, <3>3
      <3>5. t.shown = {"login"} /\ ~t.authed /\ ~t.logout /\ t.authMode = mode
        BY <1>2, <2>2, <3>2, <3>3 DEF SesLooks
      <3>6. t.cookie = v.cookie /\ t.server = v.server /\ t.moves = u.moves
        BY <2>2, <3>2, <3>3 DEF SesReacts, SesGrows
      <3>7. SesBootKind(t, n)
        BY <2>0, <2>4, <2>6, <3>4, <3>5, <3>6, SesNone DEF SesBootKind
      <3> QED
        BY <1>2, <1>4, <1>7, <1>12, <2>3, <2>4, <3>4, <3>5, <3>6, <3>7 DEF SesFresh, SesTrue
    <2>7. CASE mode # "sso" /\ m.then = "guest"
      <3> DEFINE w == Session!setLoggedIn(v, FALSE)
      <3>0. ~Session!Valid(s.server, s.cookie)
        BY <1>1, <1>12, <2>7 DEF SesBootKind
      <3>2. t = Session!checkSetup(w)
        BY <2>1, <2>7, SesResolved
      <3>3. /\ SesHas(w) /\ SesGrows(w, v) /\ w.net = v.net
            /\ ~w.authed /\ ~w.logout /\ w.authMode = v.authMode
            /\ w.shown = (v.shown \ {"admin"}) \union {"login"} /\ (w.card <=> v.card)
        BY <2>2, <2>7, SesLoggedOut
      <3> HIDE DEF w
      <3>4. SesLooks(t, w) /\ \E n : t.net = w.net \union {n} /\ n.what = "status" /\ n.out = None
        BY <2>2, <2>7, <3>2, <3>3, SesChecks
      <3>5. w.shown = {"login"}
        BY <1>2, <2>2, <3>3
      <3>6. SesGuestLook(t)
        BY <1>2, <1>4, <1>8, <1>12, <2>0, <2>2, <2>3, <2>7, <3>0, <3>3, <3>4, <3>5
        DEF SesGuestLook, SesLooks, SesForm
      <3> QED
        BY <1>2, <1>7, <2>2, <2>3, <3>3, <3>4, <3>6 DEF SesGuest, SesTrue
    <2> QED
      BY <2>0, <2>5, <2>6, <2>7
  <1> QED
    BY <1>1, <1>9, <1>10, <1>11, <1>12 DEF SesBootKind

(* What is true of a page does not depend on how many moves are left. *)
SesLike(t, s) ==
    /\ SesHas(t)
    /\ t.server = s.server /\ t.cookie = s.cookie /\ t.missed = s.missed /\ t.listed = s.listed /\ t.net = s.net
    /\ (t.authed <=> s.authed) /\ t.authMode = s.authMode /\ t.shown = s.shown
    /\ (t.card <=> s.card) /\ (t.logout <=> s.logout)

LEMMA SesMoves ==
  ASSUME NEW s, SesHas(s), NEW t, t = Session!Move(s)
  PROVE  SesLike(t, s) /\ t.moves = s.moves + 1
  BY DEF SesHas, SesFields, SesLike, Session!Move

LEMMA SesLater ==
  ASSUME NEW s, SesCore(s), NEW t, SesLike(t, s), t.moves = s.moves + 1
  PROVE  SesCore(t)
  <1>0. s.moves \in Nat /\ t.moves \in Nat
    BY DEF SesCore
  <1>1. ASSUME NEW token, SesHeld(token, s.moves + 1) PROVE SesHeld(token, t.moves + 1)
    BY <1>0, <1>1 DEF SesHeld, SesToken
  <1>2. SesServer(t.server, t.moves + 1)
    BY <1>0 DEF SesCore, SesServer, SesLike
  <1>3. ASSUME NEW m \in t.net PROVE SesMsg(m, t.server, t.moves + 1)
    <2>1. SesMsg(m, s.server, s.moves + 1)
      BY <1>3 DEF SesCore, SesLike
    <2>2. m.what \in {"login", "redeem", "refresh"} /\ m.out = "ok" => m.data \in SesToken /\ m.data.key <= t.moves + 1
      BY <1>0, <2>1 DEF SesMsg, SesToken
    <2> QED
      BY <1>1, <2>1, <2>2 DEF SesMsg, SesLike
  <1> QED
    BY <1>0, <1>1, <1>2, <1>3 DEF SesCore, SesLike

LEMMA SesTrueLater ==
  ASSUME NEW s, SesTrue(s), NEW t, SesLike(t, s), t.moves = s.moves + 1
  PROVE  SesTrue(t)
  <1>0. s.moves \in Nat /\ SesCore(t)
    BY SesLater DEF SesTrue, SesCore
  <1>1. SesListed(t)
    BY DEF SesTrue, SesListed, SesLike
  <1>2. SesHeld(s.cookie, s.moves) => SesHeld(t.cookie, t.moves)
    BY <1>0 DEF SesHeld, SesToken, SesLike
  <1>3. CASE SesIn(s)
    <2>1. SesInLook(t)
      BY <1>3 DEF SesIn, SesInLook, SesLike
    <2> QED
      BY <1>0, <1>1, <1>3, <2>1 DEF SesIn, SesLike, SesTrue
  <1>4. CASE SesOut(s)
    <2>1. SesOutLook(t)
      BY <1>4 DEF SesOut, SesOutLook, SesLike
    <2>2. t.net = s.net /\ t.cookie = s.cookie /\ t.authMode = s.authMode
      BY DEF SesLike
    <2> QED
      BY <1>0, <1>1, <1>4, <2>1, <2>2 DEF SesOut, SesTrue
  <1>5. CASE SesGuest(s)
    <2>1. SesGuestLook(t)
      BY <1>2, <1>5 DEF SesGuest, SesGuestLook, SesLike
    <2> QED
      BY <1>0, <1>1, <1>5, <2>1 DEF SesGuest, SesLike, SesTrue
  <1>6. CASE SesFresh(s)
    <2>1. PICK m : s.net = {m} /\ SesBootKind(s, m)
      BY <1>6 DEF SesFresh
    <2>2. SesBootKind(t, m)
      BY <2>1 DEF SesBootKind, SesLike
    <2> QED
      BY <1>0, <1>1, <1>2, <1>6, <2>1, <2>2 DEF SesFresh, SesLike, SesTrue
  <1> QED
    BY <1>3, <1>4, <1>5, <1>6 DEF SesTrue

(* A click: the page reacts, and it was a move. *)
LEMMA SesClicks ==
  ASSUME NEW s, SesInv(s), NEW t, SesReacts(t, s), ~s.missed => SesTrue(t), NEW v, v = Session!Move(t)
  PROVE  SesInv(v)
  <1>1. SesShape(t) /\ t.missed = s.missed /\ SesHas(t)
    BY SesShapes DEF SesInv, SesShape
  <1>2. SesLike(v, t) /\ v.moves = t.moves + 1
    BY <1>1, SesMoves
  <1>3. SesShape(v) /\ v.missed = s.missed
    BY <1>1, <1>2 DEF SesShape, SesLike
  <1> QED
    BY <1>2, <1>3, SesTrueLater DEF SesInv

-----------------------------------------------------------------------------
(* A page that is loaded. *)
LEMMA SesFreshPage ==
  ASSUME NEW s, SesHas(s), NEW ticket, NEW t, t = Session!FreshPage(s, ticket)
  PROVE  /\ SesHas(t) /\ t.server = s.server /\ t.cookie = s.cookie /\ t.moves = s.moves /\ t.missed = s.missed
         /\ t.listed = None /\ t.net = {} /\ ~t.authed /\ ~t.logout /\ t.authMode = None /\ t.shown = {"login"}
  <1>1. t = [s EXCEPT !.authed = FALSE, !.authMode = None, !.cloudUrl = FALSE, !.shown = {"login"}, !.card = TRUE,
              !.logout = FALSE, !.loginError = SesNoMsg, !.ssoError = SesNoMsg, !.listed = None, !.left = FALSE,
              !.ticket = ticket, !.net = {}]
    BY DEF Session!FreshPage, SesNoMsg
  <1> QED
    BY <1>1 DEF SesHas, SesFields

LEMMA SesNormalBoot ==
  ASSUME NEW s, SesHas(s), s.net = {}, ~s.authed, ~s.logout, s.authMode = None, s.shown = {"login"}, s.listed = None,
         NEW t, t = Session!normalBoot(s)
  PROVE  /\ SesReacts(t, s) /\ SesListed(t)
         /\ ~t.authed /\ ~t.logout /\ t.shown = {"login"} /\ \E m : t.net = {m} /\ SesBootKind(t, m)
  <1>1. CASE Session!getSsoTicket(s) # None
    <2> DEFINE msg == ""
               u == Session!showLoginError(s, msg)
    <2>1. t = Session!Send(u, "redeem", s.ticket, "redeem")
      BY <1>1 DEF Session!normalBoot, Session!redeemSsoTicket
    <2> HIDE DEF msg
    <2>2. SesHas(u) /\ SesGrows(u, s) /\ SesLooks(u, s) /\ u.net = s.net
      BY SesError
    <2> HIDE DEF u
    <2>3. /\ SesReacts(t, u) /\ SesLooks(t, u)
          /\ \E m : /\ t.net = u.net \union {m} /\ m.what = "redeem" /\ m.then = "redeem" /\ m.out = None
                    /\ m.token = u.cookie
      BY <2>1, <2>2, SesSends DEF SesWhats
    <2>4. SesReacts(t, s)
      BY <2>2, <2>3, SesStill, SesReactsOn
    <2>5. t.authMode = None /\ ~t.authed /\ ~t.logout /\ t.shown = {"login"} /\ t.listed = None
      BY <2>2, <2>3, <2>4 DEF SesLooks, SesReacts, SesGrows
    <2>6. PICK m : t.net = {m} /\ m.what = "redeem"
      BY <2>2, <2>3
    <2>7. SesBootKind(t, m)
      BY <2>5, <2>6 DEF SesBootKind
    <2> QED
      BY <2>4, <2>5, <2>6, <2>7 DEF SesListed
  <1>2. CASE Session!getSsoTicket(s) = None
    <2>1. t = Session!bootWithoutTicket(s)
      BY <1>2 DEF Session!normalBoot
    <2>2. /\ SesReacts(t, s) /\ (t.authed <=> s.authed) /\ (t.logout <=> s.logout) /\ t.authMode = s.authMode
          /\ t.shown = s.shown \ {"sso"} /\ (t.card <=> s.card)
          /\ \E m : t.net = s.net \union {m} /\ m.what = "probe" /\ m.out = None /\ m.token = s.cookie
      BY <2>1, SesBoots
    <2>3. PICK m : t.net = {m} /\ m.what = "probe" /\ m.out = None /\ m.token = s.cookie
      BY <2>2
    <2>4. t.cookie = s.cookie /\ t.listed = None
      BY <2>2 DEF SesReacts, SesGrows
    <2>5. SesBootKind(t, m)
      BY <2>2, <2>3, <2>4, SesNone DEF SesBootKind
    <2>6. t.shown = {"login"}
      BY <2>2
    <2> QED
      BY <2>2, <2>3, <2>4, <2>5, <2>6 DEF SesListed
  <1> QED
    BY <1>1, <1>2

(* The page is loaded with whatever cookie there is. *)
LEMMA SesLoaded ==
  ASSUME NEW s, SesHas(s), s.listed = None, s.net = {}, s.moves \in Nat, SesServer(s.server, s.moves + 1),
         SesHeld(s.cookie, s.moves + 1)
  PROVE  SesCore(s)
  BY DEF SesCore

LEMMA SesReloads ==
  ASSUME NEW s, SesInv(s), NEW ticket, NEW v, v = Session!Move(Session!normalBoot(Session!FreshPage(s, ticket)))
  PROVE  SesInv(v)
  <1>1. PICK f : f = Session!FreshPage(s, ticket)
    OBVIOUS
  <1>2. PICK t : t = Session!normalBoot(f)
    OBVIOUS
  <1>0. v = Session!Move(t)
    BY <1>1, <1>2
  <1>3. /\ SesHas(f) /\ f.server = s.server /\ f.cookie = s.cookie /\ f.moves = s.moves /\ f.missed = s.missed
        /\ f.listed = None /\ f.net = {} /\ ~f.authed /\ ~f.logout /\ f.authMode = None /\ f.shown = {"login"}
    BY <1>1, SesFreshPage DEF SesInv, SesShape
  <1>4. /\ SesReacts(t, f) /\ SesListed(t)
        /\ ~t.authed /\ ~t.logout /\ t.shown = {"login"} /\ \E m : t.net = {m} /\ SesBootKind(t, m)
    BY <1>2, <1>3, SesNormalBoot
  <1>5. SesShape(t) /\ t.missed = s.missed /\ SesHas(t)
    BY <1>3, <1>4, SesShapes DEF SesShape
  <1>6. SesLike(v, t) /\ v.moves = t.moves + 1
    BY <1>0, <1>5, SesMoves
  <1>7. SesShape(v) /\ v.missed = s.missed
    BY <1>5, <1>6 DEF SesShape, SesLike
  <1>8. ASSUME ~s.missed PROVE SesTrue(v)
    <2>1. SesCore(s)
      BY <1>8 DEF SesInv, SesTrue
    <2>2. SesCore(f)
      BY <1>3, <2>1, SesLoaded DEF SesCore
    <2>3. SesCore(v)
      BY <1>4, <1>6, <2>2, SesCores, SesLater
    <2>4. SesListed(v)
      BY <1>4, <1>6 DEF SesListed, SesLike
    <2>5. t.moves = s.moves /\ t.cookie = s.cookie
      BY <1>3, <1>4 DEF SesReacts, SesGrows
    <2>6. SesHeld(v.cookie, v.moves)
      BY <1>6, <2>1, <2>5 DEF SesCore, SesLike
    <2>7. PICK m : t.net = {m} /\ SesBootKind(t, m)
      BY <1>4
    <2>8. SesBootKind(v, m)
      BY <1>6, <2>7 DEF SesBootKind, SesLike
    <2> QED
      BY <1>4, <1>6, <2>3, <2>4, <2>6, <2>7, <2>8 DEF SesFresh, SesTrue, SesLike
  <1> QED
    BY <1>7, <1>8 DEF SesInv

(* A click on a page at rest, in the shell or at a form. *)
LEMMA SesShell ==
  ASSUME NEW s, SesTrue(s), s.net = {}, "admin" \in s.shown \/ s.logout
  PROVE  SesInLook(s)
  <1>1. ~SesFresh(s)
    BY DEF SesFresh
  <1>2. ~SesGuest(s)
    BY DEF SesGuest, SesGuestLook, SesForm
  <1>3. ~SesOut(s)
    BY DEF SesOut, SesOutLook, SesForm
  <1> QED
    BY <1>1, <1>2, <1>3 DEF SesTrue, SesIn

LEMMA SesAtForm ==
  ASSUME NEW s, SesTrue(s), s.net = {}, "login" \in s.shown \/ "setup" \in s.shown
  PROVE  SesGuestLook(s)
  <1>1. ~SesFresh(s)
    BY DEF SesFresh
  <1>2. ~SesIn(s)
    BY DEF SesIn, SesInLook
  <1>3. CASE SesOut(s)
    <2>1. s.authMode # "sso"
      BY <1>3 DEF SesOut, SesOutLook
    <2>2. s.cookie = None
      BY <1>3, <2>1 DEF SesOut
    <2> QED
      BY <1>3, <2>1, <2>2 DEF SesOut, SesOutLook, SesGuestLook, SesHeld, Session!Valid
  <1> QED
    BY <1>1, <1>2, <1>3 DEF SesTrue, SesGuest

LEMMA SesClickIn ==
  ASSUME NEW s, SesTrue(s), s.net = {}, SesInLook(s), NEW t, SesReacts(t, s), SesLooks(t, s),
         t.net = {} \/ \E m : t.net = {m} /\ (SesInKind(m) \/ m.what \in {"create", "password", "remove", "refresh"})
  PROVE  SesTrue(t)
  <1>1. SesCore(t) /\ t.server = s.server /\ t.cookie = s.cookie /\ t.listed = s.listed
    BY SesCores DEF SesTrue, SesReacts, SesGrows
  <1>2. SesListed(t)
    BY <1>1 DEF SesTrue, SesListed
  <1>3. SesInLook(t)
    BY <1>1 DEF SesInLook, SesLooks
  <1> QED
    BY <1>1, <1>2, <1>3 DEF SesIn, SesTrue

LEMMA SesClickForm ==
  ASSUME NEW s, SesTrue(s), s.net = {}, SesGuestLook(s), NEW t, SesReacts(t, s), SesLooks(t, s),
         \E m : t.net = {m} /\ m.what \in {"login", "setup"}
  PROVE  SesTrue(t)
  <1>1. SesCore(t) /\ t.server = s.server /\ t.cookie = s.cookie /\ t.listed = s.listed /\ t.moves = s.moves
    BY SesCores DEF SesTrue, SesReacts, SesGrows
  <1>2. SesListed(t)
    BY <1>1 DEF SesTrue, SesListed
  <1>3. SesGuestLook(t)
    BY <1>1 DEF SesGuestLook, SesLooks
  <1> QED
    BY <1>1, <1>2, <1>3 DEF SesGuest, SesTrue

LEMMA SesReady ==
  ASSUME NEW s, NEW section
  PROVE  Session!Shown(s, section) => s.net = {} /\ section \in s.shown
  BY DEF Session!Shown, Session!Ready

LEMMA SesLoginStep == ASSUME SesInv(st), Session!Login PROVE SesInv(st')
  <1>1. PICK who \in Admins : st' = Session!Move(Session!login(st, who))
    BY DEF Session!Login
  <1>2. st.net = {} /\ "login" \in st.shown
    BY SesReady DEF Session!Login
  <1>3. PICK t : t = Session!login(st, who)
    OBVIOUS
  <1>4. /\ SesReacts(t, st) /\ SesLooks(t, st)
        /\ \E m : t.net = st.net \union {m} /\ m.what = "login" /\ m.out = None
    BY <1>3, SesTries DEF SesInv, SesShape
  <1>5. ~st.missed => SesTrue(t)
    BY <1>2, <1>4, SesAtForm, SesClickForm DEF SesInv
  <1> QED
    BY <1>1, <1>3, <1>4, <1>5, SesClicks

LEMMA SesSetupStep == ASSUME SesInv(st), Session!Setup PROVE SesInv(st')
  <1>1. PICK who \in Admins : st' = Session!Move(Session!createSetup(st, who))
    BY DEF Session!Setup
  <1>2. st.net = {} /\ "setup" \in st.shown
    BY SesReady DEF Session!Setup
  <1>3. PICK t : t = Session!createSetup(st, who)
    OBVIOUS
  <1>4. /\ SesReacts(t, st) /\ SesLooks(t, st)
        /\ \E m : /\ t.net = st.net \union {m} /\ m.what = "setup" /\ m.then = "setup" /\ m.out = None
                  /\ m.token = st.cookie
    BY <1>3, SesSends DEF SesInv, SesShape, SesWhats, Session!createSetup
  <1>5. ~st.missed => SesTrue(t)
    BY <1>2, <1>4, SesAtForm, SesClickForm DEF SesInv
  <1> QED
    BY <1>1, <1>3, <1>4, <1>5, SesClicks

LEMMA SesLogoutStep == ASSUME SesInv(st), Session!Logout PROVE SesInv(st')
  <1>1. st' = Session!Move(Session!logout(st)) /\ st.logout /\ st.net = {}
    BY DEF Session!Logout, Session!Ready
  <1>3. PICK t : t = Session!logout(st)
    OBVIOUS
  <1>4. SesReacts(t, st)
    BY <1>3, SesWants DEF SesInv, SesShape, Session!logout
  <1>5. ASSUME ~st.missed PROVE SesTrue(t)
    <2>1. SesTrue(st) /\ SesHas(st)
      BY <1>5 DEF SesInv, SesShape
    <2>2. SesRuns(st)
      BY <1>1, <2>1, SesShell DEF SesRuns
    <2>3. SesRuns(t)
      BY <1>3, <2>1, <2>2, SesRunsEnd DEF SesTrue
    <2>4. SesCore(t)
      BY <1>4, <2>1, SesCores DEF SesTrue
    <2>5. SesListed(t)
      BY <1>1, <1>4, <2>1 DEF SesTrue, SesListed, SesReacts, SesGrows
    <2> QED
      BY <2>3, <2>4, <2>5 DEF SesRuns, SesIn, SesTrue
  <1> QED
    BY <1>1, <1>3, <1>4, <1>5, SesClicks

LEMMA SesSettingsStep == ASSUME SesInv(st), Session!OpenSettings PROVE SesInv(st')
  <1>1. st' = Session!Move(Session!loadAccounts(Session!applySsoUiGating(st)))
    BY DEF Session!OpenSettings
  <1>2. st.net = {} /\ "admin" \in st.shown
    BY SesReady DEF Session!OpenSettings
  <1>3. PICK g : g = Session!applySsoUiGating(st)
    OBVIOUS
  <1>4. PICK t : t = Session!loadAccounts(g)
    OBVIOUS
  <1>5. /\ SesHas(g) /\ SesGrows(g, st) /\ g.net = st.net
        /\ (g.authed <=> st.authed) /\ g.authMode = st.authMode /\ (g.logout <=> st.logout)
        /\ st.authMode = "sso" => g.shown = st.shown \ {"login", "setup"} /\ ~g.card
        /\ st.authMode # "sso" => g = st
    BY <1>3, SesGating DEF SesInv, SesShape
  <1>6. SesReacts(g, st)
    BY <1>5, SesStill
  <1>7. SesReacts(t, g) /\ SesLooks(t, g) /\ \E m : t.net = g.net \union {m} /\ m.what = "accounts" /\ m.out = None
    BY <1>4, <1>5, SesLists
  <1>8. SesReacts(t, st)
    BY <1>6, <1>7, SesReactsOn
  <1>9. ASSUME ~st.missed PROVE SesTrue(t)
    <2>1. SesTrue(st) /\ SesInLook(st)
      BY <1>2, <1>9, SesShell DEF SesInv
    <2>2. g.server = st.server /\ g.cookie = st.cookie /\ g.listed = st.listed
      BY <1>5 DEF SesGrows
    <2>3. g.shown = {"admin"}
      BY <1>5, <2>1 DEF SesInLook
    <2>4. SesInLook(g)
      BY <1>5, <2>1, <2>2, <2>3 DEF SesInLook
    <2>5. SesTrue(g)
      BY <1>2, <1>5, <1>6, <2>1, <2>2, <2>4, SesCores DEF SesTrue, SesIn, SesListed
    <2> QED
      BY <1>2, <1>5, <1>7, <2>4, <2>5, SesClickIn DEF SesInKind
  <1> QED
    BY <1>1, <1>3, <1>4, <1>8, <1>9, SesClicks

LEMMA SesRefreshStep == ASSUME SesInv(st), Session!RefreshTimer PROVE SesInv(st')
  <1>1. st' = Session!Move(Session!refreshSession(st))
    BY DEF Session!RefreshTimer
  <1>2. st.net = {} /\ "admin" \in st.shown
    BY SesReady DEF Session!RefreshTimer
  <1>3. PICK t : t = Session!refreshSession(st)
    OBVIOUS
  <1>4. /\ SesReacts(t, st) /\ SesLooks(t, st)
        /\ \E m : /\ t.net = st.net \union {m} /\ m.what = "refresh" /\ m.then = "refresh" /\ m.out = None
                  /\ m.token = st.cookie
    BY <1>3, SesSends DEF SesInv, SesShape, SesWhats, Session!refreshSession
  <1>5. ~st.missed => SesTrue(t)
    BY <1>2, <1>4, SesShell, SesClickIn DEF SesInv
  <1> QED
    BY <1>1, <1>3, <1>4, <1>5, SesClicks

LEMMA SesUseStep == ASSUME SesInv(st), Session!UseAccounts PROVE SesInv(st')
  <1>1. \/ \E who \in Admins : st' = Session!Move(Session!createAccount(st, who))
        \/ \E who : st' \in {Session!Move(Session!changeAccountPassword(st, who)),
                             Session!Move(Session!deleteAccount(st, who))}
    BY DEF Session!UseAccounts
  <1>2. st.net = {} /\ "admin" \in st.shown /\ SesHas(st)
    BY SesReady DEF Session!UseAccounts, SesInv, SesShape
  <1>3. ASSUME NEW t, SesReacts(t, st), SesLooks(t, st), st' = Session!Move(t),
               t.net = {} \/ \E m : t.net = {m} /\ m.what \in {"create", "password", "remove"}
        PROVE  SesInv(st')
    <2>1. ~st.missed => SesTrue(t)
      BY <1>2, <1>3, SesShell, SesClickIn DEF SesInv
    <2> QED
      BY <1>3, <2>1, SesClicks
  <1>4. CASE \E who \in Admins : st' = Session!Move(Session!createAccount(st, who))
    <2>1. PICK who \in Admins : st' = Session!Move(Session!createAccount(st, who))
      BY <1>4
    <2>2. PICK t : t = Session!createAccount(st, who)
      OBVIOUS
    <2>3. /\ SesReacts(t, st) /\ SesLooks(t, st)
          /\ \E m : /\ t.net = st.net \union {m} /\ m.what = "create" /\ m.then = "create" /\ m.out = None
                    /\ m.token = st.cookie
      BY <1>2, <2>2, SesSends DEF SesWhats, Session!createAccount
    <2> QED
      BY <1>2, <1>3, <2>1, <2>2, <2>3
  <1>5. CASE \E who : st' \in {Session!Move(Session!changeAccountPassword(st, who)),
                               Session!Move(Session!deleteAccount(st, who))}
    <2>1. PICK who : st' \in {Session!Move(Session!changeAccountPassword(st, who)),
                              Session!Move(Session!deleteAccount(st, who))}
      BY <1>5
    <2>2. PICK t : /\ t \in {Session!changeAccountPassword(st, who), Session!deleteAccount(st, who)}
                   /\ st' = Session!Move(t)
      BY <2>1
    <2>3. PICK what \in {"password", "remove"} : t = st \/ t = Session!Send(st, what, who, what)
      BY <2>2 DEF Session!changeAccountPassword, Session!deleteAccount
    <2>4. CASE t = st
      BY <1>2, <1>3, <2>2, <2>4, SesSame DEF SesLooks
    <2>5. CASE t = Session!Send(st, what, who, what)
      <3>1. /\ SesReacts(t, st) /\ SesLooks(t, st)
            /\ \E m : /\ t.net = st.net \union {m} /\ m.what = what /\ m.then = what /\ m.out = None
                      /\ m.token = st.cookie
        BY <1>2, <2>5, SesSends DEF SesWhats
      <3> QED
        BY <1>2, <1>3, <2>2, <3>1
    <2> QED
      BY <2>3, <2>4, <2>5
  <1> QED
    BY <1>1, <1>4, <1>5

LEMMA SesWithAccount ==
  ASSUME NEW server, NEW n \in Nat, SesServer(server, n), NEW who \in Admins, NEW key \in Nat, key <= n,
         NEW new, new = Session!WithAccount(server, who, key)
  PROVE  /\ SesServer(new, n) /\ new.mode = server.mode
         /\ DOMAIN new.accounts = DOMAIN server.accounts \union {who}
         /\ \A token : \A old \in Nat : /\ SesHeld(token, old) /\ old < key /\ ~Session!Valid(server, token)
                                        => ~Session!Valid(new, token)
  <1> DEFINE f == [a \in DOMAIN server.accounts \union {who} |-> IF a = who THEN key ELSE server.accounts[a]]
  <1>1. /\ {"mode", "cloud", "accounts"} \subseteq DOMAIN new /\ new.accounts = f /\ new.mode = server.mode
    BY DEF SesServer, Session!WithAccount
  <1>2. DOMAIN f = DOMAIN server.accounts \union {who} /\ f[who] = key
    OBVIOUS
  <1>3. \A a \in DOMAIN server.accounts : a # who => f[a] = server.accounts[a]
    OBVIOUS
  <1> HIDE DEF f
  <1>4. SesServer(new, n)
    BY <1>1, <1>2, <1>3 DEF SesServer
  <1>5. ASSUME NEW token, NEW old \in Nat, SesHeld(token, old), old < key, ~Session!Valid(server, token)
        PROVE  ~Session!Valid(new, token)
    <2>1. CASE token = None
      BY <2>1 DEF Session!Valid
    <2>2. CASE token # None
      <3>1. token.key \in Nat /\ token.key < key
        BY <1>5, <2>2 DEF SesHeld, SesToken
      <3>2. CASE token.who = who
        BY <1>1, <1>2, <3>1, <3>2 DEF Session!Valid
      <3>3. CASE token.who # who
        BY <1>1, <1>2, <1>3, <1>5, <2>2, <3>3 DEF Session!Valid
      <3> QED
        BY <3>2, <3>3
    <2> QED
      BY <2>1, <2>2
  <1> QED
    BY <1>1, <1>2, <1>4, <1>5

LEMMA SesWithoutAccount ==
  ASSUME NEW server, NEW n, SesServer(server, n), NEW who,
         NEW new, new = Session!WithoutAccount(server, who)
  PROVE  /\ SesServer(new, n) /\ new.mode = server.mode
         /\ DOMAIN new.accounts = DOMAIN server.accounts \ {who}
  <1> DEFINE f == [a \in DOMAIN server.accounts \ {who} |-> server.accounts[a]]
  <1>1. /\ {"mode", "cloud", "accounts"} \subseteq DOMAIN new /\ new.accounts = f /\ new.mode = server.mode
    BY DEF SesServer, Session!WithoutAccount
  <1>2. DOMAIN f = DOMAIN server.accounts \ {who} /\ \A a \in DOMAIN f : f[a] = server.accounts[a]
    OBVIOUS
  <1> HIDE DEF f
  <1> QED
    BY <1>1, <1>2 DEF SesServer

-----------------------------------------------------------------------------
(* Another server, the same page. *)
SesPage(t, s) ==
    /\ SesHas(t)
    /\ t.cookie = s.cookie /\ t.moves = s.moves /\ t.missed = s.missed /\ t.listed = s.listed
    /\ (t.authed <=> s.authed) /\ t.authMode = s.authMode /\ t.shown = s.shown
    /\ (t.card <=> s.card) /\ (t.logout <=> s.logout)
    /\ t.server.mode = s.server.mode

LEMMA SesElsewhereStep == ASSUME SesInv(st), Session!Elsewhere PROVE SesInv(st')
  <1>1. PICK who \in Admins :
            /\ DOMAIN st.server.accounts = {} \/ who \in DOMAIN st.server.accounts
            /\ st' = Session!Move([st EXCEPT !.server = Session!WithAccount(@, who, st.moves + 1)])
    BY DEF Session!Elsewhere
  <1>2. PICK new : new = Session!WithAccount(st.server, who, st.moves + 1)
    OBVIOUS
  <1>3. PICK t : t = [st EXCEPT !.server = new]
    OBVIOUS
  <1>4. st' = Session!Move(t)
    BY <1>1, <1>2, <1>3
  <1>0. SesHas(st) /\ SesShape(st)
    BY DEF SesInv, SesShape
  <1>5. /\ SesHas(t) /\ t.server = new /\ t.net = st.net
        /\ t.cookie = st.cookie /\ t.moves = st.moves /\ t.missed = st.missed /\ t.listed = st.listed
        /\ (t.authed <=> st.authed) /\ t.authMode = st.authMode /\ t.shown = st.shown
        /\ (t.card <=> st.card) /\ (t.logout <=> st.logout)
    BY <1>0, <1>3 DEF SesHas, SesFields
  <1>6. SesLike(st', t) /\ st'.moves = t.moves + 1
    BY <1>4, <1>5, SesMoves
  <1>7. SesShape(st') /\ st'.missed = st.missed
    BY <1>0, <1>5, <1>6 DEF SesShape, SesLike
  <1>8. ASSUME ~st.missed PROVE SesTrue(t)
    <2>0. SesTrue(st) /\ SesCore(st) /\ st.moves \in Nat
      BY <1>8 DEF SesInv, SesTrue, SesCore
    <2>1. SesServer(st.server, st.moves + 1)
      BY <2>0 DEF SesCore
    <2>2. /\ SesServer(new, st.moves + 1) /\ new.mode = st.server.mode
          /\ DOMAIN new.accounts = DOMAIN st.server.accounts \union {who}
          /\ \A token : \A old \in Nat : /\ SesHeld(token, old) /\ old < st.moves + 1 /\ ~Session!Valid(st.server, token)
                                         => ~Session!Valid(new, token)
      BY <1>2, <2>0, <2>1, SesWithAccount
    <2>3. /\ SesHeld(st.cookie, st.moves) /\ ~Session!Valid(st.server, st.cookie) => ~Session!Valid(new, t.cookie)
      BY <1>5, <2>0, <2>2
    <2>4. DOMAIN st.server.accounts # {} => DOMAIN new.accounts = DOMAIN st.server.accounts
      BY <1>1, <2>2
    <2>5. ASSUME NEW m \in t.net PROVE SesMsg(m, t.server, t.moves + 1)
      <3>1. SesMsg(m, st.server, st.moves + 1)
        BY <1>5, <2>0, <2>5 DEF SesCore
      <3> QED
        BY <1>5, <2>2, <2>4, <3>1 DEF SesMsg
    <2>6. SesCore(t)
      BY <1>5, <2>0, <2>2, <2>5 DEF SesCore
    <2>7. SesListed(t)
      BY <1>5, <2>0, <2>4 DEF SesTrue, SesCore, SesListed
    <2>8. CASE SesIn(st)
      <3>1. SesInLook(t)
        BY <1>5, <2>2, <2>8 DEF SesIn, SesInLook
      <3> QED
        BY <1>5, <2>6, <2>7, <2>8, <3>1 DEF SesIn, SesTrue
    <2>9. CASE SesOut(st)
      <3>1. SesOutLook(t)
        BY <1>5, <2>2, <2>9 DEF SesOut, SesOutLook
      <3> QED
        BY <1>5, <2>6, <2>7, <2>9, <3>1 DEF SesOut, SesTrue
    <2>10. CASE SesGuest(st)
      <3>1. SesGuestLook(t)
        BY <1>5, <2>2, <2>3, <2>10 DEF SesGuest, SesGuestLook
      <3> QED
        BY <1>5, <2>6, <2>7, <2>10, <3>1 DEF SesGuest, SesTrue
    <2>11. CASE SesFresh(st)
      <3>1. PICK m : st.net = {m} /\ SesBootKind(st, m)
        BY <2>11 DEF SesFresh
      <3>2. SesBootKind(t, m)
        BY <1>5, <2>2, <2>3, <2>11, <3>1 DEF SesBootKind, SesFresh
      <3> QED
        BY <1>5, <2>6, <2>7, <2>11, <3>1, <3>2 DEF SesFresh, SesTrue
    <2> QED
      BY <2>0, <2>8, <2>9, <2>10, <2>11 DEF SesTrue
  <1> QED
    BY <1>5, <1>6, <1>7, <1>8, SesTrueLater DEF SesInv

-----------------------------------------------------------------------------
(* What the server answers, and what it keeps. *)
SesOutcome(o, m, server, key) ==
    /\ \/ o.server = server
       \/ /\ m.what = "setup" /\ DOMAIN server.accounts = {} /\ o.server = Session!WithAccount(server, m.arg, key)
       \/ m.what = "create" /\ o.out = "ok" /\ o.server = Session!WithAccount(server, m.arg, key)
       \/ /\ m.what = "password" /\ m.arg \in DOMAIN server.accounts
          /\ o.server = Session!WithAccount(server, m.arg, key)
       \/ /\ m.what = "remove" /\ o.out = "ok" /\ m.arg \in DOMAIN server.accounts
          /\ DOMAIN server.accounts # {m.arg} /\ o.server = Session!WithoutAccount(server, m.arg)
    /\ m.what \in {"mode", "status", "end"} => o.out = "ok"
    /\ m.what = "mode" => o.data.mode = server.mode
    /\ m.what \in {"login", "redeem"} /\ o.out = "ok" =>
         \E a \in DOMAIN server.accounts : o.data = Session!Token(server, a)
    /\ m.what \in {"refresh", "accounts", "probe"} /\ o.out = "ok" => Session!Valid(server, m.token)
    /\ m.what = "probe" /\ o.out # "ok" => ~Session!Valid(server, m.token)
    /\ m.what = "refresh" /\ o.out = "ok" => o.data = m.token
    /\ m.what = "accounts" /\ o.out = "ok" => o.data = DOMAIN server.accounts
    /\ m.what = "setup" /\ o.out = "denied" => SetupToken

LEMMA SesOutcomes ==
  ASSUME NEW m, m.what \in SesWhats, NEW server, NEW key, NEW o \in Session!Outcomes(m, server, key)
  PROVE  SesOutcome(o, m, server, key)
  <1>1. CASE m.what = "mode"
    <2>1. o = Session!Reply("ok", [mode |-> server.mode, cloud |-> server.cloud], server)
      BY <1>1 DEF Session!Outcomes
    <2> QED
      BY <1>1, <2>1 DEF SesOutcome, Session!Reply
  <1>2. CASE m.what = "status"
    <2>1. \E data : o = Session!Reply("ok", data, server)
      BY <1>2 DEF Session!Outcomes
    <2> QED
      BY <1>2, <2>1 DEF SesOutcome, Session!Reply
  <1>3. CASE m.what = "end"
    <2>1. \E data : o = Session!Reply("ok", data, server)
      BY <1>3 DEF Session!Outcomes
    <2> QED
      BY <1>3, <2>1 DEF SesOutcome, Session!Reply
  <1>4. CASE m.what = "setup"
    <2>1. \/ SetupToken /\ o = Session!Reply("denied", None, server)
          \/ o = Session!Reply("bad", None, server)
          \/ /\ DOMAIN server.accounts = {}
             /\ o = Session!Reply("ok", None, Session!WithAccount(server, m.arg, key))
      BY <1>4 DEF Session!Outcomes
    <2> QED
      BY <1>4, <2>1 DEF SesOutcome, Session!Reply
  <1>5. CASE m.what = "login"
    <2>1. \/ o = Session!Reply("bad", None, server)
          \/ \E a \in DOMAIN server.accounts : o = Session!Reply("ok", Session!Token(server, a), server)
      BY <1>5 DEF Session!Outcomes
    <2> QED
      BY <1>5, <2>1 DEF SesOutcome, Session!Reply
  <1>6. CASE m.what = "redeem"
    <2>1. \/ o = Session!Reply("bad", None, server)
          \/ \E a \in DOMAIN server.accounts : o = Session!Reply("ok", Session!Token(server, a), server)
      BY <1>6 DEF Session!Outcomes
    <2> QED
      BY <1>6, <2>1 DEF SesOutcome, Session!Reply
  <1>7. CASE m.what \in {"probe", "data", "refresh", "accounts", "create", "password", "remove"}
    <2>1. CASE ~Session!Valid(server, m.token)
      <3>1. o = Session!Reply("denied", None, server)
        BY <1>7, <2>1 DEF Session!Outcomes
      <3> QED
        BY <1>7, <2>1, <3>1 DEF SesOutcome, Session!Reply
    <2>2. CASE Session!Valid(server, m.token)
      <3>1. CASE m.what \in {"probe", "data"}
        <4>1. o = Session!Reply("ok", None, server)
          BY <2>2, <3>1 DEF Session!Outcomes
        <4> QED
          BY <2>2, <3>1, <4>1 DEF SesOutcome, Session!Reply
      <3>2. CASE m.what = "refresh"
        <4>1. o = Session!Reply("ok", m.token, server)
          BY <2>2, <3>2 DEF Session!Outcomes
        <4> QED
          BY <2>2, <3>2, <4>1 DEF SesOutcome, Session!Reply
      <3>3. CASE m.what = "accounts"
        <4>1. o = Session!Reply("ok", DOMAIN server.accounts, server)
          BY <2>2, <3>3 DEF Session!Outcomes
        <4> QED
          BY <2>2, <3>3, <4>1 DEF SesOutcome, Session!Reply
      <3>4. CASE m.what = "create"
        <4>1. \/ o = Session!Reply("bad", None, server)
              \/ o = Session!Reply("ok", None, Session!WithAccount(server, m.arg, key))
          BY <2>2, <3>4 DEF Session!Outcomes
        <4> QED
          BY <2>2, <3>4, <4>1 DEF SesOutcome, Session!Reply
      <3>5. CASE m.what = "password"
        <4>1. \/ o = Session!Reply("bad", None, server)
              \/ /\ m.arg \in DOMAIN server.accounts
                 /\ o = Session!Reply("ok", None, Session!WithAccount(server, m.arg, key))
          BY <2>2, <3>5 DEF Session!Outcomes
        <4> QED
          BY <2>2, <3>5, <4>1 DEF SesOutcome, Session!Reply
      <3>6. CASE m.what = "remove"
        <4>1. \/ o = Session!Reply("bad", None, server)
              \/ /\ m.arg \in DOMAIN server.accounts /\ DOMAIN server.accounts # {m.arg}
                 /\ o = Session!Reply("ok", None, Session!WithoutAccount(server, m.arg))
          BY <2>2, <3>6 DEF Session!Outcomes
        <4> QED
          BY <2>2, <3>6, <4>1 DEF SesOutcome, Session!Reply
      <3> QED
        BY <1>7, <3>1, <3>2, <3>3, <3>4, <3>5, <3>6
    <2> QED
      BY <2>1, <2>2
  <1> QED
    BY <1>1, <1>2, <1>3, <1>4, <1>5, <1>6, <1>7 DEF SesWhats

LEMMA SesServed ==
  ASSUME NEW m, SesAsked(m), NEW out, NEW data, NEW k, k = [m EXCEPT !.out = out, !.data = data]
  PROVE  /\ SesAsked(k) /\ k.out = out /\ k.data = data
         /\ k.what = m.what /\ k.arg = m.arg /\ k.then = m.then /\ k.token = m.token
  BY DEF SesAsked

(* The server that answers is the page's as long as nothing else is under way. *)
LEMMA SesAlone ==
  ASSUME NEW s, SesTrue(s), NEW m \in s.net, m.what \in {"setup", "create", "password", "remove"}
  PROVE  s.net = {m} /\ (SesIn(s) \/ SesGuest(s)) /\ (m.what = "setup" => SesGuest(s))
  <1>1. ~SesFresh(s)
    BY DEF SesFresh, SesBootKind
  <1>2. ~SesOut(s)
    BY DEF SesOut, SesInKind
  <1>3. CASE SesIn(s)
    <2>1. s.net = {m} /\ m.what # "setup"
      BY <1>3 DEF SesIn, SesInKind
    <2> QED
      BY <1>3, <2>1
  <1>4. CASE SesGuest(s)
    BY <1>4 DEF SesGuest
  <1> QED
    BY <1>1, <1>2, <1>3, <1>4 DEF SesTrue

LEMMA SesNewServer ==
  ASSUME NEW s, SesTrue(s), NEW m \in s.net, NEW o, SesOutcome(o, m, s.server, s.moves + 1)
  PROVE  /\ SesServer(o.server, s.moves + 1) /\ o.server.mode = s.server.mode
         /\ DOMAIN s.server.accounts # {} => DOMAIN o.server.accounts # {}
         /\ SesGuestLook(s) => ~Session!Valid(o.server, s.cookie)
         /\ o.server # s.server => m.what \in {"setup", "create", "password", "remove"}
         /\ DOMAIN o.server.accounts = DOMAIN s.server.accounts \/ s.listed = None
              \/ (m.what \in {"create", "remove"} /\ o.out = "ok")
  <1>0. /\ SesServer(s.server, s.moves + 1) /\ s.moves \in Nat /\ SesMsg(m, s.server, s.moves + 1)
        /\ s.listed # None => DOMAIN s.server.accounts # {}
    BY DEF SesTrue, SesCore
  <1>1. CASE o.server = s.server
    BY <1>0, <1>1 DEF SesGuestLook
  <1>2. ASSUME m.arg \in Admins, o.server = Session!WithAccount(s.server, m.arg, s.moves + 1)
        PROVE  /\ SesServer(o.server, s.moves + 1) /\ o.server.mode = s.server.mode
               /\ DOMAIN o.server.accounts = DOMAIN s.server.accounts \union {m.arg}
               /\ SesGuestLook(s) => ~Session!Valid(o.server, s.cookie)
    <2>1. /\ SesServer(o.server, s.moves + 1) /\ o.server.mode = s.server.mode
          /\ DOMAIN o.server.accounts = DOMAIN s.server.accounts \union {m.arg}
          /\ \A token : \A old \in Nat :
                /\ SesHeld(token, old) /\ old < s.moves + 1 /\ ~Session!Valid(s.server, token)
                => ~Session!Valid(o.server, token)
      BY <1>0, <1>2, SesWithAccount
    <2>2. SesGuestLook(s) => ~Session!Valid(o.server, s.cookie)
      BY <1>0, <2>1 DEF SesGuestLook
    <2> QED
      BY <2>1, <2>2
  <1>3. CASE /\ m.what = "setup" /\ DOMAIN s.server.accounts = {}
             /\ o.server = Session!WithAccount(s.server, m.arg, s.moves + 1)
    BY <1>0, <1>2, <1>3 DEF SesMsg
  <1>4. CASE m.what = "create" /\ o.out = "ok" /\ o.server = Session!WithAccount(s.server, m.arg, s.moves + 1)
    BY <1>0, <1>2, <1>4 DEF SesMsg
  <1>5. CASE /\ m.what = "password" /\ m.arg \in DOMAIN s.server.accounts
             /\ o.server = Session!WithAccount(s.server, m.arg, s.moves + 1)
    <2>1. m.arg \in Admins /\ DOMAIN s.server.accounts \union {m.arg} = DOMAIN s.server.accounts
      BY <1>0, <1>5 DEF SesServer
    <2> QED
      BY <1>2, <1>5, <2>1
  <1>6. CASE /\ m.what = "remove" /\ o.out = "ok" /\ m.arg \in DOMAIN s.server.accounts
             /\ DOMAIN s.server.accounts # {m.arg} /\ o.server = Session!WithoutAccount(s.server, m.arg)
    <2>1. /\ SesServer(o.server, s.moves + 1) /\ o.server.mode = s.server.mode
          /\ DOMAIN o.server.accounts = DOMAIN s.server.accounts \ {m.arg}
      BY <1>0, <1>6, SesWithoutAccount
    <2>2. ~SesGuestLook(s)
      <3>1. SesIn(s) \/ SesGuest(s)
        BY <1>6, SesAlone
      <3>2. s.net = {m} /\ ~SesGuest(s)
        BY <1>6, SesAlone DEF SesGuest
      <3> QED
        BY <3>1, <3>2 DEF SesIn, SesInLook, SesGuestLook
    <2> QED
      BY <1>6, <2>1, <2>2
  <1> QED
    BY <1>1, <1>3, <1>4, <1>5, <1>6 DEF SesOutcome

(* What the answer says is so. *)
LEMMA SesAnswerMsg ==
  ASSUME NEW m, NEW server, NEW n, SesServer(server, n), SesMsg(m, server, n), NEW key, NEW o,
         SesOutcome(o, m, server, key),
         o.server.mode = server.mode, m.what = "accounts" => o.server = server,
         NEW k, k.out = o.out, k.data = o.data, k.what = m.what, k.arg = m.arg, k.then = m.then, k.token = m.token
  PROVE  SesMsg(k, o.server, n)
  <1>1. CASE m.what \in {"login", "redeem"} /\ o.out = "ok"
    <2>1. PICK a \in DOMAIN server.accounts : o.data = Session!Token(server, a)
      BY <1>1 DEF SesOutcome
    <2>2. o.data \in SesToken /\ o.data.key <= n
      BY <2>1 DEF SesServer, SesToken, Session!Token
    <2> QED
      BY <1>1, <2>2 DEF SesMsg
  <1>2. CASE m.what = "refresh" /\ o.out = "ok"
    <2>1. m.token # None /\ o.data = m.token
      BY <1>2 DEF SesOutcome, Session!Valid
    <2>2. o.data \in SesToken /\ o.data.key <= n
      BY <2>1 DEF SesMsg, SesHeld
    <2> QED
      BY <1>2, <2>2 DEF SesMsg
  <1>3. CASE m.what = "accounts" /\ o.out = "ok"
    <2>1. DOMAIN server.accounts # {} /\ o.data = DOMAIN server.accounts
      BY <1>3 DEF SesOutcome, Session!Valid
    <2> QED
      BY <1>3, <2>1 DEF SesMsg
  <1>4. CASE ~(m.what \in {"login", "redeem", "refresh", "accounts"} /\ o.out = "ok")
    BY <1>4 DEF SesMsg, SesOutcome
  <1> QED
    BY <1>1, <1>2, <1>3, <1>4

LEMMA SesServeTrue ==
  ASSUME NEW s, SesShape(s), SesTrue(s), NEW m \in s.net, m.out = None, NEW o, SesOutcome(o, m, s.server, s.moves + 1),
         NEW k, SesAsked(k), k.out = o.out, k.data = o.data,
         k.what = m.what, k.arg = m.arg, k.then = m.then, k.token = m.token,
         NEW t, SesPage(t, s), t.server = o.server, t.net = (s.net \ {m}) \union {k}
  PROVE  SesTrue(t)
  <1>0. SesCore(s) /\ s.moves \in Nat
    BY DEF SesTrue, SesCore
  <1>1. /\ SesServer(o.server, s.moves + 1) /\ o.server.mode = s.server.mode
        /\ DOMAIN s.server.accounts # {} => DOMAIN o.server.accounts # {}
        /\ SesGuestLook(s) => ~Session!Valid(o.server, s.cookie)
        /\ o.server # s.server => m.what \in {"setup", "create", "password", "remove"}
        /\ DOMAIN o.server.accounts = DOMAIN s.server.accounts \/ s.listed = None
              \/ (m.what \in {"create", "remove"} /\ o.out = "ok")
    BY SesNewServer
  <1>2. ASSUME NEW j \in t.net PROVE SesMsg(j, t.server, t.moves + 1)
    <2>1. CASE j = k
      <3>1. SesMsg(m, s.server, s.moves + 1) /\ SesServer(s.server, s.moves + 1)
        BY <1>0 DEF SesCore
      <3>2. m.what = "accounts" => o.server = s.server
        BY <1>1
      <3>3. SesMsg(k, o.server, s.moves + 1)
        BY <1>1, <3>1, <3>2, SesAnswerMsg
      <3> QED
        BY <2>1, <3>3 DEF SesPage
    <2>2. CASE j # k
      <3>1. j \in s.net /\ j # m
        BY <2>2
      <3>2. o.server = s.server
        BY <1>1, <3>1, SesAlone
      <3> QED
        BY <1>0, <3>1, <3>2 DEF SesCore, SesPage
    <2> QED
      BY <2>1, <2>2
  <1>3. SesCore(t)
    BY <1>0, <1>1, <1>2 DEF SesCore, SesPage
  <1>4. SesListed(t)
    <2>1. t.listed = s.listed
      BY DEF SesPage
    <2>2. CASE m.what \in {"create", "remove"} /\ o.out = "ok"
      BY <2>2 DEF SesListed
    <2>3. CASE s.listed = None
      BY <2>1, <2>3 DEF SesListed
    <2>4. CASE /\ DOMAIN o.server.accounts = DOMAIN s.server.accounts
               /\ s.listed = DOMAIN s.server.accounts
      BY <2>1, <2>4 DEF SesListed
    <2>5. CASE \E j \in s.net : j.what = "accounts" \/ (j.what \in {"create", "remove"} /\ j.out = "ok")
      <3>1. PICK j \in s.net : j.what = "accounts" \/ (j.what \in {"create", "remove"} /\ j.out = "ok")
        BY <2>5
      <3>2. CASE j = m
        <4>1. k.what = "accounts"
          BY <3>1, <3>2, SesNone
        <4> QED
          BY <4>1 DEF SesListed
      <3>3. CASE j # m
        <4>1. j \in t.net
          BY <3>3
        <4> QED
          BY <3>1, <4>1 DEF SesListed
      <3> QED
        BY <3>2, <3>3
    <2> QED
      BY <1>1, <2>2, <2>3, <2>4, <2>5 DEF SesTrue, SesListed
  <1>5. SesInKind(m) => SesInKind(k)
    BY DEF SesInKind
  <1>6. CASE SesIn(s)
    <2>1. SesInLook(t)
      BY <1>6 DEF SesIn, SesInLook, SesPage
    <2>2. CASE \A j \in s.net : SesInKind(j)
      BY <1>3, <1>4, <1>5, <2>1, <2>2 DEF SesIn, SesTrue
    <2>3. CASE \E j : s.net = {j} /\ j.what \in {"create", "password", "remove", "refresh"}
      <3>1. t.net = {k} /\ k.what \in {"create", "password", "remove", "refresh"}
        BY <2>3
      <3> QED
        BY <1>3, <1>4, <2>1, <3>1 DEF SesIn, SesTrue
    <2> QED
      BY <1>6, <2>2, <2>3 DEF SesIn
  <1>7. CASE SesOut(s)
    <2>1. SesOutLook(t)
      BY <1>7 DEF SesOut, SesOutLook, SesPage
    <2>2. \A j \in t.net : SesInKind(j) \/ j.what = "end"
      BY <1>5, <1>7 DEF SesOut
    <2>3. t.authMode = "sso" \/ t.cookie = None \/ \E j \in t.net : j.what = "end"
      BY <1>7 DEF SesOut, SesPage
    <2> QED
      BY <1>3, <1>4, <2>1, <2>2, <2>3 DEF SesOut, SesTrue
  <1>8. CASE SesGuest(s)
    <2>1. SesGuestLook(t)
      BY <1>1, <1>8 DEF SesGuest, SesGuestLook, SesPage
    <2>2. t.net = {k} /\ k.what \in {"status", "login", "setup"}
      BY <1>8 DEF SesGuest
    <2> QED
      BY <1>3, <1>4, <2>1, <2>2 DEF SesGuest, SesTrue
  <1>9. CASE SesFresh(s)
    <2>1. s.net = {m} /\ SesBootKind(s, m)
      BY <1>9 DEF SesFresh
    <2>2. t.net = {k} /\ t.server = s.server
      BY <1>1, <2>1 DEF SesBootKind
    <2>3. SesBootKind(t, k)
      <3>1. CASE m.what = "probe"
        <4>1. m.token = s.cookie /\ (s.authMode = None \/ (s.authMode = s.server.mode /\ s.authMode # "sso"))
          BY <2>1, <3>1 DEF SesBootKind
        <4>2. o.out = "ok" => s.cookie # None
          BY <3>1, <4>1 DEF SesOutcome, Session!Valid
        <4>3. o.out # "ok" => ~Session!Valid(s.server, s.cookie)
          BY <3>1, <4>1 DEF SesOutcome
        <4> QED
          BY <2>2, <3>1, <4>1, <4>2, <4>3 DEF SesBootKind, SesPage
      <3>2. CASE m.what # "probe"
        BY <2>1, <2>2, <3>2 DEF SesBootKind, SesPage
      <3> QED
        BY <3>1, <3>2
    <2> QED
      BY <1>3, <1>4, <1>9, <2>2, <2>3 DEF SesFresh, SesTrue, SesPage
  <1> QED
    BY <1>6, <1>7, <1>8, <1>9 DEF SesTrue

LEMMA SesServeStep == ASSUME SesInv(st), Session!Serve PROVE SesInv(st')
  <1>1. PICK m \in st.net :
            /\ m.out = None
            /\ \E o \in Session!Outcomes(m, st.server, st.moves + 1) :
                 st' = [st EXCEPT !.server = o.server,
                                  !.ticket = IF m.what = "redeem" THEN "used" ELSE @,
                                  !.net = (@ \ {m}) \union {[m EXCEPT !.out = o.out, !.data = o.data]}]
    BY DEF Session!Serve
  <1>2. PICK o \in Session!Outcomes(m, st.server, st.moves + 1) :
            st' = [st EXCEPT !.server = o.server,
                             !.ticket = IF m.what = "redeem" THEN "used" ELSE @,
                             !.net = (@ \ {m}) \union {[m EXCEPT !.out = o.out, !.data = o.data]}]
    BY <1>1
  <1>3. PICK k : k = [m EXCEPT !.out = o.out, !.data = o.data]
    OBVIOUS
  <1>0. SesHas(st) /\ SesShape(st) /\ SesAsked(m)
    BY DEF SesInv, SesShape
  <1>4. /\ SesAsked(k) /\ k.out = o.out /\ k.data = o.data
        /\ k.what = m.what /\ k.arg = m.arg /\ k.then = m.then /\ k.token = m.token
    BY <1>0, <1>3 DEF SesAsked
  <1>5. PICK ticket : st' = [st EXCEPT !.server = o.server, !.ticket = ticket, !.net = (@ \ {m}) \union {k}]
    BY <1>2, <1>3
  <1>6. /\ SesHas(st') /\ st'.server = o.server /\ st'.net = (st.net \ {m}) \union {k}
        /\ st'.cookie = st.cookie /\ st'.moves = st.moves /\ st'.missed = st.missed /\ st'.listed = st.listed
        /\ (st'.authed <=> st.authed) /\ st'.authMode = st.authMode /\ st'.shown = st.shown
        /\ (st'.card <=> st.card) /\ (st'.logout <=> st.logout)
    BY <1>0, <1>5 DEF SesHas, SesFields
  <1>7. SesShape(st')
    BY <1>0, <1>4, <1>6 DEF SesShape
  <1>8. ASSUME ~st.missed PROVE SesTrue(st')
    <2>1. SesTrue(st)
      BY <1>8 DEF SesInv
    <2>2. SesOutcome(o, m, st.server, st.moves + 1)
      BY <1>0, SesOutcomes DEF SesAsked
    <2>3. o.server.mode = st.server.mode
      BY <2>1, <2>2, SesNewServer
    <2>4. SesPage(st', st)
      BY <1>6, <2>3 DEF SesPage
    <2>5. PICK t : t = st'
      OBVIOUS
    <2>6. SesTrue(t)
      BY <1>0, <1>1, <1>4, <1>6, <2>1, <2>2, <2>4, <2>5, SesServeTrue
    <2> QED
      BY <2>5, <2>6
  <1> QED
    BY <1>6, <1>7, <1>8 DEF SesInv

LEMMA SesAnswerStep == ASSUME SesInv(st), Session!Answer PROVE SesInv(st')
  <1>1. PICK m \in st.net :
            m.out # None /\ st' = Session!Answered(Session!Kept([st EXCEPT !.net = @ \ {m}], m), m)
    BY DEF Session!Answer
  <1>2. PICK u : u = Session!Kept([st EXCEPT !.net = @ \ {m}], m)
    OBVIOUS
  <1>3. PICK t : t = Session!Answered(u, m)
    OBVIOUS
  <1>4. st' = t
    BY <1>1, <1>2, <1>3
  <1>0. SesHas(st) /\ SesShape(st) /\ SesAsked(m)
    BY DEF SesInv, SesShape
  <1>5. SesTaken(u, st, m)
    BY <1>0, <1>2, SesTakes
  <1>6. SesShape(u) /\ u.missed = st.missed
    BY <1>0, <1>5 DEF SesShape, SesTaken
  <1>7. SesShape(t) /\ t.missed = st.missed
    BY <1>0, <1>3, <1>6, SesAnswersShape
  <1>8. ASSUME ~st.missed PROVE SesTrue(t)
    <2>1. SesTrue(st)
      BY <1>8 DEF SesInv
    <2>2. CASE SesIn(st) \/ SesOut(st)
      BY <1>0, <1>1, <1>3, <1>5, <2>1, <2>2, SesRunsAnswer
    <2>3. CASE SesGuest(st)
      BY <1>1, <1>3, <1>5, <2>1, <2>3, SesGuestAnswer
    <2>4. CASE SesFresh(st)
      BY <1>0, <1>1, <1>3, <1>5, <2>1, <2>4, SesFreshAnswer
    <2> QED
      BY <2>1, <2>2, <2>3, <2>4 DEF SesTrue
  <1> QED
    BY <1>4, <1>7, <1>8 DEF SesInv

LEMMA SesLostStep == ASSUME SesInv(st), Session!Lost PROVE SesInv(st')
  <1>1. PICK m \in st.net :
            st' = Session!Move(Session!Answered([st EXCEPT !.net = @ \ {m}, !.missed = TRUE], [m EXCEPT !.out = "lost"]))
    BY DEF Session!Lost
  <1>2. PICK u : u = [st EXCEPT !.net = @ \ {m}, !.missed = TRUE]
    OBVIOUS
  <1>3. PICK k : k = [m EXCEPT !.out = "lost"]
    OBVIOUS
  <1>4. PICK t : t = Session!Answered(u, k)
    OBVIOUS
  <1>5. st' = Session!Move(t)
    BY <1>1, <1>2, <1>3, <1>4
  <1>0. SesHas(st) /\ SesShape(st) /\ SesAsked(m)
    BY DEF SesInv, SesShape
  <1>6. SesAsked(k)
    BY <1>0, <1>3 DEF SesAsked
  <1>7. SesHas(u) /\ u.net = st.net \ {m} /\ u.missed
    BY <1>0, <1>2 DEF SesHas, SesFields
  <1>8. SesShape(u)
    BY <1>0, <1>7 DEF SesShape
  <1>9. SesShape(t) /\ t.missed = u.missed
    BY <1>4, <1>6, <1>8, SesAnswersShape
  <1>10. SesLike(st', t)
    BY <1>5, <1>9, SesMoves DEF SesShape
  <1> QED
    BY <1>7, <1>9, <1>10 DEF SesInv, SesShape, SesLike

LEMMA SesReloadStep == ASSUME SesInv(st), Session!Reload PROVE SesInv(st')
  BY SesReloads DEF Session!Reload

-----------------------------------------------------------------------------
LEMMA SesInit == ASSUME Session!Init PROVE SesInv(st)
  <1> DEFINE msg == ""
             Start(server, cookie) ==
               [server |-> server, cookie |-> cookie, moves |-> 0,
                missed |-> FALSE, authed |-> FALSE, authMode |-> None, cloudUrl |-> FALSE, shown |-> {}, card |-> TRUE,
                logout |-> FALSE, loginError |-> msg, ssoError |-> msg, listed |-> None, left |-> FALSE,
                ticket |-> None, net |-> {}]
             Server(mode, cloud, there) ==
               [mode |-> mode, cloud |-> cloud /\ mode = "sso", accounts |-> [a \in there |-> 0]]
  <1>1. PICK mode \in Modes, cloud \in BOOLEAN, there \in SUBSET Admins, who \in Admins \union {None} :
           st = Session!normalBoot(Session!FreshPage(
                  Start(Server(mode, cloud, there),
                        IF who \in there THEN Session!Token(Server(mode, cloud, there), who) ELSE None), None))
    BY DEF Session!Init
  <1> HIDE DEF msg
  <1>2. PICK server : server = Server(mode, cloud, there)
    OBVIOUS
  <1>3. PICK cookie : cookie = IF who \in there THEN Session!Token(server, who) ELSE None
    OBVIOUS
  <1>4. PICK s : s = Start(server, cookie)
    OBVIOUS
  <1>5. SesHas(s) /\ s.server = server /\ s.cookie = cookie /\ s.moves = 0 /\ ~s.missed
    BY <1>4 DEF SesHas, SesFields
  <1>6. st = Session!normalBoot(Session!FreshPage(s, None))
    BY <1>1, <1>2, <1>3, <1>4
  <1> HIDE DEF Start
  <1>7. PICK f : f = Session!FreshPage(s, None)
    OBVIOUS
  <1>8. /\ SesHas(f) /\ f.server = s.server /\ f.cookie = s.cookie /\ f.moves = s.moves /\ f.missed = s.missed
        /\ f.listed = None /\ f.net = {} /\ ~f.authed /\ ~f.logout /\ f.authMode = None /\ f.shown = {"login"}
    BY <1>5, <1>7, SesFreshPage
  <1>9. /\ SesReacts(st, f) /\ SesListed(st)
        /\ ~st.authed /\ ~st.logout /\ st.shown = {"login"} /\ \E m : st.net = {m} /\ SesBootKind(st, m)
    BY <1>6, <1>7, <1>8, SesNormalBoot
  <1>10. SesShape(st)
    BY <1>8, <1>9, SesShapes DEF SesShape
  <1>11. SesServer(server, 0)
    BY <1>2 DEF SesServer
  <1>12. SesHeld(cookie, 0)
    BY <1>2, <1>3 DEF SesHeld, SesToken, Session!Token
  <1>13. SesServer(f.server, f.moves + 1) /\ SesHeld(f.cookie, f.moves + 1)
    BY <1>5, <1>8, <1>11, <1>12 DEF SesServer, SesHeld, SesToken
  <1>14. SesCore(f)
    BY <1>5, <1>8, <1>13, SesLoaded
  <1>15. SesCore(st)
    BY <1>9, <1>14, SesCores
  <1>16. SesHeld(st.cookie, st.moves)
    BY <1>5, <1>8, <1>9, <1>12 DEF SesReacts, SesGrows
  <1>17. SesTrue(st)
    BY <1>9, <1>15, <1>16 DEF SesTrue, SesFresh
  <1> QED
    BY <1>10, <1>17 DEF SesInv

LEMMA SesStep == ASSUME SesInv(st), Session!Next PROVE SesInv(st')
  BY SesReloadStep, SesLoginStep, SesSetupStep, SesLogoutStep, SesSettingsStep, SesUseStep, SesRefreshStep,
     SesElsewhereStep, SesServeStep, SesAnswerStep, SesLostStep
  DEF Session!Next

LEMMA SesHolds == ASSUME SesInv(st) PROVE (~SetupToken => Session!OneSurface) /\ Session!SessionTrue
  <1> SUFFICES ASSUME Session!AtRest(st)
               PROVE  /\ ~SetupToken =>
                           /\ \E surface \in st.shown : st.shown = {surface}
                           /\ "admin" \in st.shown <=> st.authed
                           /\ st.logout <=> st.authed
                           /\ st.server.mode = "sso" /\ ~st.authed => st.shown = {"sso"}
                           /\ Session!isSsoMode(st) => ~st.card
                      /\ st.authed => st.cookie # None
                      /\ ~st.authed /\ st.server.mode = "standard" => ~Session!Valid(st.server, st.cookie)
                      /\ st.authed /\ st.listed # None => st.listed = DOMAIN st.server.accounts
    BY DEF Session!OneSurface, Session!SessionTrue
  <1>1. st.net = {} /\ SesTrue(st)
    BY DEF Session!AtRest, SesInv
  <1>2. st.listed # None => st.listed = DOMAIN st.server.accounts
    BY <1>1 DEF SesTrue, SesListed
  <1>3. CASE SesIn(st)
    BY <1>2, <1>3 DEF SesIn, SesInLook, Session!isSsoMode
  <1>4. CASE SesOut(st)
    BY <1>1, <1>2, <1>4 DEF SesOut, SesOutLook, SesForm, Session!isSsoMode, Session!Valid
  <1>5. CASE SesGuest(st)
    BY <1>2, <1>5 DEF SesGuest, SesGuestLook, SesForm, Session!isSsoMode
  <1>6. ~SesFresh(st)
    BY <1>1 DEF SesFresh
  <1> QED
    BY <1>1, <1>3, <1>4, <1>5, <1>6 DEF SesTrue

(* However its requests are answered, and whatever other browsers do to    *)
(* the accounts meanwhile, a page at rest shows one surface, the one for   *)
(* who is signed in, and lists the accounts there are: SessionSettles, for *)
(* any accounts, modes of the server and number of moves.                  *)
THEOREM SessionIsTrue == Spec => []SessionSettles
  <1> DEFINE Inv == panel = "session" => SesInv(st)
  <1>1. Init => Inv
    BY SesInit DEF Init, InitPanel
  <1>2. Inv /\ [Next]_<<panel, st, accountVars>> => Inv'
    <2> SUFFICES ASSUME Inv, [Next]_<<panel, st, accountVars>> PROVE Inv'
      OBVIOUS
    <2>1. panel' = panel
      BY DEF Next
    <2>2. CASE st' = st
      BY <2>1, <2>2
    <2>3. CASE NextPanel
      BY <2>1, <2>3, SesStep DEF NextPanel
    <2> QED
      BY <2>2, <2>3 DEF Next
  <1>3. Inv => SessionSettles
    BY SesHolds DEF SessionSettles
  <1> QED
    BY <1>1, <1>2, <1>3, PTL DEF Spec
=============================================================================
