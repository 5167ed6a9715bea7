---------------------------- MODULE AdminSession ----------------------------
(***************************************************************************)
(* Who is signed in, and which of the page's four surfaces is shown: the   *)
(* login form, the first-run setup, the admin shell, or the notice that    *)
(* the server is managed by the cloud dashboard (auth.js, account.js, and  *)
(* the boot of boot.js).                                                   *)
(*                                                                         *)
(* The session is a cookie the page cannot read: the page learns of it by  *)
(* asking, and keeps two things of its own, whether it believes to be      *)
(* signed in and the mode of the server once that has been answered.       *)
(* Requests carry the cookie there was when they were sent; an answer may  *)
(* set or clear it.  Requests are served and answered in any order.  Equal *)
(* requests under way at once are one here.                                *)
(***************************************************************************)
EXTENDS Naturals, FiniteSets

CONSTANTS
    Accounts,    \* admins there may be
    Modes,       \* modes the server may run in: "standard", "sso"
    SetupToken,  \* TRUE: the first-run setup wants a token, which this page never sends
    Patient,     \* TRUE: the admin clicks only when nothing is under way
    None,
    MaxMoves     \* bound: clicks, reloads, changes made elsewhere and lost answers

VARIABLE session

(* A token names its account and the key it was signed with, which a new   *)
(* password replaces.                                                      *)
Valid(server, token) ==
    token # None /\ token.who \in DOMAIN server.accounts /\ server.accounts[token.who] = token.key

Token(server, who) == [who |-> who, key |-> server.accounts[who]]

Send(s, what, arg, then) ==
    [s EXCEPT !.net = @ \union {[what |-> what, arg |-> arg, then |-> then, token |-> s.cookie,
                                 out |-> None, data |-> None]}]

-----------------------------------------------------------------------------
(* The surfaces. *)

showLoginError(s, msg) == [s EXCEPT !.loginError = msg]

isSsoMode(s) == s.authMode = "sso"

applySsoUiGating(s) ==
    IF isSsoMode(s) THEN [s EXCEPT !.shown = @ \ {"login", "setup"}, !.card = FALSE] ELSE s

showSsoNotice(s, msg) ==
    applySsoUiGating([s EXCEPT !.shown = {"sso"}, !.logout = FALSE, !.loginError = "", !.ssoError = msg])

(* Without sso, signing out leaves the setup form as it was. *)
setLoggedIn(s, on) ==
    LET t == [s EXCEPT !.authed = on, !.logout = on]
    IN IF ~isSsoMode(s)
       THEN [t EXCEPT !.shown = IF on THEN (@ \ {"login", "setup"}) \union {"admin"}
                                ELSE (@ \ {"admin"}) \union {"login"}]
       ELSE IF on
       THEN applySsoUiGating([t EXCEPT !.shown = (@ \ {"sso"}) \union {"admin"}, !.loginError = ""])
       ELSE showSsoNotice(t, "")

isAuthed(s) == s.authed
clearToken(s) == [s EXCEPT !.authed = FALSE]

ssoLogoutHome(s) == IF isSsoMode(s) /\ s.cloudUrl THEN [s EXCEPT !.left = TRUE] ELSE s

(* The loads a fresh shell starts; for the session they are one request.   *)
refreshAll(s) == Send(s, "data", None, "data")

-----------------------------------------------------------------------------
(* First-run setup, boot, login and logout. *)

checkSetup(s) ==
    IF isSsoMode(s) THEN [s EXCEPT !.shown = @ \ {"login", "setup"}]
    ELSE IF isAuthed(s) THEN s
    ELSE Send(s, "status", None, "status")

(* A server that does not say counts as set up. *)
CheckedSetup(s, m) ==
    [s EXCEPT !.shown = (@ \ {"login", "setup"}) \union
                        {IF m.out = "ok" /\ m.data = "needed" THEN "setup" ELSE "login"}]

bootWithoutTicket(s) == Send([s EXCEPT !.shown = @ \ {"sso"}], "probe", None, "boot")

(* Mutant: signed out on the page only, the cookie stays. *)
ForgetOnly(s) == ssoLogoutHome(setLoggedIn(clearToken(s), FALSE))

(* The browser's own request: the page does not wait for it. *)
doLogout(s) == ssoLogoutHome(setLoggedIn(clearToken(Send(s, "end", None, "end")), FALSE))

(* What is done once the mode is known, by whoever asked for it. *)
Resolved(s, then, mode) ==
    CASE then = "gate"   -> IF mode = "sso" THEN applySsoUiGating(s) ELSE s
      [] then = "guest"  -> IF mode = "sso" THEN showSsoNotice(s, "") ELSE checkSetup(setLoggedIn(s, FALSE))
      [] then = "ticket" -> IF mode = "sso" THEN showSsoNotice(s, "redeem failed")
                            ELSE showLoginError(bootWithoutTicket(s), "redeem failed")
      [] then = "logout" -> doLogout(s)

getAuthMode(s, then) ==
    IF s.authMode # None THEN Resolved(s, then, s.authMode) ELSE Send(s, "mode", None, then)

(* A failure is not remembered: the next caller asks again. *)
GotAuthMode(s, m) ==
    IF m.out = "ok" THEN Resolved([s EXCEPT !.authMode = m.data.mode, !.cloudUrl = m.data.cloud], m.then, m.data.mode)
    ELSE Resolved(s, m.then, "standard")

logout(s) == getAuthMode(s, "logout")

bootAuthed(s) == getAuthMode(refreshAll(setLoggedIn(s, TRUE)), "gate")
bootLoggedOut(s) == getAuthMode(s, "guest")
Booted(s, m) == IF m.out = "ok" THEN bootAuthed(s) ELSE bootLoggedOut(s)

redeemSsoTicket(s) == Send(showLoginError(s, ""), "redeem", s.ticket, "redeem")

stripSsoParam(s) == [s EXCEPT !.ticket = None]

Redeemed(s, m) ==
    IF m.out = "ok"
    THEN stripSsoParam(refreshAll(setLoggedIn([clearToken(s) EXCEPT !.shown = @ \ {"sso"}], TRUE)))
    ELSE getAuthMode(s, "ticket")

getSsoTicket(s) == s.ticket
normalBoot(s) == IF getSsoTicket(s) # None THEN redeemSsoTicket(s) ELSE bootWithoutTicket(s)

login(s, who) == Send(showLoginError(s, ""), "login", who, "login")
LoggedIn(s, m) ==
    IF m.out = "ok" THEN refreshAll(setLoggedIn(clearToken(s), TRUE))
    ELSE showLoginError(clearToken(s), "login failed")

refreshSession(s) == Send(s, "refresh", None, "refresh")

-----------------------------------------------------------------------------
(* The accounts card.  Every request but the first kind of boot's and the  *)
(* session's own signs out when it is refused, and then goes on.           *)

Refused(s, m) == IF m.out = "denied" THEN logout(s) ELSE s

createSetup(s, who) == Send(s, "setup", who, "setup")
CreatedSetup(s, m) == IF m.out = "ok" THEN login(s, m.arg) ELSE Refused(s, m)

renderAccounts(s, listed) == [s EXCEPT !.listed = listed]
loadAccounts(s) == Send(s, "accounts", None, "accounts")
LoadedAccounts(s, m) == renderAccounts(Refused(s, m), IF m.out = "ok" THEN m.data ELSE None)

createAccount(s, who) == Send(s, "create", who, "create")
CreatedAccount(s, m) == loadAccounts(Refused(s, m))

changeAccountPassword(s, who) == Send(s, "password", who, "password")
ChangedPassword(s, m) == IF m.out = "ok" THEN loadAccounts(s) ELSE Refused(s, m)

deleteAccount(s, who) == IF Cardinality(s.listed) = 1 THEN s ELSE Send(s, "remove", who, "remove")
DeletedAccount(s, m) == IF m.out = "ok" THEN loadAccounts(s) ELSE Refused(s, m)

Answered(s, m) ==
    CASE m.what = "mode"     -> GotAuthMode(s, m)
      [] m.what = "status"   -> CheckedSetup(Refused(s, m), m)
      [] m.what = "probe"    -> Booted(s, m)
      [] m.what = "redeem"   -> Redeemed(s, m)
      [] m.what = "login"    -> LoggedIn(s, m)
      [] m.what = "setup"    -> CreatedSetup(s, m)
      [] m.what = "data"     -> Refused(s, m)
      [] m.what = "accounts" -> LoadedAccounts(s, m)
      [] m.what = "create"   -> CreatedAccount(s, m)
      [] m.what = "password" -> ChangedPassword(s, m)
      [] m.what = "remove"   -> DeletedAccount(s, m)
      [] m.what \in {"refresh", "end"} -> s

-----------------------------------------------------------------------------
(* The server.  A fresh account, or password, comes with a key of its own. *)

Reply(out, data, server) == [out |-> out, data |-> data, server |-> server]

WithAccount(server, who, key) ==
    [server EXCEPT !.accounts = [a \in DOMAIN @ \union {who} |-> IF a = who THEN key ELSE @[a]]]
WithoutAccount(server, who) == [server EXCEPT !.accounts = [a \in DOMAIN @ \ {who} |-> @[a]]]

Outcomes(m, server, key) ==
    LET there == DOMAIN server.accounts
        bad == Reply("bad", None, server)
        Ok(data) == Reply("ok", data, server)
    IN CASE m.what = "mode"    -> {Ok([mode |-> server.mode, cloud |-> server.cloud])}
         [] m.what = "status"  -> {Ok(IF there = {} THEN "needed" ELSE "done")}
         [] m.what = "end"     -> {Ok(None)}
         [] m.what = "setup"   -> {IF SetupToken THEN Reply("denied", None, server)
                                   ELSE IF there # {} THEN bad
                                   ELSE Reply("ok", None, WithAccount(server, m.arg, key))}
         [] m.what = "login"   -> {bad} \union {Ok(Token(server, a)) : a \in there \intersect {m.arg}}
         [] m.what = "redeem"  -> {bad} \union
              (IF server.mode = "sso" /\ m.arg = "fresh" THEN {Ok(Token(server, a)) : a \in there} ELSE {})
         [] OTHER ->
              IF ~Valid(server, m.token) THEN {Reply("denied", None, server)}
              ELSE CASE m.what \in {"probe", "data"} -> {Ok(None)}
                     [] m.what = "refresh"  -> {Ok(m.token)}
                     [] m.what = "accounts" -> {Ok(there)}
                     [] m.what = "create"   -> {IF m.arg \in there THEN bad
                                                ELSE Reply("ok", None, WithAccount(server, m.arg, key))}
                     [] m.what = "password" -> {IF m.arg \in there THEN Reply("ok", None, WithAccount(server, m.arg, key))
                                                ELSE bad}
                     [] m.what = "remove"   -> {IF m.arg \in there /\ there # {m.arg}
                                                THEN Reply("ok", None, WithoutAccount(server, m.arg)) ELSE bad}

(* The browser keeps the cookie an answer brings before the page sees it.  *)
Kept(s, m) ==
    CASE m.what \in {"login", "redeem", "refresh"} /\ m.out = "ok" -> [s EXCEPT !.cookie = m.data]
      [] m.what = "end" /\ m.out = "ok" -> [s EXCEPT !.cookie = None]
      [] OTHER -> s

-----------------------------------------------------------------------------
(* A page as it is loaded, before boot: only the login form is not hidden. *)
FreshPage(s, ticket) ==
    [s EXCEPT !.authed = FALSE, !.authMode = None, !.cloudUrl = FALSE, !.shown = {"login"}, !.card = TRUE,
              !.logout = FALSE, !.loginError = "", !.ssoError = "", !.listed = None, !.left = FALSE,
              !.ticket = ticket, !.net = {}]

Init ==
    \E mode \in Modes, cloud \in BOOLEAN, there \in SUBSET Accounts, who \in Accounts \union {None} :
        LET server == [mode |-> mode, cloud |-> cloud /\ mode = "sso", accounts |-> [a \in there |-> 0]]
        IN session = normalBoot(FreshPage(
            [server |-> server, cookie |-> IF who \in there THEN Token(server, who) ELSE None, moves |-> 0,
             missed |-> FALSE, authed |-> FALSE, authMode |-> None, cloudUrl |-> FALSE, shown |-> {}, card |-> TRUE,
             logout |-> FALSE, loginError |-> "", ssoError |-> "", listed |-> None, left |-> FALSE,
             ticket |-> None, net |-> {}], None))

Ready(s) == s.moves < MaxMoves /\ ~s.left /\ (Patient => s.net = {})
Shown(s, section) == Ready(s) /\ section \in s.shown
Move(s) == [s EXCEPT !.moves = @ + 1]

(* The page is loaded again; coming from the dashboard, with a ticket. *)
Reload ==
    /\ session.moves < MaxMoves /\ (Patient => session.net = {})
    /\ \E ticket \in {session.ticket, "fresh"} : session' = Move(normalBoot(FreshPage(session, ticket)))

Login == Shown(session, "login") /\ \E who \in Accounts : session' = Move(login(session, who))

Setup == Shown(session, "setup") /\ \E who \in Accounts : session' = Move(createSetup(session, who))

Logout == Ready(session) /\ session.logout /\ session' = Move(logout(session))

OpenSettings ==
    Shown(session, "admin") /\ session' = Move(loadAccounts(applySsoUiGating(session)))

UseAccounts ==
    /\ Shown(session, "admin") /\ session.card /\ session.listed # None
    /\ \/ \E who \in Accounts : session' = Move(createAccount(session, who))
       \/ \E who \in session.listed :
             session' \in {Move(changeAccountPassword(session, who)), Move(deleteAccount(session, who))}

(* Every twelve hours. *)
RefreshTimer == Shown(session, "admin") /\ session' = Move(refreshSession(session))

(* Another browser: the first account, or a password. *)
Elsewhere ==
    /\ session.moves < MaxMoves
    /\ \E who \in Accounts :
          /\ DOMAIN session.server.accounts = {} \/ who \in DOMAIN session.server.accounts
          /\ session' = Move([session EXCEPT !.server = WithAccount(@, who, session.moves + 1)])

(* A ticket is good for one redemption. *)
Serve ==
    \E m \in session.net :
        /\ m.out = None
        /\ \E o \in Outcomes(m, session.server, session.moves + 1) :
              session' = [session EXCEPT !.server = o.server,
                                         !.ticket = IF m.what = "redeem" THEN "used" ELSE @,
                                         !.net = (@ \ {m}) \union {[m EXCEPT !.out = o.out, !.data = o.data]}]

Answer ==
    \E m \in session.net :
        m.out # None /\ session' = Answered(Kept([session EXCEPT !.net = @ \ {m}], m), m)

Lost ==
    \E m \in session.net :
        /\ session.moves < MaxMoves
        /\ session' = Move(Answered([session EXCEPT !.net = @ \ {m}, !.missed = TRUE], [m EXCEPT !.out = "lost"]))

Next ==
    \/ Reload \/ Login \/ Setup \/ Logout \/ OpenSettings \/ UseAccounts \/ RefreshTimer
    \/ Elsewhere \/ Serve \/ Answer \/ Lost

Spec == Init /\ [][Next]_session

-----------------------------------------------------------------------------
AtRest(s) == s.net = {} /\ ~s.missed /\ ~s.left

(* When nothing is under way and no answer was lost, exactly one surface   *)
(* is shown, and it is the right one: the shell and its logout button      *)
(* exactly if the page believes to be signed in; the notice, never a form, *)
(* for a guest of a managed server; and once the page knows that mode, no  *)
(* account can be managed past the dashboard.                              *)
OneSurface ==
    AtRest(session) =>
        /\ \E surface \in session.shown : session.shown = {surface}
        /\ "admin" \in session.shown <=> session.authed
        /\ session.logout <=> session.authed
        /\ session.server.mode = "sso" /\ ~session.authed => session.shown = {"sso"}
        /\ isSsoMode(session) => ~session.card

(* And the page is right about the session: it only believes in one it     *)
(* holds the cookie of, a guest of a standard server holds none that is    *)
(* still good, and the accounts it lists are those there are.              *)
SessionTrue ==
    AtRest(session) =>
        /\ session.authed => session.cookie # None
        /\ ~session.authed /\ session.server.mode = "standard" => ~Valid(session.server, session.cookie)
        /\ session.authed /\ session.listed # None => session.listed = DOMAIN session.server.accounts
=============================================================================
