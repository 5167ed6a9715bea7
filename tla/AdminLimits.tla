----------------------------- MODULE AdminLimits -----------------------------
(***************************************************************************)
(* The two cards of the settings view that change the server's limits      *)
(* (limits.js): the rates, and the allowlist with the headers an address   *)
(* is read from.  Both are one object on the server: each card sends all   *)
(* of it, with what it reads from the other's fields or from what was last *)
(* loaded.                                                                 *)
(*                                                                         *)
(* The four rates are one number here, and the two lists of headers one    *)
(* list.  An address is a number of W bits of one of the two families; an  *)
(* entry of the allowlist is an address and how many of its first bits     *)
(* count, W for a bare address.  An entry of family 0 is text that is no   *)
(* address, one of family -1 has characters that cannot be printed too.    *)
(***************************************************************************)
EXTENDS Integers, SequencesExt

CONSTANTS
    Rates,          \* what the field of a rate may hold: numbers, Junk, Empty
    Lists,          \* what the field of the allowlist may hold: sequences of entries and Blank
    Headers,        \* what the field of the headers may hold: GoodHeaders and others
    GoodHeaders,
    DefaultHeaders, \* what the server makes of none, one of GoodHeaders
    W,              \* bits of an address
    Address,        \* the admin's own, as the server sees it
    Blank,          \* an empty entry of a list
    MaxAllowed,     \* entries an allowlist may have (32 in the code)
    Ceiling,        \* what the plan caps rates at, MaxRate without a cap
    Patient,        \* TRUE: the admin saves and leaves only when nothing is under way
    None,
    MaxMoves        \* bound: edits, clicks and lost answers

VARIABLE limits

Junk == -1
Empty == -2
MaxRate == 10000

-----------------------------------------------------------------------------
(* The page's own reading of addresses and lists. *)

stringToIPs(text) == SelectSeq(text, LAMBDA e : e # Blank)
ipsToString(list) == list

ipv4CidrContains(cidr, ip) ==
    /\ cidr.family = 4 /\ ip.family = 4
    /\ LET rest == 2 ^ (W - cidr.bits) IN cidr.host \div rest = ip.host \div rest

isAllowedByList(ip, list) ==
    \/ list = <<>>
    \/ \E i \in DOMAIN list :
          IF list[i].bits = W THEN list[i].family = ip.family /\ list[i].host = ip.host
          ELSE ipv4CidrContains(list[i], ip)

renderCurrentIP(s, d) == [s EXCEPT !.badge = isAllowedByList(Address, d.allow)]

-----------------------------------------------------------------------------
(* The server. *)

(* The addresses of one family a range has: those that agree with it up to *)
(* the bits that count.                                                    *)
InRange(ip, e) == ip.family = e.family /\ \E k \in 0 .. 2 ^ (W - e.bits) - 1 :
                                              ip.host = e.host - (e.host % 2 ^ (W - e.bits)) + k
Admits(server, ip) == server.allow = <<>> \/ \E i \in DOMAIN server.allow : InRange(ip, server.allow[i])

Unique(list) == SelectSeq([i \in DOMAIN list |-> [e |-> list[i], i |-> i]],
                          LAMBDA x : \A j \in 1 .. x.i - 1 : list[j] # x.e)

(* A list that is too long is cut, not refused.                            *)
Normalized(list) ==
    LET u == Unique(list)
    IN  [i \in 1 .. (IF Len(u) > MaxAllowed THEN MaxAllowed ELSE Len(u)) |-> u[i].e]

IsAddress(e) == e.family \in {4, 6}
Canonical(list) == SelectSeq(Normalized(list), IsAddress)

Sane(rate) == rate \in 1 .. MaxRate
WithinPlan(rate) == rate <= Ceiling
Addresses(list) == \A i \in DOMAIN list : IsAddress(list[i])

Put(server, body) ==
    LET allow == Normalized(body.allow)
    IN  IF /\ Sane(body.rate) /\ WithinPlan(body.rate)
           /\ Addresses(allow)
           /\ body.headers \in GoodHeaders \union {None}
        THEN [out |-> "ok", server |-> [rate |-> body.rate, allow |-> allow,
                                        headers |-> IF body.headers = None THEN DefaultHeaders ELSE body.headers]]
        ELSE [out |-> "bad", server |-> server]

-----------------------------------------------------------------------------
Request(what, body) == [what |-> what, body |-> body, out |-> "", data |-> None]
Send(s, m) == [s EXCEPT !.net = @ \union {m}]

setInputs(s, d) ==
    renderCurrentIP([s EXCEPT !.rate = d.rate, !.allow = ipsToString(d.allow), !.headers = d.headers], d)

renderLimits(s, data) == setInputs([s EXCEPT !.known = data], data)

(* What is loaded may be wanted for a save that is waiting. *)
loadLimits(s, waiting) == Send(s, Request("load", waiting))

putLimits(s, body) == Send(s, Request("put", body))

KeepsTyped(s, m) == IF m.out # "ok" THEN s ELSE [s EXCEPT !.known = m.data, !.dirty = {}]
PutAnswered(s, m) ==
    IF m.out # "ok" THEN s
    ELSE loadLimits([renderLimits(s, m.data) EXCEPT !.dirty = {}], None)

currentVal(s, fallback) == IF s.known = None THEN fallback ELSE s.known.rate
numOr(field, fallback) == IF field = Empty THEN fallback ELSE field

HeadersTaken(headers) == headers \in GoodHeaders \union {None}

saveLimits(s) ==
    LET body == [rate |-> numOr(s.rate, currentVal(s, Junk)), allow |-> stringToIPs(s.allow), headers |-> s.headers]
    IN IF Sane(body.rate) /\ HeadersTaken(body.headers) THEN putLimits(s, body) ELSE s

(* The rates are those last loaded; without them they are loaded first.    *)
SendAdminLimit(s, waiting) ==
    LET rate == currentVal(s, Junk)
    IN IF Sane(rate) THEN putLimits(s, [waiting EXCEPT !.rate = rate]) ELSE loadLimits(s, [waiting EXCEPT !.rate = Empty])

(* Of the allowlist this card checks the length and that it prints; the    *)
(* other one sends it as it stands.                                        *)
AllowedTaken(allow) == Len(allow) <= MaxAllowed /\ \A i \in DOMAIN allow : allow[i].family # -1

saveAdminLimit(s) ==
    LET waiting == [rate |-> Junk, allow |-> stringToIPs(s.allow), headers |-> s.headers]
    IN IF ~AllowedTaken(waiting.allow) \/ ~HeadersTaken(s.headers) THEN s
       ELSE IF s.known = None THEN loadLimits(s, waiting)
       ELSE SendAdminLimit(s, waiting)

(* A first load that fails is tried once more; the second decides.         *)
LimitsLoaded(s, m) ==
    LET t == IF m.out = "ok" THEN renderLimits(s, m.data) ELSE s
    IN IF m.body = None THEN t
       ELSE IF m.body.rate = Junk THEN SendAdminLimit(t, m.body)
       ELSE IF m.out = "ok" THEN putLimits(t, [m.body EXCEPT !.rate = m.data.rate]) ELSE t

-----------------------------------------------------------------------------
(* What the server starts with was canonicalized when it was loaded.       *)
Init ==
    \E allow \in {Canonical(stringToIPs(l)) : l \in Lists} :
        LET server == [rate |-> 20, allow |-> allow, headers |-> DefaultHeaders]
        IN /\ Admits(server, Address)
           /\ limits = loadLimits([server |-> server, known |-> None, rate |-> Empty, allow |-> <<>>,
                                   headers |-> DefaultHeaders, badge |-> TRUE, dirty |-> {}, out |-> FALSE,
                                   missed |-> FALSE, net |-> {}, moves |-> 0], None)

Ready(s) == s.moves < MaxMoves /\ ~s.out
Settled(s) == Patient => s.net = {}
Edited(s, card) == [s EXCEPT !.moves = @ + 1, !.dirty = @ \union {card}]
Move(s) == [s EXCEPT !.moves = @ + 1]

Visit == Ready(limits) /\ Settled(limits) /\ limits' = Move(loadLimits(limits, None))

TypeRate == Ready(limits) /\ \E r \in Rates : limits' = [Edited(limits, "rates") EXCEPT !.rate = r]

TypeAllowed ==
    /\ Ready(limits)
    /\ \/ \E l \in Lists : limits' = [Edited(limits, "admin") EXCEPT !.allow = l]
       \/ \E h \in Headers : limits' = [Edited(limits, "admin") EXCEPT !.headers = h]

SaveRates ==
    Ready(limits) /\ Settled(limits) /\ "rates" \in limits.dirty /\ limits' = Move(saveLimits(limits))

SaveAllowed ==
    Ready(limits) /\ Settled(limits) /\ "admin" \in limits.dirty /\ limits' = Move(saveAdminLimit(limits))

(* An address that is not admitted is refused, and the page signs out.     *)
Serve ==
    \E m \in limits.net :
        /\ m.out = ""
        /\ LET r == IF ~Admits(limits.server, Address) THEN [out |-> "denied", server |-> limits.server]
                    ELSE IF m.what = "load" THEN [out |-> "ok", server |-> limits.server]
                    ELSE Put(limits.server, m.body)
           IN limits' = [limits EXCEPT !.server = r.server,
                           !.net = (@ \ {m}) \union {[m EXCEPT !.out = r.out, !.data = IF r.out = "ok" THEN r.server ELSE None]}]

Answered(s, m) ==
    LET t == IF m.out = "denied" THEN [s EXCEPT !.out = TRUE] ELSE s
    IN IF m.what = "load" THEN LimitsLoaded(t, m) ELSE PutAnswered(t, m)

Answer ==
    \E m \in limits.net : m.out # "" /\ limits' = Answered([limits EXCEPT !.net = @ \ {m}], m)

Lost ==
    \E m \in limits.net :
        /\ limits.moves < MaxMoves
        /\ limits' = Move(Answered([limits EXCEPT !.net = @ \ {m}, !.missed = TRUE], [m EXCEPT !.out = "lost", !.data = None]))

Next == Visit \/ TypeRate \/ TypeAllowed \/ SaveRates \/ SaveAllowed \/ Serve \/ Answer \/ Lost

Spec == Init /\ [][Next]_limits

-----------------------------------------------------------------------------
(* When nothing is under way, no answer was lost and no card has an edit,  *)
(* the fields hold what the server enforces: edits made while a save was   *)
(* under way are either marked as edits or gone.                           *)
LimitsShown ==
    limits.net = {} /\ ~limits.missed /\ ~limits.out /\ limits.dirty = {} =>
        [rate |-> limits.rate, allow |-> limits.allow, headers |-> limits.headers] = limits.server

(* What a card sends, whatever was typed into it and the other, loaded or  *)
(* not, has rates and headers in range.  The server refuses it for the two *)
(* things the page does not check, and for nothing else: an entry of the   *)
(* list it keeps that is no address, and a rate above the plan's ceiling.  *)
SendsTaken ==
    \A m \in limits.net :
        m.what = "put" =>
            /\ Sane(m.body.rate) /\ HeadersTaken(m.body.headers)
            /\ m.out = "bad" => ~WithinPlan(m.body.rate) \/ ~Addresses(Normalized(m.body.allow))

(* The page never calls an address admitted by the list it last loaded     *)
(* that the server, with that list, would refuse; of addresses of version  *)
(* 4 it also never calls one blocked that would be let in.                 *)
BadgeTrue ==
    limits.known # None =>
        /\ limits.badge => Admits(limits.known, Address)
        /\ Address.family = 4 /\ Admits(limits.known, Address) => limits.badge
=============================================================================
