--------------------------- MODULE MCAdminPanels ---------------------------
(***************************************************************************)
(* The panels of AdminPanels, each on a small instance.                    *)
(***************************************************************************)
EXTENDS AdminPanels, TLC

Junk == -1
Empty == -2

(* The account the environment names. *)
Ops == {[email |-> "a", password |-> "p"]}

-----------------------------------------------------------------------------
(* Scope.  Two projects; one has two environments, the other the           *)
(* production only.                                                        *)
TwoProjects ==
    [projects |-> {"p", "q"},
     envs |-> "p1" :> [project |-> "p", slug |-> 1] @@ "p2" :> [project |-> "p", slug |-> 2]
           @@ "q2" :> [project |-> "q", slug |-> 2]]
EventsOf == "p1" :> (1 :> 1 @@ 9 :> 3 @@ 10 :> 7) @@ "p2" :> (9 :> 2 @@ 10 :> 2)
         @@ "q2" :> (8 :> 2 @@ 2 :> 3) @@ "n1" :> <<>> @@ "n2" :> <<>>

-----------------------------------------------------------------------------
(* Transfer.  Two environments, one with a group, rules, an experiment and *)
(* a release; files that overlap with what is there, that do not, and a    *)
(* bad one.                                                                *)
Live(kind, n) == <<kind, n>>
Cond(f, o) == [field |-> f, op |-> o]
Exp(id, n, s, v, status) == [id |-> id, name |-> n, seed |-> s, variants |-> v, status |-> status]
Whole == <<[name |-> "on", weightBps |-> 10000]>>
Halves == <<[name |-> "on", weightBps |-> 4000], [name |-> "off", weightBps |-> 6000]>>
Short == <<[name |-> "on", weightBps |-> 4000]>>
FlagRec(k, g) == [key |-> k, type |-> "bool", default |-> <<"bool", 0>>, group |-> g, description |-> "d"]
ExpRec(f, n, v) == [flag |-> f, name |-> n, seed |-> n, variants |-> v, status |-> "draft"]
r1 == [priority |-> 1, condition |-> Cond("platform", "=="), value |-> <<"bool", 1>>]
r2 == [priority |-> 2, condition |-> Cond("appVersion", "<"), value |-> <<"bool", 0>>]

gp == Live("group", 1)
fa == Live("flag", 2)
TwoFlags == "ep" :> [group |-> gp :> [name |-> <<"core">>],
                     flag |-> fa :> FlagRec("a", gp) @@ Live("flag", 3) :> FlagRec("b", <<>>),
                     rule |-> Live("rule", 4) :> ([flag |-> fa] @@ r1) @@ Live("rule", 5) :> ([flag |-> fa] @@ r2),
                     experiment |-> Live("experiment", 6) :> ExpRec(fa, 1, Halves)]
         @@ "eq" :> [group |-> <<>>,
                     flag |-> Live("flag", 12) :> FlagRec("a", <<>>),
                     rule |-> Live("rule", 14) :> ([flag |-> Live("flag", 12)] @@ r2),
                     experiment |-> Live("experiment", 16) :> ExpRec(Live("flag", 12), 2, Whole)]

Row(k, g, rs, xs) == [key |-> k, type |-> "bool", default |-> <<>>, group |-> g, description |-> "", rules |-> rs, experiments |-> xs]
Text(flags, top) == [good |-> TRUE, flags |-> flags, top |-> top]
OneRelease == "ep" :> {Text(<<Row("a", gp, <<r1>>, <<>>)>>,
                            <<[flag |-> "a", exp |-> Exp(<<"x">>, 1, 1, Whole, "running")],
                              [flag |-> "gone", exp |-> Exp(<<"y">>, 1, 1, Whole, "running")]>>)}
           @@ "eq" :> {}
ThreeFiles ==
    {Text(<<Row("a", <<"core">>, <<r2, r1>>, <<Exp(<<"x">>, 1, 2, Halves, "")>>), Row("c", <<"new">>, <<r2>>, <<>>)>>,
          <<[flag |-> "a", exp |-> Exp(<<"x">>, 1, 2, Halves, "")], [flag |-> "c", exp |-> Exp(<<>>, 3, 0, Whole, "draft")]>>),
     Text(<<Row("b", <<>>, <<>>, <<>>)>>, <<[flag |-> "b", exp |-> Exp(<<>>, 1, 1, Short, "draft")]>>),
     Text(<<Row("9", <<>>, <<>>, <<>>)>>, <<>>)}

-----------------------------------------------------------------------------
(* Backups.  Of two buckets and two secrets one pair can be reached.       *)
OneReachable == {<<"a", "s">>}

(* Daily, weekly and monthly schedules, out of range and without controls. *)
Every == <<"*">>
At(n) == <<"n", n>>
Parsed == {<<At(0), At(3), Every, Every, Every>>, <<At(59), At(23), Every, Every, <<"day", 6>>>>,
           <<At(5), At(0), At(31), Every, Every>>, <<<<"?">>, At(1), Every, Every, Every>>}
Typed == Parsed \union {<<>>, <<At(60), At(3), Every, Every, Every>>, <<At(0), At(3), Every, Every, At(7)>>,
                        <<At(0), At(3), At(1), Every, At(1)>>}
KeepsTyped == {0, 1, -1}

-----------------------------------------------------------------------------
(* Two flags with a rule each: one the rows can show, one with a range.    *)
C(f, n, o, v, sd) == [field |-> f, name |-> n, op |-> o, value |-> v, seed |-> sd]
Many(conds) == [kind |-> "many", conds |-> conds]
Single(cond) == [kind |-> "one", conds |-> <<cond>>]
Two == Many(<<C("custom", "tier", "==", <<"s", "ios">>, ""), C("percentile", "", "between", <<"range", "0", "5">>, "x")>>)

Texts == "f" :> "true" @@ "g" :> "5"
TwoRules == "r" :> [flag |-> "f", condition |-> Two, value |-> "true"]
         @@ "q" :> [flag |-> "g", condition |-> Single(C("percentile", "", "<=", <<"n", "5">>, "")), value |-> "5"]
KindOf == "ios" :> "s" @@ "5" :> "n" @@ "" :> "s" @@ "x" :> "s" @@ "0" :> "n" @@ "9999" :> "n" @@ "5000" :> "n"
       @@ "null" :> "null"
Conds == {[kind |-> "bad", conds |-> <<>>], Two, Single(C("other", "", "==", <<"s", "x">>, "")),
          Single(C("platform", "", "<=", <<"n", "5">>, "x")),
          Many(<<C("custom", "", "==", <<"n", "5">>, ""), C("percentile", "", "<=", <<"s", "x">>, ""),
                 C("platform", "", "==", <<"null", "">>, "x"), C("platform", "", "==", <<"s", "ios">>, "")>>)}
GoodAndBad == {[text |-> "x", good |-> FALSE], [text |-> "5", good |-> TRUE]}

(* A flag whose default is not of its type, an experiment in thirds, and   *)
(* one of more variants than there are rows.                               *)
Variant(n, w, x) == [name |-> n, weightBps |-> w, values |-> x]
Thirds == <<Variant("control", 3333, <<"null", "">>), Variant("b", 0, <<"json", "{}">>), Variant("c", 6667, <<"null", "">>)>>
NumberAndJson == "f" :> [key |-> "k", type |-> "number", default |-> <<"bool", "false">>]
              @@ "g" :> [key |-> "l", type |-> "json", default |-> <<"null", "">>]
Fourths == [i \in 1..4 |-> Variant(<<"a", "b", "c", "d">>[i], 2500, <<"null", "">>)]
InThirds == "x" :> [flag |-> "f", variants |-> Thirds] @@ "y" :> [flag |-> "g", variants |-> Fourths]
ThreeDefaults == {<<"bad", "{">>, <<"null", "">>, <<"number", "5">>}
TwoValues == {<<"bad", "{">>, <<"json", "{}">>}
SixWeights == {Junk, 0, 33333, 66670, 100000, 100010}

-----------------------------------------------------------------------------
(* Addresses of three bits: the admin's own, others, ranges around it.     *)
Entry(family, host, bits) == [family |-> family, host |-> host, bits |-> bits]
Own == Entry(4, 5, 3)
NoAddress == Entry(0, 0, 3)
Unprintable == Entry(-1, 0, 3)
SevenLists ==
    {<<>>, <<Own>>, <<None, Entry(4, 6, 1), Entry(4, 6, 1)>>,
     <<Entry(6, 5, 3), Entry(4, 2, 3)>>, <<Entry(4, 2, 3), Entry(4, 4, 2), Own>>,
     <<Own, NoAddress>>, <<Unprintable>>}
ThreeHeaders == {None, "h", "bad header"}
RatesTyped == {Junk, Empty, 0, 1, 10000}
KeyRatesTyped == {Junk, Empty, 0, 10000}

(* Three rows of two kinds, a row to the page; and no rows.                *)
LogRow(level, reason) == [level |-> level, reason |-> reason]
TwoLogs == {<<LogRow("a", "a"), LogRow("b", "a"), LogRow("a", "b")>>, <<>>}
DaysTyped == {Empty, 0, 1825}
=============================================================================
