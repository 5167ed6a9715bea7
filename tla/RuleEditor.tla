----------------------------- MODULE RuleEditor -----------------------------
(***************************************************************************)
(* The dialog that edits a targeting rule (rules.js, json-editor.js and    *)
(* the rule part of flags.js).                                             *)
(*                                                                         *)
(* The condition is kept twice: as JSON in a text input, which is what is  *)
(* saved, and in rows of dropdowns.  A change of a row writes the text; a  *)
(* text typed, or put there by the JSON editor, sets the rows, unless it   *)
(* is something rows cannot show.                                          *)
(*                                                                         *)
(* A JSON value is its kind and its print: <<"n", "5">> is a number and    *)
(* <<"s", "5">> a string.  A text is what it parses to: bad, empty, other  *)
(* JSON, one condition, or many.                                           *)
(***************************************************************************)
EXTENDS Naturals, Sequences, SequencesExt

CONSTANTS
    Flags,       \* flag -> the text of its default value
    Rules,       \* stored rules: id -> flag, condition text, value text
    Kind,        \* what is typed into inputs -> kind of the JSON it parses to, "s" if to none
    TypedConds,  \* texts typed as a condition
    TypedValues, \* texts typed as a value, with whether they are JSON
    MAX_CONDS,   \* most rows
    NoRule,
    MaxMoves     \* bound: edits and clicks

VARIABLE editor

CONDITION_OPS ==
    [platform   |-> <<"==", "!=", "contains", "regex">>,
     appVersion |-> <<"<", "<=", "==", "!=", ">=", ">", "contains", "regex">>,
     percentile |-> <<"<=", "between">>,
     custom     |-> <<"==", "!=", "<", "<=", ">", ">=", "contains", "regex">>]

Bases == DOMAIN CONDITION_OPS
One(cond) == [kind |-> "one", conds |-> <<cond>>]
DefaultCondition == One([field |-> "platform", name |-> "", op |-> "==", value |-> <<"s", "ios">>, seed |-> ""])

-----------------------------------------------------------------------------
(* Rows.  Inputs a field has no use for are hidden but keep their content. *)

buildConditionRow ==
    [base |-> "platform", op |-> "==", name |-> "", value |-> "", lo |-> "0", hi |-> "9999", seed |-> ""]

resetRuleBuilder == <<[buildConditionRow EXCEPT !.value = "ios"]>>

ruleBaseField(cond) == IF cond.field \in Bases THEN cond.field ELSE "none"

(* The operator stays if the new field has it. *)
populateRuleOpOptions(row, base, op) ==
    [row EXCEPT !.base = base,
                !.op = IF \E i \in DOMAIN CONDITION_OPS[base] : CONDITION_OPS[base][i] = op
                       THEN op ELSE CONDITION_OPS[base][1]]

isBetween(row) == row.base = "percentile" /\ row.op = "between"

updateRuleBuilderVisibility(row) ==
    (IF isBetween(row) THEN {"lo", "hi"} ELSE {"value"})
        \union (IF row.base = "custom" THEN {"name"} ELSE {})
        \union (IF row.base = "percentile" THEN {"seed"} ELSE {})

toFiniteNumber(text, otherwise) == IF Kind[text] = "n" THEN text ELSE otherwise

condValueToText(v) == IF v[1] = "null" THEN "" ELSE v[2]

setBuilderValueInputs(row, value) ==
    CASE isBetween(row) /\ value[1] = "range" ->
           [row EXCEPT !.lo = toFiniteNumber(value[2], "0"), !.hi = toFiniteNumber(value[3], "9999")]
      [] isBetween(row) /\ value[1] # "range" ->
           [row EXCEPT !.lo = toFiniteNumber(value[2], "0"), !.hi = "9999"]
      [] OTHER -> [row EXCEPT !.value = condValueToText(value)]

setRowFromCond(row, cond) ==
    LET chosen == populateRuleOpOptions(row, ruleBaseField(cond), cond.op)
        named == IF chosen.base = "custom" THEN [chosen EXCEPT !.name = cond.name] ELSE chosen
    IN [setBuilderValueInputs(named, cond.value) EXCEPT !.seed = cond.seed]

(* A custom attribute takes any JSON, and what is not JSON as a string. *)
builderValueFor(row) ==
    CASE isBetween(row) -> <<"range", toFiniteNumber(row.lo, "0"), toFiniteNumber(row.hi, "9999")>>
      [] row.base = "percentile" /\ row.op # "between" -> <<"n", toFiniteNumber(row.value, "5000")>>
      [] row.base = "custom" -> <<Kind[row.value], row.value>>
      [] OTHER -> <<"s", row.value>>

condFromRow(row, prevSeed) ==
    [field |-> row.base, name |-> IF row.base = "custom" THEN row.name ELSE "", op |-> row.op,
     value |-> builderValueFor(row),
     seed |-> IF row.base = "percentile" THEN row.seed ELSE prevSeed]

-----------------------------------------------------------------------------
(* Text to rows, and rows to text. *)

parseRuleConditionInput(text) == text.kind \in {"one", "many"}

syncRuleBuilderFromCondition(s) ==
    LET n == IF Len(s.text.conds) < MAX_CONDS THEN Len(s.text.conds) ELSE MAX_CONDS
        conds == SubSeq(s.text.conds, 1, n)
        row(i) == IF i \in DOMAIN s.rows THEN s.rows[i] ELSE buildConditionRow
    IN IF ~parseRuleConditionInput(s.text) \/ \E i \in DOMAIN conds : ruleBaseField(conds[i]) = "none"
       THEN s
       ELSE [s EXCEPT !.rows = [i \in 1..n |-> setRowFromCond(row(i), conds[i])]]

writeConditionInput(s, conds) ==
    [s EXCEPT !.text = [kind |-> IF Len(conds) > 1 THEN "many" ELSE "one", conds |-> conds]]

(* A seed that has no input is taken from the condition that is now at the *)
(* same place of the text.                                                 *)
applyRuleBuilderToCondition(s) ==
    LET prevSeed(i) == IF i \in DOMAIN s.text.conds THEN s.text.conds[i].seed ELSE ""
    IN writeConditionInput(s, [i \in DOMAIN s.rows |-> condFromRow(s.rows[i], prevSeed(i))])

addConditionRow(s) ==
    IF Len(s.rows) >= MAX_CONDS THEN s ELSE [s EXCEPT !.rows = Append(@, buildConditionRow)]

(* The first row stays; asked to remove it, the last one goes. *)
removeConditionRow(s, i) ==
    IF Len(s.rows) <= 1 THEN s
    ELSE [s EXCEPT !.rows = RemoveAt(@, IF i = 1 THEN Len(@) ELSE i)]

(* A field that was changed gets the operators it has. *)
refreshCondRow(s, i, base) == [s EXCEPT !.rows[i] = populateRuleOpOptions(@, base, @.op)]

(* The change of an input that is shown. *)
condRowEvent(s, i, control, v) ==
    LET changed == CASE control = "field" -> refreshCondRow(s, i, v)
                     [] control = "op"    -> [s EXCEPT !.rows[i].op = v]
                     [] OTHER             -> [s EXCEPT !.rows[i][control] = v]
    IN applyRuleBuilderToCondition(changed)

-----------------------------------------------------------------------------
(* The JSON editor. *)

jsonDetail(text) == text.kind # "bad"

openJsonEditorFor(s) == [s EXCEPT !.json = s.text]

updateEditorStatus(s) == jsonDetail(s.json)

NoJson == [kind |-> "closed", conds |-> <<>>]

closeJsonEditor(s, save) ==
    IF ~save THEN [s EXCEPT !.json = NoJson]
    ELSE IF ~updateEditorStatus(s) THEN s
    ELSE syncRuleBuilderFromCondition([s EXCEPT !.text = s.json, !.json = NoJson])

-----------------------------------------------------------------------------
(* The dialogs of flags.js. *)

resetFlagRuleForm(s, flag) ==
    syncRuleBuilderFromCondition(
        [s EXCEPT !.id = NoRule, !.text = DefaultCondition, !.value = [text |-> Flags[flag], good |-> TRUE],
                  !.rows = resetRuleBuilder, !.dirty = FALSE])

openFlagRulesDialog(s, flag) == [s EXCEPT !.active = flag]
closeFlagRulesDialog(s) == [s EXCEPT !.active = "none"]

fillRuleForm(s, id) ==
    syncRuleBuilderFromCondition(
        [s EXCEPT !.id = id, !.flag = Rules[id].flag, !.text = Rules[id].condition,
                  !.value = [text |-> Rules[id].value, good |-> TRUE]])

openRuleDialog(s, id) ==
    LET filled == IF id = NoRule THEN [resetFlagRuleForm(s, s.active) EXCEPT !.flag = s.active]
                  ELSE fillRuleForm([s EXCEPT !.active = Rules[id].flag], id)
    IN [filled EXCEPT !.open = TRUE, !.dirty = FALSE]

closeRuleDialog(s) == [s EXCEPT !.open = FALSE]

(* An empty condition is saved as null. *)
saveFlagRule(s) ==
    IF ~jsonDetail(s.text) \/ ~s.value.good THEN s
    ELSE closeRuleDialog(
           [s EXCEPT !.active = s.flag, !.dirty = FALSE,
                     !.staged = [id |-> s.id, flag |-> s.flag, condition |-> s.text, value |-> s.value.text]])

-----------------------------------------------------------------------------
Init ==
    editor = [active |-> "none", open |-> FALSE, json |-> NoJson, id |-> NoRule, flag |-> "none",
              text |-> DefaultCondition, value |-> [text |-> "true", good |-> TRUE],
              rows |-> resetRuleBuilder, dirty |-> FALSE, staged |-> NoRule, moves |-> 0]

Ready(s) == s.moves < MaxMoves
Move(s) == [s EXCEPT !.moves = @ + 1]
Editing(s) == Ready(s) /\ s.open /\ s.json = NoJson
Dirty(s) == [s EXCEPT !.dirty = TRUE]

OpenRules ==
    /\ editor.active = "none"
    /\ \E f \in DOMAIN Flags : editor' = openFlagRulesDialog(editor, f)

CloseRules == ~editor.open /\ editor.active # "none" /\ editor' = closeFlagRulesDialog(editor)

OpenRule ==
    /\ Ready(editor) /\ ~editor.open /\ editor.active # "none"
    /\ \E id \in {r \in DOMAIN Rules : Rules[r].flag = editor.active} \union {NoRule} :
          editor' = Move(openRuleDialog(editor, id))

CloseRule == editor.open /\ editor.json = NoJson /\ editor' = closeRuleDialog(editor)

Clear == Editing(editor) /\ editor' = Move(resetFlagRuleForm(editor, editor.flag))

ChangeRow ==
    /\ Editing(editor)
    /\ \E i \in DOMAIN editor.rows :
          LET row == editor.rows[i]
              shown == updateRuleBuilderVisibility(row)
          IN \/ \E b \in Bases \ {row.base} : editor' = Move(Dirty(condRowEvent(editor, i, "field", b)))
             \/ \E o \in Range(CONDITION_OPS[row.base]) \ {row.op} :
                   editor' = Move(Dirty(condRowEvent(editor, i, "op", o)))
             \/ \E c \in shown, t \in DOMAIN Kind :
                   /\ t # row[c]
                   /\ editor' = Move(Dirty(condRowEvent(editor, i, c, t)))

AddRow ==
    /\ Editing(editor) /\ Len(editor.rows) < MAX_CONDS
    /\ editor' = Move(applyRuleBuilderToCondition(addConditionRow(editor)))

RemoveRow ==
    /\ Editing(editor) /\ Len(editor.rows) > 1
    /\ \E i \in DOMAIN editor.rows :
          editor' = Move(applyRuleBuilderToCondition(removeConditionRow(editor, i)))

TypeCondition ==
    /\ Editing(editor)
    /\ \E t \in TypedConds : editor' = Move(Dirty(syncRuleBuilderFromCondition([editor EXCEPT !.text = t])))

TypeValue ==
    Editing(editor) /\ \E v \in TypedValues : editor' = Move(Dirty([editor EXCEPT !.value = v]))

OpenJson == Editing(editor) /\ editor' = openJsonEditorFor(editor)

TypeJson ==
    /\ Ready(editor) /\ editor.json # NoJson
    /\ \E t \in TypedConds : editor' = Move([editor EXCEPT !.json = t])

CloseJson ==
    /\ editor.json # NoJson
    /\ \/ editor' = closeJsonEditor(editor, FALSE)
       \/ updateEditorStatus(editor) /\ editor' = closeJsonEditor(editor, TRUE)

(* The button of a form that edits is disabled until something was typed. *)
Save ==
    /\ Editing(editor) /\ (editor.dirty \/ editor.id = NoRule)
    /\ editor' = Move(saveFlagRule(editor))

Next ==
    \/ OpenRules \/ CloseRules \/ OpenRule \/ CloseRule \/ Clear
    \/ ChangeRow \/ AddRow \/ RemoveRow \/ TypeCondition \/ TypeValue
    \/ OpenJson \/ TypeJson \/ CloseJson \/ Save

Spec == Init /\ [][Next]_editor

-----------------------------------------------------------------------------
(* What a row shows, as far as it means something. *)
Visible(row) ==
    LET shown == updateRuleBuilderVisibility(row)
        number(t, otherwise) == IF row.base = "percentile" THEN toFiniteNumber(t, otherwise) ELSE t
    IN <<row.base, row.op,
         IF "name" \in shown THEN row.name ELSE "",
         IF "value" \in shown THEN number(row.value, "5000") ELSE "",
         IF "lo" \in shown THEN <<number(row.lo, "0"), number(row.hi, "9999")>> ELSE <<>>,
         IF "seed" \in shown THEN row.seed ELSE "">>

Shows(cond, row) == Visible(setRowFromCond(row, cond)) = Visible(row)

Showable(text) ==
    /\ text.kind \in {"one", "many"} /\ Len(text.conds) <= MAX_CONDS
    /\ \A i \in DOMAIN text.conds :
          /\ ruleBaseField(text.conds[i]) # "none"
          /\ text.conds[i].field = "custom" => text.conds[i].value[1] # "null"

(* The two forms of a condition agree, however it was edited: whenever the *)
(* text is something rows can show, there is one row for each of its       *)
(* conditions, and it shows what a row can show of that condition.  (The   *)
(* null of a custom attribute is one thing a row cannot: typed, it stands  *)
(* there as null; read from a text, as an empty input, which a change of   *)
(* the row makes an empty string.)                                         *)
BuilderAgrees ==
    LET s == editor
    IN s.open /\ Showable(s.text) =>
         /\ Len(s.rows) = Len(s.text.conds)
         /\ \A i \in DOMAIN s.rows : Shows(s.text.conds[i], s.rows[i])

(* An edit of rows never writes a condition the server will refuse when    *)
(* the release is built: a row's operator is one its field has.            *)
RowsValid ==
    \A i \in DOMAIN editor.rows :
        \E k \in DOMAIN CONDITION_OPS[editor.rows[i].base] :
            CONDITION_OPS[editor.rows[i].base][k] = editor.rows[i].op
=============================================================================
