----------------------------- MODULE AdminProofs -----------------------------
(***************************************************************************)
(* The cards and dialogs of the admin page, for any records, inputs and    *)
(* number of moves: they show what the server has and send what it takes.  *)
(*                                                                         *)
(* A panel P has an inductive invariant PInv, with a lemma for its initial *)
(* states (PInit), one for its steps (PStep) and one for what it implies.  *)
(* Each says of a card either that it is true or what is under way that    *)
(* will make it true.                                                      *)
(***************************************************************************)
EXTENDS AdminPanels, TLAPS

LEMMA NoVerdict == None \notin {"ok", "bad"}
  BY PanelsAssumption

LEMMA NoSettings == None \notin [on : SUBSET Switches, days : 1 .. 1825]
  BY PanelsAssumption

LEMMA CondLists ==
    /\ MAX_CONDS \in Nat
    /\ \A t \in TypedConds : AList(t.conds)
    /\ \A r \in DOMAIN Rules : AList(Rules[r].condition.conds)
  BY PanelsAssumption

-----------------------------------------------------------------------------
(* The dialog of a flag. *)

(* The form of the flag dialog. *)
FormHas(s) == {"open", "type", "default", "typed"} \subseteq DOMAIN s

FlagTyped(s) == s.open = "flag" /\ ~s.typed => Form!flagDefaultMatchesType(s.default, s.type)

FormInv == FormHas(st) /\ st.type \in Form!Types /\ FlagTyped(st)

LEMMA FormInit == Form!Init => FormInv
  <1> SUFFICES ASSUME Form!Init PROVE FormInv
    OBVIOUS
  <1>1. FormHas(st) /\ st.open = "none" /\ st.type = "bool"
    BY DEF Form!Init, FormHas
  <1> QED
    BY <1>1 DEF FormInv, FlagTyped, Form!Types

(* A default that does not match is replaced by one that does. *)
LEMMA DefaultsMatch == \A t \in Form!Types : Form!flagDefaultMatchesType(Form!FLAG_TYPE_DEFAULTS[t], t)
  <1> DEFINE D == Form!FLAG_TYPE_DEFAULTS
  <1>1. D["bool"][1] = "bool"
    BY DEF Form!FLAG_TYPE_DEFAULTS
  <1>2. D["number"][1] = "number"
    BY DEF Form!FLAG_TYPE_DEFAULTS
  <1>3. D["string"][1] = "string"
    BY DEF Form!FLAG_TYPE_DEFAULTS
  <1>4. D["json"][1] = "json"
    BY DEF Form!FLAG_TYPE_DEFAULTS
  <1> HIDE DEF D
  <1> QED
    BY <1>1, <1>2, <1>3, <1>4 DEF D, Form!Types, Form!flagDefaultMatchesType

LEMMA Synced ==
  ASSUME NEW s, FormHas(s), s.type \in Form!Types, NEW reset \in BOOLEAN
  PROVE  LET t == Form!syncFlagDefaultForType(s, reset)
         IN FormHas(t) /\ t.type = s.type /\ t.open = s.open /\ Form!flagDefaultMatchesType(t.default, t.type)
  BY DefaultsMatch DEF FormHas, Form!syncFlagDefaultForType

(* What is left alone by everything the experiment dialog does. *)
SameFlag(s, t) == FormHas(t) /\ t.open = s.open /\ t.type = s.type /\ t.default = s.default

LEMMA HintKeeps == ASSUME NEW s, FormHas(s) PROVE SameFlag(s, Form!updateExpVariantsHint(s))
  BY DEF FormHas, SameFlag, Form!updateExpVariantsHint

LEMMA ApplyKeeps == ASSUME NEW s, FormHas(s) PROVE SameFlag(s, Form!applyVariantsBuilderToVariants(s))
  BY DEF FormHas, SameFlag, Form!updateExpVariantsHint, Form!applyVariantsBuilderToVariants

LEMMA OpenKeeps ==
  ASSUME NEW s, FormHas(s), NEW id, NEW preset
  PROVE  LET t == Form!openExperimentDialog(s, id, preset)
         IN FormHas(t) /\ t.open = "experiment" /\ t.type = s.type
  BY DEF FormHas, Form!openExperimentDialog, Form!resetExperimentForm, Form!fillExperimentForm,
         Form!updateExpVariantsHint, Form!resetVariantsBuilder, Form!generateExperimentSeed,
         Form!syncVariantsBuilderFromInput

LEMMA SaveKeeps ==
  ASSUME NEW s, FormHas(s)
  PROVE  LET t == Form!saveExperiment(s)
         IN FormHas(t) /\ t.open \in {s.open, "none"} /\ t.type = s.type
  <1> DEFINE a == Form!applyVariantsBuilderToVariants(s)
  <1>1. SameFlag(s, a)
    BY ApplyKeeps
  <1> QED
    BY <1>1 DEF SameFlag, FormHas, Form!saveExperiment, Form!closeExperimentDialog

LEMMA FormResetSyncs ==
  ASSUME NEW s, FormHas(s)
  PROVE  LET t == Form!resetFlagForm(s)
         IN FormHas(t) /\ t.type \in Form!Types /\ Form!flagDefaultMatchesType(t.default, t.type) /\ t.open = s.open
  <1> DEFINE b == [s EXCEPT !.id = None, !.key = "", !.type = "bool",
                            !.default = Form!FLAG_TYPE_DEFAULTS["bool"], !.dirty = FALSE]
  <1>1. FormHas(b) /\ b.type = "bool" /\ b.open = s.open
    BY DEF FormHas
  <1>2. Form!resetFlagForm(s) = Form!syncFlagDefaultForType(b, TRUE)
    BY Zenon DEF Form!resetFlagForm
  <1> HIDE DEF b
  <1> QED
    BY <1>1, <1>2, Synced DEF Form!Types

LEMMA OpenSyncs ==
  ASSUME NEW s, FormHas(s), NEW id \in DOMAIN FormFlags \union {None}
  PROVE  LET t == Form!openFlagDialog(s, id)
         IN FormHas(t) /\ t.type \in Form!Types /\ Form!flagDefaultMatchesType(t.default, t.type)
  <1> DEFINE f == FormFlags[id]
             b == [s EXCEPT !.id = id, !.key = f.key, !.type = f.type, !.default = f.default]
             filled == IF id = None THEN Form!resetFlagForm(s) ELSE Form!syncFlagDefaultForType(b, FALSE)
  <1>1. id # None => f.type \in Form!Types
    BY PanelsAssumption
  <1>2. FormHas(b) /\ b.type = f.type
    BY DEF FormHas
  <1> HIDE DEF b
  <1>3. FormHas(filled) /\ filled.type \in Form!Types /\ Form!flagDefaultMatchesType(filled.default, filled.type)
    BY <1>1, <1>2, Synced, FormResetSyncs
  <1>4. Form!openFlagDialog(s, id) = [filled EXCEPT !.open = "flag", !.dirty = FALSE, !.typed = FALSE]
    BY DEF Form!openFlagDialog, b
  <1> HIDE DEF filled
  <1> QED
    BY <1>3, <1>4 DEF FormHas

LEMMA FormStep == ASSUME FormInv, Form!Next PROVE FormInv'
  <1> USE DEF FormInv, FormHas, FlagTyped, Form!Ready, Form!Move, Form!Edited
  <1>1. CASE Form!OpenFlag
    <2>1. PICK id \in DOMAIN FormFlags \union {None} : st' = Form!Move(Form!openFlagDialog(st, id))
      BY <1>1 DEF Form!OpenFlag
    <2> DEFINE t == Form!openFlagDialog(st, id)
    <2>2. FormHas(t) /\ t.type \in Form!Types /\ Form!flagDefaultMatchesType(t.default, t.type)
      BY OpenSyncs
    <2>3. st' = Form!Move(t)
      BY <2>1
    <2> HIDE DEF t
    <2> QED
      BY <2>2, <2>3
  <1>2. CASE Form!TypeKey
    BY <1>2 DEF Form!TypeKey
  <1>3. CASE Form!TypeDefault
    BY <1>3 DEF Form!TypeDefault
  <1>4. CASE Form!ChangeType
    <2>1. PICK t \in Form!Types : 
             st' = [Form!syncFlagDefaultForType([Form!Edited(st) EXCEPT !.type = t], FALSE) EXCEPT !.typed = FALSE]
      BY <1>4 DEF Form!ChangeType
    <2> DEFINE s == [Form!Edited(st) EXCEPT !.type = t]
    <2>2. FormHas(s) /\ s.type = t
      OBVIOUS
    <2> HIDE DEF s
    <2> QED
      BY <2>1, <2>2, Synced
  <1>5. CASE Form!ClearFlag
    <2> DEFINE s == [st EXCEPT !.typed = FALSE]
               t == Form!resetFlagForm(s)
    <2>1. FormHas(s)
      OBVIOUS
    <2>2. st' = Form!Move(t)
      BY <1>5 DEF Form!ClearFlag
    <2> HIDE DEF s
    <2>3. FormHas(t) /\ t.type \in Form!Types /\ Form!flagDefaultMatchesType(t.default, t.type)
      BY <2>1, FormResetSyncs
    <2> HIDE DEF t
    <2> QED
      BY <2>2, <2>3
  <1>6. CASE Form!SaveFlag
    BY <1>6 DEF Form!SaveFlag, Form!saveFlag, Form!closeFlagDialog
  <1>7. CASE Form!CloseFlag
    BY <1>7 DEF Form!CloseFlag, Form!closeFlagDialog
  <1>8. CASE Form!OpenExperiment
    BY <1>8, OpenKeeps DEF Form!OpenExperiment
  <1>0. ASSUME NEW s, st.open = "experiment", FormHas(s), s.open = st.open, s.type = st.type,
               st' = Form!updateExpVariantsHint(s) \/ st' = Form!applyVariantsBuilderToVariants(s)
        PROVE  FormInv'
    <2>1. SameFlag(s, st')
      BY <1>0, HintKeeps, ApplyKeeps
    <2> QED
      BY <1>0, <2>1 DEF SameFlag
  <1>r. ASSUME NEW rows PROVE LET s == [Form!Edited(st) EXCEPT !.rows = rows]
                              IN FormHas(s) /\ s.open = st.open /\ s.type = st.type
    OBVIOUS
  <1>n. ASSUME NEW i, NEW n PROVE LET s == [Form!Edited(st) EXCEPT !.rows[i].name = n]
                                  IN FormHas(s) /\ s.open = st.open /\ s.type = st.type
    OBVIOUS
  <1>v. ASSUME NEW i, NEW v PROVE LET s == [Form!Edited(st) EXCEPT !.rows[i].values = v]
                                  IN FormHas(s) /\ s.open = st.open /\ s.type = st.type
    OBVIOUS
  <1> HIDE DEF FormInv, FormHas, Form!Edited
  <1>9. CASE Form!TypeVariant
    <2>1. st.open = "experiment"
      BY <1>9 DEF Form!TypeVariant
    <2>2. ASSUME NEW rows, st' = Form!updateExpVariantsHint([Form!Edited(st) EXCEPT !.rows = rows]) PROVE FormInv'
      BY <1>0, <1>r, <2>1, <2>2
    <2>3. ASSUME NEW i, NEW n, st' = Form!updateExpVariantsHint([Form!Edited(st) EXCEPT !.rows[i].name = n])
          PROVE  FormInv'
      BY <1>0, <1>n, <2>1, <2>3
    <2>4. ASSUME NEW i, NEW v, st' = Form!updateExpVariantsHint([Form!Edited(st) EXCEPT !.rows[i].values = v])
          PROVE  FormInv'
      BY <1>0, <1>v, <2>1, <2>4
    <2> QED
      BY <1>9, <2>2, <2>3, <2>4 DEF Form!TypeVariant
  <1>10. CASE Form!AddVariant
    <2>1. st.open = "experiment" /\ \E rows : st' = Form!updateExpVariantsHint([Form!Edited(st) EXCEPT !.rows = rows])
      BY <1>10 DEF Form!AddVariant, Form!Edited
    <2> QED
      BY <1>0, <1>r, <2>1
  <1>11. CASE Form!RemoveVariant
    <2>1. st.open = "experiment" /\ \E rows : st' = Form!updateExpVariantsHint([Form!Edited(st) EXCEPT !.rows = rows])
      BY <1>11 DEF Form!RemoveVariant
    <2> QED
      BY <1>0, <1>r, <2>1
  <1>12. CASE Form!Balance
    <2>1. st.open = "experiment" /\ \E rows : st' = Form!applyVariantsBuilderToVariants([Form!Edited(st) EXCEPT !.rows = rows])
      BY <1>12 DEF Form!Balance
    <2> QED
      BY <1>0, <1>r, <2>1
  <1> USE DEF FormInv, FormHas, Form!Edited
  <1>13. CASE Form!SelectFlag
    BY <1>13 DEF Form!SelectFlag
  <1>14. CASE Form!SaveExperiment
    BY <1>14, SaveKeeps DEF Form!SaveExperiment
  <1>15. CASE Form!CloseExperiment
    BY <1>15 DEF Form!CloseExperiment, Form!closeExperimentDialog
  <1> QED
    BY <1>1, <1>2, <1>3, <1>4, <1>5, <1>6, <1>7, <1>8, <1>9, <1>10, <1>11, <1>12, <1>13, <1>14, <1>15
    DEF Form!Next

-----------------------------------------------------------------------------
(* The dialog of a rule. *)

RowFields == {"base", "op", "name", "value", "lo", "hi", "seed"}
HasOp(base, op) == \E k \in DOMAIN Rule!CONDITION_OPS[base] : Rule!CONDITION_OPS[base][k] = op

(* A row shows one of the fields with one of its operators. *)
RowOk(row) == RowFields \subseteq DOMAIN row /\ row.base \in Rule!Bases /\ HasOp(row.base, row.op)

LEMMA BasesAre == Rule!Bases = {"platform", "appVersion", "percentile", "custom"}
  BY DEF Rule!Bases, Rule!CONDITION_OPS

LEMMA FirstOps == \A b \in Rule!Bases : HasOp(b, Rule!CONDITION_OPS[b][1])
  <1> DEFINE O == Rule!CONDITION_OPS
  <1>1. 1 \in DOMAIN O["platform"]
    BY DEF Rule!CONDITION_OPS
  <1>2. 1 \in DOMAIN O["appVersion"]
    BY DEF Rule!CONDITION_OPS
  <1>3. 1 \in DOMAIN O["percentile"]
    BY DEF Rule!CONDITION_OPS
  <1>4. 1 \in DOMAIN O["custom"]
    BY DEF Rule!CONDITION_OPS
  <1> HIDE DEF O
  <1> QED
    BY <1>1, <1>2, <1>3, <1>4, BasesAre DEF O, HasOp

LEMMA Populated ==
  ASSUME NEW row, RowFields \subseteq DOMAIN row, NEW base \in Rule!Bases, NEW op
  PROVE  LET r == Rule!populateRuleOpOptions(row, base, op)
         IN RowOk(r) /\ r.base = base /\ (HasOp(base, op) => r.op = op)
  BY FirstOps DEF RowOk, RowFields, HasOp, Rule!populateRuleOpOptions

LEMMA FreshRow == RowOk(Rule!buildConditionRow) /\ RowOk(Rule!resetRuleBuilder[1]) /\ Rule!resetRuleBuilder \in Seq({Rule!resetRuleBuilder[1]})
  <1>1. HasOp("platform", "==")
    BY DEF HasOp, Rule!CONDITION_OPS
  <1>2. RowFields \subseteq DOMAIN Rule!buildConditionRow
    BY DEF RowFields, Rule!buildConditionRow
  <1>3. Rule!buildConditionRow.base = "platform" /\ Rule!buildConditionRow.op = "=="
    BY DEF Rule!buildConditionRow
  <1>4. RowOk(Rule!buildConditionRow) /\ RowOk([Rule!buildConditionRow EXCEPT !.value = "ios"])
    BY <1>1, <1>2, <1>3, BasesAre DEF RowOk, RowFields
  <1> QED
    BY <1>4 DEF Rule!resetRuleBuilder

LEMMA RowSet ==
  ASSUME NEW row, RowFields \subseteq DOMAIN row, NEW cond, Rule!ruleBaseField(cond) # "none"
  PROVE  LET r == Rule!setRowFromCond(row, cond)
         IN RowOk(r) /\ r.base = Rule!ruleBaseField(cond) /\ (HasOp(r.base, cond.op) => r.op = cond.op)
  <1> DEFINE base == Rule!ruleBaseField(cond)
             r == Rule!populateRuleOpOptions(row, base, cond.op)
  <1>1. base \in Rule!Bases
    BY DEF Rule!ruleBaseField
  <1>2. RowOk(r) /\ r.base = base /\ (HasOp(base, cond.op) => r.op = cond.op)
    BY <1>1, Populated
  <1> HIDE DEF r, base
  <1> QED
    BY <1>2 DEF r, base, RowOk, RowFields, Rule!setRowFromCond, Rule!setBuilderValueInputs

(* What setting a row makes of its inputs. *)
LEMMA RowInputs ==
  ASSUME NEW row, RowFields \subseteq DOMAIN row, NEW cond, Rule!ruleBaseField(cond) # "none"
  PROVE  LET r == Rule!setRowFromCond(row, cond)
             between == r.base = "percentile" /\ r.op = "between"
         IN /\ r.op = IF HasOp(r.base, cond.op) THEN cond.op ELSE Rule!CONDITION_OPS[r.base][1]
            /\ r.seed = cond.seed
            /\ r.name = IF r.base = "custom" THEN cond.name ELSE row.name
            /\ r.value = IF between THEN row.value ELSE Rule!condValueToText(cond.value)
            /\ between => r.lo = Rule!toFiniteNumber(cond.value[2], "0")
            /\ between => r.hi = IF cond.value[1] = "range" THEN Rule!toFiniteNumber(cond.value[3], "9999") ELSE "9999"
  <1> DEFINE base == Rule!ruleBaseField(cond)
             p == Rule!populateRuleOpOptions(row, base, cond.op)
             q == IF p.base = "custom" THEN [p EXCEPT !.name = cond.name] ELSE p
             w == Rule!setBuilderValueInputs(q, cond.value)
             r == Rule!setRowFromCond(row, cond)
  <1>1. /\ RowFields \subseteq DOMAIN p /\ p.base = base /\ p.name = row.name /\ p.value = row.value
        /\ p.op = IF HasOp(base, cond.op) THEN cond.op ELSE Rule!CONDITION_OPS[base][1]
    BY DEF RowFields, HasOp, Rule!populateRuleOpOptions
  <1>2. r = [w EXCEPT !.seed = cond.seed]
    BY DEF Rule!setRowFromCond
  <1> HIDE DEF p, base
  <1>3. /\ RowFields \subseteq DOMAIN q /\ q.base = base /\ q.value = row.value /\ q.op = p.op
        /\ q.name = IF base = "custom" THEN cond.name ELSE row.name
    BY <1>1 DEF RowFields
  <1> HIDE DEF q
  <1>4. /\ RowFields \subseteq DOMAIN w /\ w.base = base /\ w.op = p.op /\ w.name = q.name
        /\ LET between == base = "percentile" /\ p.op = "between"
           IN /\ w.value = IF between THEN row.value ELSE Rule!condValueToText(cond.value)
              /\ between => w.lo = Rule!toFiniteNumber(cond.value[2], "0")
              /\ between => w.hi = IF cond.value[1] = "range" THEN Rule!toFiniteNumber(cond.value[3], "9999") ELSE "9999"
    BY <1>3 DEF RowFields, Rule!setBuilderValueInputs, Rule!isBetween
  <1> HIDE DEF w
  <1>5. /\ r.base = base /\ r.op = p.op /\ r.name = q.name /\ r.value = w.value /\ r.lo = w.lo /\ r.hi = w.hi
        /\ r.seed = cond.seed
    BY <1>2, <1>4 DEF RowFields
  <1> HIDE DEF r
  <1>6. /\ r.op = IF HasOp(r.base, cond.op) THEN cond.op ELSE Rule!CONDITION_OPS[r.base][1]
        /\ r.name = IF r.base = "custom" THEN cond.name ELSE row.name
    BY <1>1, <1>3, <1>5
  <1> QED
    BY <1>4, <1>5, <1>6 DEF r

(* Rows that agree on what their field and operator show look the same.    *)
LEMMA SameLook ==
  ASSUME NEW r, NEW q, r.base \in Rule!Bases, r.base = q.base, r.op = q.op,
         r.base = "custom" => r.name = q.name,
         r.base = "percentile" => r.seed = q.seed,
         r.base = "percentile" /\ r.op = "between" =>
            /\ Rule!toFiniteNumber(r.lo, "0") = Rule!toFiniteNumber(q.lo, "0")
            /\ Rule!toFiniteNumber(r.hi, "9999") = Rule!toFiniteNumber(q.hi, "9999"),
         r.base = "percentile" /\ r.op # "between" =>
            Rule!toFiniteNumber(r.value, "5000") = Rule!toFiniteNumber(q.value, "5000"),
         r.base # "percentile" => r.value = q.value
  PROVE  Rule!Visible(r) = Rule!Visible(q)
  BY BasesAre DEF Rule!Visible, Rule!updateRuleBuilderVisibility, Rule!isBetween

(* Setting a row twice is setting it once. *)
LEMMA SetTwice ==
  ASSUME NEW row, RowFields \subseteq DOMAIN row, NEW cond, Rule!ruleBaseField(cond) # "none"
  PROVE  Rule!Shows(cond, Rule!setRowFromCond(row, cond))
  <1> DEFINE r == Rule!setRowFromCond(row, cond)
             q == Rule!setRowFromCond(r, cond)
  <1>1. RowOk(r) /\ r.base = Rule!ruleBaseField(cond)
    BY RowSet
  <1>2. q.base = Rule!ruleBaseField(cond)
    BY <1>1, RowSet DEF RowOk
  <1>3. /\ r.op = IF HasOp(r.base, cond.op) THEN cond.op ELSE Rule!CONDITION_OPS[r.base][1]
        /\ r.seed = cond.seed
        /\ r.base = "custom" => r.name = cond.name
        /\ ~(r.base = "percentile" /\ r.op = "between") => r.value = Rule!condValueToText(cond.value)
        /\ r.base = "percentile" /\ r.op = "between" => r.lo = Rule!toFiniteNumber(cond.value[2], "0")
        /\ r.base = "percentile" /\ r.op = "between" =>
              r.hi = IF cond.value[1] = "range" THEN Rule!toFiniteNumber(cond.value[3], "9999") ELSE "9999"
    BY RowInputs
  <1>4. /\ q.op = IF HasOp(q.base, cond.op) THEN cond.op ELSE Rule!CONDITION_OPS[q.base][1]
        /\ q.seed = cond.seed
        /\ q.base = "custom" => q.name = cond.name
        /\ ~(q.base = "percentile" /\ q.op = "between") => q.value = Rule!condValueToText(cond.value)
        /\ q.base = "percentile" /\ q.op = "between" => q.lo = Rule!toFiniteNumber(cond.value[2], "0")
        /\ q.base = "percentile" /\ q.op = "between" =>
              q.hi = IF cond.value[1] = "range" THEN Rule!toFiniteNumber(cond.value[3], "9999") ELSE "9999"
    BY <1>1, RowInputs DEF RowOk
  <1> HIDE DEF r, q
  <1>5. q.base \in Rule!Bases /\ r.base = q.base /\ r.op = q.op
    BY <1>1, <1>2, <1>3, <1>4 DEF RowOk
  <1>6. Rule!Visible(q) = Rule!Visible(r)
    BY <1>3, <1>4, <1>5, SameLook
  <1> QED
    BY <1>6 DEF r, q, Rule!Shows

(* A row shows the condition that is written from it, unless that is the   *)
(* null of a custom attribute.                                             *)
LEMMA Written ==
  ASSUME NEW row, RowOk(row), NEW seed
  PROVE  LET cond == Rule!condFromRow(row, seed)
         IN /\ Rule!ruleBaseField(cond) # "none"
            /\ (cond.field = "custom" => cond.value[1] # "null") => Rule!Shows(cond, row)
  <1> DEFINE cond == Rule!condFromRow(row, seed)
             r == Rule!setRowFromCond(row, cond)
             v == Rule!builderValueFor(row)
  <1>1. /\ cond.field = row.base /\ cond.op = row.op /\ cond.value = v
        /\ row.base = "custom" => cond.name = row.name
        /\ row.base = "percentile" => cond.seed = row.seed
    BY DEF Rule!condFromRow
  <1>2. Rule!ruleBaseField(cond) = row.base /\ row.base # "none"
    BY <1>1, BasesAre DEF RowOk, Rule!ruleBaseField
  <1> HIDE DEF cond, v
  <1>3. r.base = row.base /\ r.op = row.op
    BY <1>1, <1>2, RowSet DEF RowOk
  <1>4. /\ r.seed = cond.seed
        /\ r.base = "custom" => r.name = cond.name
        /\ ~(r.base = "percentile" /\ r.op = "between") => r.value = Rule!condValueToText(v)
        /\ r.base = "percentile" /\ r.op = "between" => r.lo = Rule!toFiniteNumber(v[2], "0")
        /\ r.base = "percentile" /\ r.op = "between" =>
              r.hi = IF v[1] = "range" THEN Rule!toFiniteNumber(v[3], "9999") ELSE "9999"
    BY <1>1, <1>2, RowInputs DEF RowOk
  <1> HIDE DEF r
  <1>5. \A t, o : Rule!toFiniteNumber(Rule!toFiniteNumber(t, o), o) = Rule!toFiniteNumber(t, o)
    BY DEF Rule!toFiniteNumber
  <1>6. CASE row.base = "percentile" /\ row.op = "between"
    <2>1. v = <<"range", Rule!toFiniteNumber(row.lo, "0"), Rule!toFiniteNumber(row.hi, "9999")>>
      BY <1>6 DEF v, Rule!builderValueFor, Rule!isBetween
    <2>2. r.lo = Rule!toFiniteNumber(Rule!toFiniteNumber(row.lo, "0"), "0")
          /\ r.hi = Rule!toFiniteNumber(Rule!toFiniteNumber(row.hi, "9999"), "9999")
      BY <1>3, <1>4, <1>6, <2>1
    <2>3. Rule!Visible(r) = Rule!Visible(row)
      BY <1>1, <1>3, <1>4, <1>5, <1>6, <2>2, SameLook DEF RowOk
    <2> QED
      BY <1>2, <2>3 DEF r, cond, Rule!Shows
  <1>7. CASE row.base = "percentile" /\ row.op # "between"
    <2>1. v = <<"n", Rule!toFiniteNumber(row.value, "5000")>>
      BY <1>7 DEF v, Rule!builderValueFor, Rule!isBetween
    <2>2. r.value = Rule!toFiniteNumber(row.value, "5000")
      BY <1>3, <1>4, <1>7, <2>1 DEF Rule!condValueToText
    <2>3. Rule!Visible(r) = Rule!Visible(row)
      BY <1>1, <1>3, <1>4, <1>5, <1>7, <2>2, SameLook DEF RowOk
    <2> QED
      BY <1>2, <2>3 DEF r, cond, Rule!Shows
  <1>8. CASE row.base = "custom"
    <2>1. v = <<Kind[row.value], row.value>>
      BY <1>8 DEF v, Rule!builderValueFor, Rule!isBetween
    <2>2. Kind[row.value] # "null" => r.value = row.value
      BY <1>3, <1>4, <1>8, <2>1 DEF Rule!condValueToText
    <2>3. Kind[row.value] # "null" => Rule!Visible(r) = Rule!Visible(row)
      BY <1>1, <1>3, <1>4, <1>8, <2>2, SameLook DEF RowOk
    <2>4. cond.field = "custom" /\ cond.value[1] = Kind[row.value]
      BY <1>1, <1>8, <2>1
    <2> QED
      BY <1>2, <2>3, <2>4 DEF r, cond, Rule!Shows
  <1>9. CASE row.base \notin {"percentile", "custom"}
    <2>1. v = <<"s", row.value>>
      BY <1>9 DEF v, Rule!builderValueFor, Rule!isBetween
    <2>2. r.value = row.value
      BY <1>3, <1>4, <1>9, <2>1 DEF Rule!condValueToText
    <2>3. Rule!Visible(r) = Rule!Visible(row)
      BY <1>1, <1>3, <1>4, <1>9, <2>2, SameLook DEF RowOk
    <2> QED
      BY <1>2, <2>3 DEF r, cond, Rule!Shows
  <1> QED
    BY <1>6, <1>7, <1>8, <1>9

RuleHas(s) == {"active", "open", "json", "id", "flag", "text", "value", "rows", "dirty", "staged", "moves"} \subseteq DOMAIN s
RowsOk(rows) == AList(rows) /\ \A i \in DOMAIN rows : RowOk(rows[i])

Agrees(s) ==
    Rule!Showable(s.text) =>
      /\ Len(s.rows) = Len(s.text.conds)
      /\ \A i \in DOMAIN s.rows : Rule!Shows(s.text.conds[i], s.rows[i])

RuleInv ==
    /\ RuleHas(st)
    /\ RowsOk(st.rows)
    /\ AList(st.text.conds) /\ AList(st.json.conds)
    /\ st.open => Agrees(st)

LEMMA ListOf == ASSUME NEW s, NEW n \in Nat, s = [i \in 1..n |-> s[i]] PROVE AList(s) /\ Len(s) = n /\ DOMAIN s = 1..n
  BY DEF AList

LEMMA ListIs == ASSUME NEW s, AList(s) PROVE Len(s) \in Nat /\ DOMAIN s = 1..Len(s) /\ s = [i \in 1..Len(s) |-> s[i]]
  BY DEF AList

(* What the rows and the text are set from leaves the rest of the dialog alone. *)
SameDialog(s, t) ==
    /\ RuleHas(t) /\ t.open = s.open /\ t.json = s.json /\ t.moves = s.moves

LEMMA FreshRows == RowsOk(Rule!resetRuleBuilder)
  BY FreshRow DEF RowsOk, AList, Rule!resetRuleBuilder

LEMMA Sync ==
  ASSUME NEW s, RuleHas(s), RowsOk(s.rows), AList(s.text.conds)
  PROVE  LET t == Rule!syncRuleBuilderFromCondition(s)
         IN SameDialog(s, t) /\ t.text = s.text /\ RowsOk(t.rows) /\ Agrees(t)
  <1> DEFINE conds == s.text.conds
             n == IF Len(conds) < MAX_CONDS THEN Len(conds) ELSE MAX_CONDS
             first == SubSeq(conds, 1, n)
             row(i) == IF i \in DOMAIN s.rows THEN s.rows[i] ELSE Rule!buildConditionRow
             t == Rule!syncRuleBuilderFromCondition(s)
             none == ~Rule!parseRuleConditionInput(s.text) \/ \E i \in DOMAIN first : Rule!ruleBaseField(first[i]) = "none"
             rows == [i \in 1..n |-> Rule!setRowFromCond(row(i), first[i])]
  <1>1. n \in Nat /\ n <= Len(conds) /\ n <= MAX_CONDS /\ DOMAIN first = 1..n /\ (\A i \in 1..n : first[i] = conds[i])
    <2>1. Len(conds) \in Nat /\ conds \in Seq({conds[i] : i \in DOMAIN conds})
      BY ListIs DEF AList
    <2>2. n \in Nat /\ n <= Len(conds) /\ n <= MAX_CONDS
      BY <2>1, CondLists
    <2> HIDE DEF n, conds
    <2> QED
      BY <2>1, <2>2
  <1>2. t = IF none THEN s ELSE [s EXCEPT !.rows = rows]
    BY DEF Rule!syncRuleBuilderFromCondition
  <1>3. \A i \in 1..n : RowFields \subseteq DOMAIN row(i)
    BY FreshRow DEF RowsOk, RowOk
  <1> HIDE DEF n, first, row, t
  <1>4. CASE none
    <2>1. t = s
      BY <1>2, <1>4
    <2>2. ~Rule!Showable(s.text)
      BY <1>1, <1>4, ListIs DEF Rule!Showable, Rule!parseRuleConditionInput
    <2> QED
      BY <2>1, <2>2 DEF t, SameDialog, Agrees
  <1>5. CASE ~none
    <2>1. t = [s EXCEPT !.rows = rows]
      BY <1>2, <1>5
    <2>2. SameDialog(s, t) /\ t.text = s.text /\ t.rows = rows
      BY <2>1 DEF RuleHas, SameDialog
    <2>3. AList(rows) /\ Len(rows) = n /\ DOMAIN rows = 1..n
      <3> DEFINE f == rows
      <3>1. f = [i \in 1..n |-> f[i]]
        OBVIOUS
      <3> HIDE DEF f
      <3>2. AList(f) /\ Len(f) = n /\ DOMAIN f = 1..n
        BY <1>1, <3>1, ListOf
      <3> QED
        BY <3>2 DEF f
    <2>4. ASSUME NEW i \in 1..n PROVE RowOk(rows[i]) /\ Rule!Shows(conds[i], rows[i])
      <3>1. Rule!ruleBaseField(conds[i]) # "none" /\ rows[i] = Rule!setRowFromCond(row(i), conds[i])
        BY <1>1, <1>5
      <3> QED
        BY <1>3, <3>1, RowSet, SetTwice
    <2>5. Rule!Showable(s.text) => n = Len(conds)
      BY <1>1 DEF Rule!Showable, n
    <2> HIDE DEF rows, none
    <2>6. Agrees(t)
      BY <2>2, <2>3, <2>4, <2>5 DEF Agrees
    <2> QED
      BY <2>2, <2>3, <2>4, <2>6 DEF t, RowsOk
  <1> QED
    BY <1>4, <1>5

LEMMA Apply ==
  ASSUME NEW s, RuleHas(s), RowsOk(s.rows)
  PROVE  LET t == Rule!applyRuleBuilderToCondition(s)
         IN SameDialog(s, t) /\ t.rows = s.rows /\ AList(t.text.conds) /\ Agrees(t)
  <1> DEFINE t == Rule!applyRuleBuilderToCondition(s)
             seed(i) == IF i \in DOMAIN s.text.conds THEN s.text.conds[i].seed ELSE ""
             conds == [i \in DOMAIN s.rows |-> Rule!condFromRow(s.rows[i], seed(i))]
             n == Len(s.rows)
  <1>1. t = [s EXCEPT !.text = [kind |-> IF Len(conds) > 1 THEN "many" ELSE "one", conds |-> conds]]
    BY DEF Rule!applyRuleBuilderToCondition, Rule!writeConditionInput
  <1>2. SameDialog(s, t) /\ t.rows = s.rows /\ t.text.conds = conds
    <2> DEFINE text == [kind |-> IF Len(conds) > 1 THEN "many" ELSE "one", conds |-> conds]
    <2>1. text.conds = conds
      OBVIOUS
    <2>2. t = [s EXCEPT !.text = text]
      BY <1>1
    <2> HIDE DEF text, conds, t
    <2> QED
      BY <2>1, <2>2 DEF RuleHas, SameDialog
  <1>3. n \in Nat /\ DOMAIN s.rows = 1..n
    BY ListIs DEF RowsOk
  <1>4. AList(conds) /\ Len(conds) = n /\ DOMAIN conds = 1..n
    <2> DEFINE f == conds
    <2>1. f = [i \in 1..n |-> f[i]]
      BY <1>3
    <2> HIDE DEF f
    <2>2. AList(f) /\ Len(f) = n /\ DOMAIN f = 1..n
      BY <1>3, <2>1, ListOf
    <2> QED
      BY <2>2 DEF f
  <1>5. ASSUME NEW i \in 1..n
        PROVE  (conds[i].field = "custom" => conds[i].value[1] # "null") => Rule!Shows(conds[i], s.rows[i])
    BY <1>3, Written DEF RowsOk
  <1> HIDE DEF t, conds
  <1>6. Agrees(t)
    BY <1>2, <1>3, <1>4, <1>5 DEF Agrees, Rule!Showable
  <1> QED
    BY <1>2, <1>4, <1>6 DEF t

LEMMA FreshText == AList(Rule!DefaultCondition.conds) /\ AList(Rule!NoJson.conds)
  <1>1. Rule!DefaultCondition.conds = <<[field |-> "platform", name |-> "", op |-> "==", value |-> <<"s", "ios">>, seed |-> ""]>>
    BY DEF Rule!DefaultCondition, Rule!One
  <1>2. \A x : AList(<<x>>)
    BY DEF AList
  <1>3. Rule!NoJson.conds = <<>>
    BY DEF Rule!NoJson
  <1>4. AList(<<>>)
    BY DEF AList
  <1> QED
    BY <1>1, <1>2, <1>3, <1>4

LEMMA ResetSyncs ==
  ASSUME NEW s, RuleHas(s), NEW flag
  PROVE  LET t == Rule!resetFlagRuleForm(s, flag)
         IN SameDialog(s, t) /\ RowsOk(t.rows) /\ AList(t.text.conds) /\ Agrees(t)
  <1> DEFINE g == [s EXCEPT !.id = None, !.text = Rule!DefaultCondition,
                            !.value = [text |-> RuleFlags[flag], good |-> TRUE],
                            !.rows = Rule!resetRuleBuilder, !.dirty = FALSE]
  <1>1. SameDialog(s, g) /\ g.rows = Rule!resetRuleBuilder /\ g.text = Rule!DefaultCondition
    BY DEF RuleHas, SameDialog
  <1>2. Rule!resetFlagRuleForm(s, flag) = Rule!syncRuleBuilderFromCondition(g)
    BY DEF Rule!resetFlagRuleForm
  <1> HIDE DEF g
  <1> QED
    BY <1>1, <1>2, FreshRows, FreshText, Sync DEF SameDialog

LEMMA FillSyncs ==
  ASSUME NEW s, RuleHas(s), RowsOk(s.rows), NEW id \in DOMAIN Rules
  PROVE  LET t == Rule!fillRuleForm(s, id)
         IN SameDialog(s, t) /\ RowsOk(t.rows) /\ AList(t.text.conds) /\ Agrees(t)
  <1> DEFINE g == [s EXCEPT !.id = id, !.flag = Rules[id].flag, !.text = Rules[id].condition,
                            !.value = [text |-> Rules[id].value, good |-> TRUE]]
  <1>1. SameDialog(s, g) /\ g.rows = s.rows /\ g.text = Rules[id].condition
    BY DEF RuleHas, SameDialog
  <1>2. Rule!fillRuleForm(s, id) = Rule!syncRuleBuilderFromCondition(g)
    BY DEF Rule!fillRuleForm
  <1> HIDE DEF g
  <1> QED
    BY <1>1, <1>2, CondLists, Sync DEF SameDialog

LEMMA TypedSyncs ==
  ASSUME NEW s, RuleHas(s), RowsOk(s.rows), NEW text, AList(text.conds)
  PROVE  LET t == Rule!syncRuleBuilderFromCondition([s EXCEPT !.text = text])
         IN SameDialog(s, t) /\ RowsOk(t.rows) /\ AList(t.text.conds) /\ Agrees(t)
  <1> DEFINE g == [s EXCEPT !.text = text]
  <1>1. SameDialog(s, g) /\ g.rows = s.rows /\ g.text = text
    BY DEF RuleHas, SameDialog
  <1> HIDE DEF g
  <1>2. LET t == Rule!syncRuleBuilderFromCondition(g)
        IN SameDialog(s, t) /\ RowsOk(t.rows) /\ AList(t.text.conds) /\ Agrees(t)
    BY <1>1, Sync DEF SameDialog
  <1> QED
    BY <1>2 DEF g

(* A row is changed for another. *)
LEMMA RowChanged ==
  ASSUME NEW rows, RowsOk(rows), NEW i \in DOMAIN rows, NEW row, RowOk(row)
  PROVE  RowsOk([rows EXCEPT ![i] = row])
  <1> DEFINE t == [rows EXCEPT ![i] = row]
  <1>1. Len(rows) \in Nat /\ DOMAIN rows = 1..Len(rows)
    BY ListIs DEF RowsOk
  <1>2. t = [j \in 1..Len(rows) |-> t[j]] /\ \A j \in 1..Len(rows) : RowOk(t[j])
    BY <1>1 DEF RowsOk
  <1> HIDE DEF t
  <1>3. AList(t) /\ DOMAIN t = 1..Len(rows)
    BY <1>1, <1>2, ListOf
  <1> QED
    BY <1>2, <1>3 DEF RowsOk, t

LEMMA RowEvent ==
  ASSUME NEW s, RuleHas(s), RowsOk(s.rows), NEW i \in DOMAIN s.rows, NEW row, RowOk(row), NEW g,
         RuleHas(g), SameDialog(s, g), g.rows = [s.rows EXCEPT ![i] = row]
  PROVE  LET t == Rule!applyRuleBuilderToCondition(g)
         IN SameDialog(s, t) /\ RowsOk(t.rows) /\ AList(t.text.conds) /\ Agrees(t)
  BY RowChanged, Apply DEF SameDialog

LEMMA RuleInit == Rule!Init => RuleInv
  <1> SUFFICES ASSUME Rule!Init PROVE RuleInv
    OBVIOUS
  <1>1. /\ RuleHas(st) /\ st.open = FALSE /\ st.rows = Rule!resetRuleBuilder
        /\ st.text = Rule!DefaultCondition /\ st.json = Rule!NoJson
    BY DEF Rule!Init, RuleHas
  <1> QED
    BY <1>1, FreshText, FreshRows DEF RuleInv

LEMMA RemovedList ==
  ASSUME NEW s, AList(s), NEW k \in 1..Len(s)
  PROVE  LET t == Rule!RemoveAt(s, k)
         IN AList(t) /\ \A i \in DOMAIN t : \E j \in DOMAIN s : t[i] = s[j]
  <1> DEFINE S == {s[i] : i \in DOMAIN s}
             t == Rule!RemoveAt(s, k)
  <1>1. s \in Seq(S) /\ Len(s) \in Nat
    BY ListIs DEF AList
  <1> HIDE DEF S
  <1>2. SubSeq(s, 1, k - 1) \in Seq(S) /\ SubSeq(s, k + 1, Len(s)) \in Seq(S)
    BY <1>1
  <1>3. t \in Seq(S)
    BY <1>2 DEF Rule!RemoveAt
  <1> HIDE DEF t
  <1>4. AList(t) /\ \A i \in DOMAIN t : t[i] \in S
    <2>1. Len(t) \in Nat /\ t = [i \in 1..Len(t) |-> t[i]] /\ \A i \in 1..Len(t) : t[i] \in S
      BY <1>3
    <2> QED
      BY <2>1, ListOf
  <1> QED
    BY <1>4 DEF S, t

LEMMA DialogSettles ==
  ASSUME RuleInv, NEW f, SameDialog(st, f), RowsOk(f.rows), AList(f.text.conds), Agrees(f),
         st' = Rule!Move(f) \/ st' = Rule!Move(Rule!Dirty(f))
  PROVE  RuleInv'
  BY DEF RuleInv, RuleHas, SameDialog, Agrees, Rule!Move, Rule!Dirty

LEMMA RowAdded ==
  ASSUME NEW rows, RowsOk(rows), NEW row, RowOk(row) PROVE RowsOk(Append(rows, row))
  <1> DEFINE t == Append(rows, row)
             n == Len(rows)
             S == {rows[i] : i \in DOMAIN rows} \union {row}
  <1>1. n \in Nat /\ DOMAIN rows = 1..n /\ rows = [i \in 1..n |-> rows[i]]
    BY ListIs DEF RowsOk
  <1>2. rows \in Seq(S) /\ \A r \in S : RowOk(r)
    BY <1>1 DEF RowsOk
  <1>3. t \in Seq(S)
    BY <1>2
  <1> HIDE DEF t, S
  <1>4. Len(t) \in Nat /\ t = [i \in 1..Len(t) |-> t[i]] /\ \A i \in 1..Len(t) : t[i] \in S
    BY <1>3
  <1>5. AList(t) /\ DOMAIN t = 1..Len(t)
    BY <1>4, ListOf
  <1> QED
    BY <1>2, <1>4, <1>5 DEF t, RowsOk

LEMMA RowChanges == ASSUME RuleInv, Rule!ChangeRow PROVE RuleInv'
  <1>1. PICK i \in DOMAIN st.rows :
           \/ \E b \in Rule!Bases \ {st.rows[i].base} : st' = Rule!Move(Rule!Dirty(Rule!condRowEvent(st, i, "field", b)))
           \/ \E o \in Rule!Range(Rule!CONDITION_OPS[st.rows[i].base]) :
                 st' = Rule!Move(Rule!Dirty(Rule!condRowEvent(st, i, "op", o)))
           \/ \E c \in Rule!updateRuleBuilderVisibility(st.rows[i]), t \in DOMAIN Kind :
                 st' = Rule!Move(Rule!Dirty(Rule!condRowEvent(st, i, c, t)))
    BY DEF Rule!ChangeRow
  <1> DEFINE row == st.rows[i]
  <1>0. RuleHas(st) /\ RowsOk(st.rows) /\ RowOk(row)
    BY DEF RuleInv, RowsOk
  <1>2. ASSUME NEW b \in Rule!Bases, st' = Rule!Move(Rule!Dirty(Rule!condRowEvent(st, i, "field", b)))
        PROVE  RuleInv'
    <2> DEFINE g == Rule!refreshCondRow(st, i, b)
               new == Rule!populateRuleOpOptions(row, b, row.op)
               t == Rule!applyRuleBuilderToCondition(g)
    <2>1. SameDialog(st, g) /\ g.rows = [st.rows EXCEPT ![i] = new]
      BY <1>0 DEF Rule!refreshCondRow, RuleHas, SameDialog
    <2>2. RowOk(new)
      BY <1>0, Populated DEF RowOk
    <2>3. st' = Rule!Move(Rule!Dirty(t))
      BY <1>2 DEF Rule!condRowEvent
    <2> HIDE DEF g, new
    <2>4. SameDialog(st, t) /\ RowsOk(t.rows) /\ AList(t.text.conds) /\ Agrees(t)
      BY <1>0, <2>1, <2>2, RowEvent DEF SameDialog
    <2> HIDE DEF t
    <2> QED
      BY <2>3, <2>4, DialogSettles
  <1>3. ASSUME NEW o \in Rule!Range(Rule!CONDITION_OPS[row.base]),
               st' = Rule!Move(Rule!Dirty(Rule!condRowEvent(st, i, "op", o)))
        PROVE  RuleInv'
    <2> DEFINE g == [st EXCEPT !.rows[i].op = o]
               new == [row EXCEPT !.op = o]
               t == Rule!applyRuleBuilderToCondition(g)
    <2>1. SameDialog(st, g) /\ g.rows = [st.rows EXCEPT ![i] = new]
      BY <1>0 DEF RuleHas, SameDialog
    <2>2. HasOp(row.base, o)
      BY DEF Rule!Range, HasOp
    <2>3. RowOk(new)
      BY <1>0, <2>2 DEF RowOk, RowFields
    <2>4. st' = Rule!Move(Rule!Dirty(t))
      BY <1>3 DEF Rule!condRowEvent
    <2> HIDE DEF g, new
    <2>5. SameDialog(st, t) /\ RowsOk(t.rows) /\ AList(t.text.conds) /\ Agrees(t)
      BY <1>0, <2>1, <2>3, RowEvent DEF SameDialog
    <2> HIDE DEF t
    <2> QED
      BY <2>4, <2>5, DialogSettles
  <1>4. ASSUME NEW c \in {"value", "lo", "hi", "name", "seed"}, NEW v,
               st' = Rule!Move(Rule!Dirty(Rule!condRowEvent(st, i, c, v)))
        PROVE  RuleInv'
    <2> DEFINE g == [st EXCEPT !.rows[i][c] = v]
               new == [row EXCEPT ![c] = v]
               t == Rule!applyRuleBuilderToCondition(g)
    <2>1. SameDialog(st, g) /\ g.rows = [st.rows EXCEPT ![i] = new]
      BY <1>0 DEF RuleHas, SameDialog
    <2>2. RowOk(new)
      BY <1>0 DEF RowOk, RowFields
    <2>3. st' = Rule!Move(Rule!Dirty(t))
      BY <1>4 DEF Rule!condRowEvent
    <2> HIDE DEF g, new
    <2>4. SameDialog(st, t) /\ RowsOk(t.rows) /\ AList(t.text.conds) /\ Agrees(t)
      BY <1>0, <2>1, <2>2, RowEvent DEF SameDialog
    <2> HIDE DEF t
    <2> QED
      BY <2>3, <2>4, DialogSettles
  <1>5. Rule!updateRuleBuilderVisibility(row) \subseteq {"value", "lo", "hi", "name", "seed"}
    BY DEF Rule!updateRuleBuilderVisibility
  <1> QED
    BY <1>1, <1>2, <1>3, <1>4, <1>5

LEMMA RuleStep == ASSUME RuleInv, Rule!Next PROVE RuleInv'
  <1> USE DEF RuleInv, RuleHas
  <1>1. CASE Rule!OpenRules
    BY <1>1 DEF Rule!OpenRules, Rule!openFlagRulesDialog, Agrees
  <1>2. CASE Rule!CloseRules
    BY <1>2 DEF Rule!CloseRules, Rule!closeFlagRulesDialog, Agrees
  <1>3. CASE Rule!OpenRule
    <2>1. PICK id \in {r \in DOMAIN Rules : Rules[r].flag = st.active} \union {None} :
             st' = Rule!Move(Rule!openRuleDialog(st, id))
      BY <1>3 DEF Rule!OpenRule
    <2> DEFINE f == IF id = None THEN [Rule!resetFlagRuleForm(st, st.active) EXCEPT !.flag = st.active]
                    ELSE Rule!fillRuleForm([st EXCEPT !.active = Rules[id].flag], id)
    <2>2. SameDialog(st, f) /\ RowsOk(f.rows) /\ AList(f.text.conds) /\ Agrees(f)
      <3>1. CASE id = None
        <4> DEFINE g == Rule!resetFlagRuleForm(st, st.active)
        <4>1. SameDialog(st, g) /\ RowsOk(g.rows) /\ AList(g.text.conds) /\ Agrees(g)
          BY ResetSyncs
        <4>2. f = [g EXCEPT !.flag = st.active]
          BY <3>1
        <4> HIDE DEF f, g
        <4> QED
          BY <4>1, <4>2 DEF SameDialog, Agrees
      <3>2. CASE id # None
        <4> DEFINE g == [st EXCEPT !.active = Rules[id].flag]
        <4>1. RuleHas(g) /\ g.rows = st.rows /\ g.open = st.open /\ g.json = st.json /\ g.moves = st.moves
          OBVIOUS
        <4>2. id \in DOMAIN Rules /\ f = Rule!fillRuleForm(g, id)
          BY <3>2
        <4> HIDE DEF f, g
        <4> QED
          BY <4>1, <4>2, FillSyncs DEF SameDialog
      <3> QED
        BY <3>1, <3>2
    <2>3. st' = Rule!Move([f EXCEPT !.open = TRUE, !.dirty = FALSE])
      BY <2>1 DEF Rule!openRuleDialog
    <2> HIDE DEF f
    <2> QED
      BY <2>2, <2>3 DEF SameDialog, Agrees, Rule!Move
  <1>4. CASE Rule!CloseRule
    BY <1>4 DEF Rule!CloseRule, Rule!closeRuleDialog, Agrees
  <1>5. CASE Rule!Clear
    BY <1>5, ResetSyncs DEF Rule!Clear, Rule!Move, SameDialog, Agrees
  <1>6. CASE Rule!ChangeRow
    BY <1>6, RowChanges
  <1>7. CASE Rule!AddRow
    <2> DEFINE g == Rule!addConditionRow(st)
               t == Rule!applyRuleBuilderToCondition(g)
    <2>1. st' = Rule!Move(t)
      BY <1>7 DEF Rule!AddRow
    <2>2. SameDialog(st, g) /\ g.rows \in {st.rows, Append(st.rows, Rule!buildConditionRow)}
      BY DEF Rule!addConditionRow, SameDialog
    <2>3. RowsOk(Append(st.rows, Rule!buildConditionRow))
      BY RowAdded, FreshRow
    <2> HIDE DEF g
    <2>4. SameDialog(st, t) /\ RowsOk(t.rows) /\ AList(t.text.conds) /\ Agrees(t)
      BY <2>2, <2>3, Apply DEF SameDialog
    <2> HIDE DEF t
    <2> QED
      BY <2>1, <2>4, DialogSettles
  <1>8. CASE Rule!RemoveRow
    <2>1. PICK i \in DOMAIN st.rows : st' = Rule!Move(Rule!applyRuleBuilderToCondition(Rule!removeConditionRow(st, i)))
      BY <1>8 DEF Rule!RemoveRow
    <2> DEFINE k == IF i = 1 THEN Len(st.rows) ELSE i
               g == Rule!removeConditionRow(st, i)
               t == Rule!applyRuleBuilderToCondition(g)
    <2>2. k \in 1..Len(st.rows)
      BY ListIs DEF RowsOk
    <2>3. SameDialog(st, g) /\ g.rows \in {st.rows, Rule!RemoveAt(st.rows, k)}
      BY DEF Rule!removeConditionRow, SameDialog
    <2> HIDE DEF k
    <2>4. RowsOk(Rule!RemoveAt(st.rows, k))
      BY <2>2, RemovedList DEF RowsOk
    <2>5. st' = Rule!Move(t)
      BY <2>1
    <2> HIDE DEF g
    <2>6. SameDialog(st, t) /\ RowsOk(t.rows) /\ AList(t.text.conds) /\ Agrees(t)
      BY <2>3, <2>4, Apply DEF SameDialog
    <2> HIDE DEF t
    <2> QED
      BY <2>5, <2>6, DialogSettles
  <1>9. CASE Rule!TypeCondition
    <2>1. PICK t \in TypedConds :
             st' = Rule!Move(Rule!Dirty(Rule!syncRuleBuilderFromCondition([st EXCEPT !.text = t])))
      BY <1>9 DEF Rule!TypeCondition
    <2> DEFINE f == Rule!syncRuleBuilderFromCondition([st EXCEPT !.text = t])
    <2>2. SameDialog(st, f) /\ RowsOk(f.rows) /\ AList(f.text.conds) /\ Agrees(f)
      BY CondLists, TypedSyncs
    <2>3. st' = Rule!Move(Rule!Dirty(f))
      BY <2>1
    <2> HIDE DEF f
    <2> QED
      BY <2>2, <2>3, DialogSettles
  <1>10. CASE Rule!TypeValue
    BY <1>10 DEF Rule!TypeValue, Rule!Dirty, Rule!Move, Agrees
  <1>11. CASE Rule!OpenJson
    BY <1>11 DEF Rule!OpenJson, Rule!openJsonEditorFor, Agrees
  <1>12. CASE Rule!TypeJson
    BY <1>12, CondLists DEF Rule!TypeJson, Rule!Move, Agrees
  <1>13. CASE Rule!CloseJson
    <2>1. CASE st' = [st EXCEPT !.json = Rule!NoJson] \/ st' = st
      BY <2>1, FreshText DEF Agrees
    <2>2. CASE st' = Rule!syncRuleBuilderFromCondition([st EXCEPT !.text = st.json, !.json = Rule!NoJson])
      <3> DEFINE g == [st EXCEPT !.text = st.json, !.json = Rule!NoJson]
      <3>1. RuleHas(g) /\ g.rows = st.rows /\ g.text = st.json /\ g.json = Rule!NoJson
        OBVIOUS
      <3>2. st' = Rule!syncRuleBuilderFromCondition(g)
        BY <2>2
      <3> HIDE DEF g
      <3> QED
        BY <3>1, <3>2, FreshText, Sync DEF SameDialog
    <2> QED
      BY <1>13, <2>1, <2>2 DEF Rule!CloseJson, Rule!closeJsonEditor
  <1>14. CASE Rule!Save
    BY <1>14 DEF Rule!Save, Rule!saveFlagRule, Rule!closeRuleDialog, Rule!Move, Agrees
  <1> QED
    BY <1>1, <1>2, <1>3, <1>4, <1>5, <1>6, <1>7, <1>8, <1>9, <1>10, <1>11, <1>12, <1>13, <1>14 DEF Rule!Next

-----------------------------------------------------------------------------
(* The limits card. *)

LimFields == {"server", "known", "rate", "allow", "headers", "badge", "dirty", "out", "missed", "net", "moves"}
LimHas(s) == LimFields \subseteq DOMAIN s

LimUnchecked(body) == ~Limits!WithinPlan(body.rate) \/ ~Limits!Addresses(Limits!Normalized(body.allow))

(* What a request carries the server takes but for what the page does not  *)
(* check; what an answer carries is what the server has.                   *)
LimAsk(m, server) ==
    /\ {"what", "body", "out", "data"} \subseteq DOMAIN m
    /\ m.what \in {"load", "put"} /\ m.out \in {"", "ok", "denied", "lost", "bad"}
    /\ m.what = "put" => Limits!Sane(m.body.rate) /\ Limits!HeadersTaken(m.body.headers)
    /\ m.what = "put" /\ m.out = "bad" => LimUnchecked(m.body)
    /\ m.what = "load" /\ m.body # None =>
          {"rate", "headers"} \subseteq DOMAIN m.body /\ Limits!HeadersTaken(m.body.headers)
    /\ m.out = "ok" => m.data = server
    /\ m.what = "load" => m.out # "bad"

(* A request that saves was sent from a card with edits, which keep it     *)
(* marked until the answer.                                                *)
LimMarked(m, dirty) == m.what = "put" \/ m.body # None => dirty # {}

LimServer(server) ==
    /\ server = [rate |-> server.rate, allow |-> server.allow, headers |-> server.headers]
    /\ Limits!Sane(server.rate)

LimBase(s) ==
    /\ LimHas(s) /\ LimServer(s.server)
    /\ s.known # None => Limits!Sane(s.known.rate)

LimShows(s) == s.rate = s.server.rate /\ s.allow = s.server.allow /\ s.headers = s.server.headers

LimInv(s) ==
    /\ LimBase(s)
    /\ \A m \in s.net : LimAsk(m, s.server) /\ LimMarked(m, s.dirty) /\ m.out # "lost" /\ s.net = {m}
    /\ s.net = {} /\ ~s.missed /\ ~s.out /\ s.dirty = {} => LimShows(s)

(* A message is sent when none is under way. *)
LEMMA LimSent ==
  ASSUME NEW s, LimBase(s), s.net = {}, NEW what \in {"load", "put"}, NEW body,
         what = "put" => Limits!Sane(body.rate) /\ Limits!HeadersTaken(body.headers),
         what = "load" /\ body # None => {"rate", "headers"} \subseteq DOMAIN body /\ Limits!HeadersTaken(body.headers),
         what = "put" \/ body # None => s.dirty # {}
  PROVE  LimInv(Limits!Send(s, Limits!Request(what, body)))
  <1> DEFINE m == Limits!Request(what, body)
             t == Limits!Send(s, m)
  <1>1. m.what = what /\ m.body = body /\ m.out = "" /\ {"what", "body", "out", "data"} \subseteq DOMAIN m
    BY DEF Limits!Request
  <1> HIDE DEF m
  <1>2. LimHas(t) /\ t.server = s.server /\ t.known = s.known /\ t.net = {m} /\ t.dirty = s.dirty
    BY DEF LimBase, LimHas, LimFields, Limits!Send
  <1> HIDE DEF t
  <1>3. LimAsk(m, t.server) /\ LimMarked(m, t.dirty) /\ m.out # "lost"
    BY <1>1, <1>2 DEF LimAsk, LimMarked
  <1>4. LimBase(t)
    BY <1>2 DEF LimBase
  <1> QED
    BY <1>2, <1>3, <1>4 DEF LimInv, m, t

LEMMA LimLoads ==
  ASSUME NEW s, LimBase(s), s.net = {}
  PROVE  LimInv(Limits!loadLimits(s, None))
  BY LimSent DEF Limits!loadLimits

LEMMA LimLoadsFor ==
  ASSUME NEW s, LimBase(s), s.net = {}, s.dirty # {}, NEW body,
         {"rate", "headers"} \subseteq DOMAIN body, Limits!HeadersTaken(body.headers)
  PROVE  LimInv(Limits!loadLimits(s, body))
  BY LimSent DEF Limits!loadLimits

LEMMA LimPuts ==
  ASSUME NEW s, LimBase(s), s.net = {}, s.dirty # {}, NEW body, Limits!Sane(body.rate), Limits!HeadersTaken(body.headers)
  PROVE  LimInv(Limits!putLimits(s, body))
  BY LimSent DEF Limits!putLimits

LEMMA LimRendered ==
  ASSUME NEW s, LimBase(s)
  PROVE  LET t == Limits!renderLimits(s, s.server)
         IN LimBase(t) /\ t.server = s.server /\ t.net = s.net /\ t.out = s.out /\ t.missed = s.missed
            /\ t.known = s.server /\ t.dirty = s.dirty /\ LimShows(t)
  <1> DEFINE t == Limits!renderLimits(s, s.server)
  <1>1. /\ LimHas(t) /\ t.server = s.server /\ t.net = s.net /\ t.out = s.out /\ t.missed = s.missed
        /\ t.known = s.server /\ t.dirty = s.dirty /\ t.rate = s.server.rate /\ t.allow = s.server.allow /\ t.headers = s.server.headers
    BY DEF LimBase, LimHas, LimFields, Limits!renderLimits, Limits!setInputs, Limits!renderCurrentIP, Limits!ipsToString
  <1> HIDE DEF t
  <1>2. LimBase(t) /\ LimShows(t)
    BY <1>1 DEF LimBase, LimServer, LimShows
  <1> QED
    BY <1>1, <1>2 DEF t

LEMMA LimSendsAdmin ==
  ASSUME NEW s, LimBase(s), s.net = {}, s.dirty # {}, NEW body,
         {"rate", "headers"} \subseteq DOMAIN body, Limits!HeadersTaken(body.headers)
  PROVE  LimInv(Limits!SendAdminLimit(s, body))
  <1> DEFINE r == Limits!currentVal(s, Limits!Junk)
  <1>1. ASSUME NEW v PROVE LET b == [body EXCEPT !.rate = v]
                           IN {"rate", "headers"} \subseteq DOMAIN b /\ b.rate = v /\ b.headers = body.headers
    OBVIOUS
  <1>2. CASE Limits!Sane(r)
    BY <1>1, <1>2, LimPuts DEF Limits!SendAdminLimit
  <1>3. CASE ~Limits!Sane(r)
    BY <1>1, <1>3, LimLoadsFor DEF Limits!SendAdminLimit
  <1> QED
    BY <1>2, <1>3

LEMMA LimAnswered ==
  ASSUME NEW s, LimBase(s), s.net = {}, NEW m, LimAsk(m, s.server), LimMarked(m, s.dirty), m.out # "",
         m.out = "lost" => s.missed
  PROVE  LimInv(Limits!Answered(s, m))
  <1> DEFINE t == IF m.out = "denied" THEN [s EXCEPT !.out = TRUE] ELSE s
  <1>1. LimBase(t) /\ t.net = {} /\ t.server = s.server /\ t.missed = s.missed /\ t.dirty = s.dirty
        /\ (m.out = "denied" => t.out)
    BY DEF LimBase, LimHas, LimFields
  <1> HIDE DEF t
  <1>0. m.out \in {"ok", "denied", "lost", "bad"} /\ m.what \in {"load", "put"}
    BY DEF LimAsk
  <1>a. CASE m.out # "ok"
    <2>1. ASSUME NEW u, u = t PROVE LimInv(u)
      BY <1>1, <1>0, <1>a, <2>1 DEF LimInv, LimAsk, LimMarked
    <2>2. CASE m.what = "put"
      BY <1>a, <2>1, <2>2 DEF Limits!Answered, Limits!PutAnswered, t
    <2>3. CASE m.what = "load" /\ m.body = None
      BY <1>a, <2>1, <2>3 DEF Limits!Answered, Limits!LimitsLoaded, t
    <2>4. CASE m.what = "load" /\ m.body # None
      <3>1. Limits!Answered(s, m) = IF m.body.rate = Limits!Junk THEN Limits!SendAdminLimit(t, m.body) ELSE t
        BY <1>a, <2>4 DEF Limits!Answered, Limits!LimitsLoaded, t
      <3>2. LimInv(Limits!SendAdminLimit(t, m.body))
        BY <1>1, <2>4, LimSendsAdmin DEF LimAsk, LimMarked
      <3> QED
        BY <3>1, <3>2, <2>1
    <2> QED
      BY <1>0, <2>2, <2>3, <2>4
  <1>b. CASE m.out = "ok"
    <2>0. t = s /\ m.data = s.server
      BY <1>b DEF LimAsk, t
    <2> DEFINE u == Limits!renderLimits(s, s.server)
    <2>1. LimBase(u) /\ u.server = s.server /\ u.net = {} /\ u.known = s.server /\ u.dirty = s.dirty /\ LimShows(u)
      BY LimRendered
    <2>s. Limits!Sane(s.server.rate)
      BY DEF LimBase, LimServer
    <2> HIDE DEF u
    <2>2. CASE m.what = "put"
      <3>1. Limits!Answered(s, m) = Limits!loadLimits([u EXCEPT !.dirty = {}], None)
        BY <1>b, <2>0, <2>2 DEF Limits!Answered, Limits!PutAnswered, t, u
      <3>2. LimBase([u EXCEPT !.dirty = {}]) /\ [u EXCEPT !.dirty = {}].net = {}
        BY <2>1 DEF LimBase, LimHas, LimFields
      <3> QED
        BY <3>1, <3>2, LimLoads
    <2>3. CASE m.what = "load" /\ m.body = None
      <3>1. Limits!Answered(s, m) = u
        BY <1>b, <2>0, <2>3 DEF Limits!Answered, Limits!LimitsLoaded, t, u
      <3> QED
        BY <2>1, <3>1 DEF LimInv
    <2>4. CASE m.what = "load" /\ m.body # None
      <3>0. {"rate", "headers"} \subseteq DOMAIN m.body /\ Limits!HeadersTaken(m.body.headers) /\ s.dirty # {}
        BY <2>4 DEF LimAsk, LimMarked
      <3> DEFINE b == [m.body EXCEPT !.rate = s.server.rate]
      <3>1. Limits!Answered(s, m) = IF m.body.rate = Limits!Junk THEN Limits!SendAdminLimit(u, m.body) ELSE Limits!putLimits(u, b)
        BY <1>b, <2>0, <2>4 DEF Limits!Answered, Limits!LimitsLoaded, t, u
      <3>2. b.rate = s.server.rate /\ b.headers = m.body.headers
        BY <3>0
      <3> HIDE DEF b
      <3>3. LimInv(Limits!SendAdminLimit(u, m.body))
        BY <2>1, <3>0, LimSendsAdmin
      <3>4. LimInv(Limits!putLimits(u, b))
        BY <2>1, <2>s, <3>0, <3>2, LimPuts
      <3> QED
        BY <3>1, <3>3, <3>4
    <2> QED
      BY <1>0, <2>2, <2>3, <2>4
  <1> QED
    BY <1>a, <1>b

LEMMA LimInit == Limits!Init => LimInv(st)
  <1> SUFFICES ASSUME Limits!Init PROVE LimInv(st)
    OBVIOUS
  <1>1. PICK allow :
          st = Limits!loadLimits([server |-> [rate |-> 20, allow |-> allow, headers |-> DefaultHeaders],
                   known |-> None, rate |-> Limits!Empty, allow |-> <<>>, headers |-> DefaultHeaders,
                   badge |-> TRUE, dirty |-> {}, out |-> FALSE, missed |-> FALSE, net |-> {}, moves |-> 0], None)
    BY DEF Limits!Init
  <1> DEFINE server == [rate |-> 20, allow |-> allow, headers |-> DefaultHeaders]
             s == [server |-> server, known |-> None, rate |-> Limits!Empty, allow |-> <<>>,
                   headers |-> DefaultHeaders, badge |-> TRUE, dirty |-> {}, out |-> FALSE,
                   missed |-> FALSE, net |-> {}, moves |-> 0]
  <1>2. LimServer(server)
    BY DEF LimServer, Limits!Sane, Limits!MaxRate
  <1>3. LimHas(s) /\ s.server = server /\ s.known = None /\ s.net = {}
    BY DEF LimHas, LimFields
  <1>4. st = Limits!loadLimits(s, None)
    BY <1>1
  <1> HIDE DEF s, server
  <1> QED
    BY <1>2, <1>3, <1>4, LimLoads DEF LimBase

LEMMA LimMoved == ASSUME NEW s, LimInv(s) PROVE LimInv(Limits!Move(s))
  BY DEF LimInv, LimBase, LimHas, LimFields, LimAsk, LimMarked, LimShows, Limits!Move

(* Saving the rates sends them, with what the other card shows; saving the *)
(* other card sends what was loaded, or loads first.                       *)
LEMMA LimSavesRates == ASSUME NEW s, LimInv(s), s.net = {}, s.dirty # {} PROVE LimInv(Limits!saveLimits(s))
  <1> DEFINE b == [rate |-> Limits!numOr(s.rate, Limits!currentVal(s, Limits!Junk)),
                   allow |-> Limits!stringToIPs(s.allow), headers |-> s.headers]
  <1>1. Limits!saveLimits(s) =
          IF Limits!Sane(b.rate) /\ Limits!HeadersTaken(b.headers) THEN Limits!putLimits(s, b) ELSE s
    BY DEF Limits!saveLimits
  <1> HIDE DEF b
  <1> QED
    BY <1>1, LimPuts DEF LimInv

LEMMA LimSavesAllowed == ASSUME NEW s, LimInv(s), s.net = {}, s.dirty # {} PROVE LimInv(Limits!saveAdminLimit(s))
  <1> DEFINE b == [rate |-> Limits!Junk, allow |-> Limits!stringToIPs(s.allow), headers |-> s.headers]
  <1>1. Limits!saveAdminLimit(s) =
          IF ~Limits!AllowedTaken(b.allow) \/ ~Limits!HeadersTaken(s.headers) THEN s
          ELSE IF s.known = None THEN Limits!loadLimits(s, b) ELSE Limits!SendAdminLimit(s, b)
    BY DEF Limits!saveAdminLimit
  <1>2. {"rate", "headers"} \subseteq DOMAIN b /\ b.headers = s.headers
    OBVIOUS
  <1> HIDE DEF b
  <1>3. CASE ~Limits!AllowedTaken(b.allow) \/ ~Limits!HeadersTaken(s.headers)
    BY <1>1, <1>3
  <1>4. CASE Limits!AllowedTaken(b.allow) /\ Limits!HeadersTaken(s.headers)
    <2>1. Limits!saveAdminLimit(s) = IF s.known = None THEN Limits!loadLimits(s, b) ELSE Limits!SendAdminLimit(s, b)
      BY <1>1, <1>4
    <2>2. LimBase(s) /\ Limits!HeadersTaken(b.headers)
      BY <1>2, <1>4 DEF LimInv
    <2>3. LimInv(Limits!loadLimits(s, b)) /\ LimInv(Limits!SendAdminLimit(s, b))
      BY <1>2, <2>2, LimLoadsFor, LimSendsAdmin
    <2> QED
      BY <2>1, <2>3
  <1> QED
    BY <1>3, <1>4

LEMMA LimStep == ASSUME LimInv(st), Limits!Next PROVE LimInv(st')
  <1>0. LimHas(st) /\ LimBase(st)
    BY DEF LimInv, LimBase
  <1>1. CASE Limits!Visit
    BY <1>0, <1>1, LimLoads, LimMoved DEF Limits!Visit, Limits!Settled
  <1>e. ASSUME NEW t, LimHas(t), t.server = st.server, t.known = st.known, t.net = st.net, t.dirty # {}
        PROVE  LimInv(t)
    BY <1>e DEF LimInv, LimBase, LimMarked
  <1>2. CASE Limits!TypeRate
    <2>1. PICK r : st' = [Limits!Edited(st, "rates") EXCEPT !.rate = r]
      BY <1>2 DEF Limits!TypeRate
    <2> QED
      BY <1>0, <1>e, <2>1 DEF Limits!Edited, LimHas, LimFields
  <1>3. CASE Limits!TypeAllowed
    <2>1. ASSUME NEW l, st' = [Limits!Edited(st, "admin") EXCEPT !.allow = l] PROVE LimInv(st')
      BY <1>0, <1>e, <2>1 DEF Limits!Edited, LimHas, LimFields
    <2>2. ASSUME NEW h, st' = [Limits!Edited(st, "admin") EXCEPT !.headers = h] PROVE LimInv(st')
      BY <1>0, <1>e, <2>2 DEF Limits!Edited, LimHas, LimFields
    <2> QED
      BY <1>3, <2>1, <2>2 DEF Limits!TypeAllowed
  <1>4. CASE Limits!SaveRates
    BY <1>0, <1>4, LimSavesRates, LimMoved DEF Limits!SaveRates, Limits!Settled
  <1>5. CASE Limits!SaveAllowed
    BY <1>0, <1>5, LimSavesAllowed, LimMoved DEF Limits!SaveAllowed, Limits!Settled
  <1>6. CASE Limits!Serve
    <2>1. PICK m \in st.net :
            /\ m.out = ""
            /\ LET r == IF ~Limits!Admits(st.server, Address) THEN [out |-> "denied", server |-> st.server]
                        ELSE IF m.what = "load" THEN [out |-> "ok", server |-> st.server]
                        ELSE Limits!Put(st.server, m.body)
               IN st' = [st EXCEPT !.server = r.server,
                           !.net = (@ \ {m}) \union {[m EXCEPT !.out = r.out, !.data = IF r.out = "ok" THEN r.server ELSE None]}]
      BY <1>6 DEF Limits!Serve
    <2> DEFINE r == IF ~Limits!Admits(st.server, Address) THEN [out |-> "denied", server |-> st.server]
                    ELSE IF m.what = "load" THEN [out |-> "ok", server |-> st.server]
                    ELSE Limits!Put(st.server, m.body)
               n == [m EXCEPT !.out = r.out, !.data = IF r.out = "ok" THEN r.server ELSE None]
    <2>2. LimAsk(m, st.server) /\ LimMarked(m, st.dirty) /\ st.net = {m} /\ LimServer(st.server)
      BY <1>0 DEF LimInv, LimBase
    <2>3. /\ r.out \in {"ok", "denied", "bad"} /\ LimServer(r.server)
          /\ r.out = "bad" => m.what = "put" /\ LimUnchecked(m.body)
      <3>1. CASE m.what = "put"
        BY <2>2, <3>1 DEF LimAsk, LimServer, LimUnchecked, Limits!Put, Limits!HeadersTaken
      <3>2. CASE m.what = "load"
        BY <2>2, <3>2
      <3> QED
        BY <2>2, <3>1, <3>2 DEF LimAsk
    <2>4. st' = [st EXCEPT !.server = r.server, !.net = {n}]
      BY <2>1, <2>2
    <2> HIDE DEF r
    <2>5. LimAsk(n, r.server) /\ LimMarked(n, st.dirty) /\ n.out # "lost"
      BY <2>2, <2>3 DEF LimAsk, LimMarked
    <2> HIDE DEF n
    <2>6. LimHas(st') /\ st'.server = r.server /\ st'.net = {n} /\ st'.known = st.known /\ st'.dirty = st.dirty
      BY <1>0, <2>4 DEF LimHas, LimFields
    <2> QED
      BY <1>0, <2>3, <2>5, <2>6 DEF LimInv, LimBase
  <1>a. ASSUME NEW m \in st.net, NEW n, NEW s, LimHas(s), s.server = st.server, s.known = st.known,
               s.net = st.net \ {m}, LimAsk(n, st.server), LimMarked(n, s.dirty), n.out # "", n.out = "lost" => s.missed
        PROVE  LimInv(Limits!Answered(s, n))
    <2>1. st.net = {m}
      BY DEF LimInv
    <2>2. LimBase(s) /\ s.net = {}
      BY <1>0, <1>a, <2>1 DEF LimBase
    <2> QED
      BY <1>a, <2>2, LimAnswered
  <1>7. CASE Limits!Answer
    <2>1. PICK m \in st.net : m.out # "" /\ st' = Limits!Answered([st EXCEPT !.net = @ \ {m}], m)
      BY <1>7 DEF Limits!Answer
    <2> DEFINE s == [st EXCEPT !.net = @ \ {m}]
    <2>2. LimHas(s) /\ s.server = st.server /\ s.known = st.known /\ s.net = st.net \ {m} /\ s.dirty = st.dirty
      BY <1>0 DEF LimHas, LimFields
    <2>3. LimAsk(m, st.server) /\ LimMarked(m, st.dirty) /\ m.out # "lost"
      BY DEF LimInv
    <2> HIDE DEF s
    <2> QED
      BY <1>a, <2>1, <2>2, <2>3 DEF s
  <1>8. CASE Limits!Lost
    <2>1. PICK m \in st.net : st' = Limits!Move(Limits!Answered([st EXCEPT !.net = @ \ {m}, !.missed = TRUE],
                                                                [m EXCEPT !.out = "lost", !.data = None]))
      BY <1>8 DEF Limits!Lost
    <2> DEFINE s == [st EXCEPT !.net = @ \ {m}, !.missed = TRUE]
               n == [m EXCEPT !.out = "lost", !.data = None]
    <2>2. LimHas(s) /\ s.server = st.server /\ s.known = st.known /\ s.net = st.net \ {m} /\ s.missed /\ s.dirty = st.dirty
      BY <1>0 DEF LimHas, LimFields
    <2>3. LimAsk(m, st.server) /\ LimMarked(m, st.dirty)
      BY DEF LimInv
    <2>4. LimAsk(n, st.server) /\ LimMarked(n, st.dirty) /\ n.out = "lost"
      BY <2>3 DEF LimAsk, LimMarked
    <2> HIDE DEF s, n
    <2>5. LimInv(Limits!Answered(s, n))
      BY <1>a, <2>2, <2>4
    <2> QED
      BY <2>1, <2>5, LimMoved DEF s, n
  <1> QED
    BY <1>1, <1>2, <1>3, <1>4, <1>5, <1>6, <1>7, <1>8 DEF Limits!Next

LEMMA LimHolds == ASSUME LimInv(st) PROVE Limits!SendsTaken /\ Limits!LimitsShown
  BY DEF LimInv, LimBase, LimServer, LimAsk, LimUnchecked, LimShows, Limits!SendsTaken, Limits!LimitsShown

-----------------------------------------------------------------------------
(* The backups card. *)

BkFields == {"server", "stored", "net", "moves", "rows", "name", "file", "said", "missed", "visible", "switch",
             "badge", "label", "busy", "checked", "conf", "secret"}
BkWhats == {"list", "load", "create", "delete", "restore", "token", "upload", "disable", "save", "check", "probe", "verify"}
BkHas(s) == BkFields \subseteq DOMAIN s

BkServer(server) ==
    /\ {"enabled", "conf", "secret", "names"} \subseteq DOMAIN server
    /\ server.secret \in Secrets /\ server.enabled \in BOOLEAN

BkBody(body) ==
    /\ body.enabled \in BOOLEAN
    /\ "secret" \in DOMAIN body => body.secret \in Secrets

BkMsg(m) ==
    /\ {"what", "body", "fresh", "form", "checked", "out", "data"} \subseteq DOMAIN m
    /\ m.what \in BkWhats
    /\ m.what \in {"save", "check", "disable"} => BkBody(m.body)

BkShape(s) ==
    /\ BkHas(s) /\ BkServer(s.server)
    /\ s.secret \in Secrets \union {None} /\ s.visible \in BOOLEAN
    /\ \A m \in s.net : BkMsg(m)

(* The fields agree with what is stored; and the server can connect with   *)
(* what is stored.                                                         *)
Same(s) == s.conf = s.server.conf /\ s.secret \in {None, s.server.secret}
Sound(s) == Same(s) /\ <<s.server.conf, s.server.secret>> \in Reachable

Carries(s, body) ==
    /\ "conf" \in DOMAIN body
    /\ body.conf = s.conf
    /\ IF "secret" \in DOMAIN body THEN body.secret = s.secret /\ s.secret # None ELSE s.secret = None

BkFlight(s, m) ==
    /\ m.what = "list" /\ m.out = "ok" => m.data = s.server.names
    /\ m.what = "load" => m.out \in {None, "ok"}
    /\ m.what \in {"load", "save", "check", "disable"} /\ m.out = "ok" => m.data = Backups!Public(s.server)
    /\ m.what \in {"save", "check"} =>
          /\ s.visible
          /\ m.out = None => Carries(s, m.body) /\ m.body.enabled
          /\ m.out = "ok" => s.server.enabled
    /\ m.what = "disable" => "conf" \notin DOMAIN m.body /\ "secret" \notin DOMAIN m.body /\ m.body.enabled = FALSE
    /\ m.what = "save" /\ m.checked /\ m.out # "bad" => Sound(s)
    /\ m.what = "probe" => s.visible /\ Same(s) /\ (m.out = "ok" => Sound(s))
    /\ m.what = "verify" => m.form.enabled
    /\ m.what = "verify" /\ m.fresh => (s.server.enabled => Same(s)) /\ (m.out = "ok" => Sound(s))

OfBucket == {"load", "save", "check", "disable", "probe"}
OfList == {"list", "create", "upload", "delete"}

Alone(net, kind) == \A m, n \in net : m.what \in kind /\ n.what \in kind => m = n
Under(net, kind) == \E m \in net : m.what \in kind

BkChecked(s) == s.checked => Sound(s) /\ s.badge /\ s.label = "save"

BkCore(s) ==
    /\ Alone(s.net, OfBucket) /\ Alone(s.net, OfList)
    /\ \A m \in s.net : BkFlight(s, m)
    /\ BkChecked(s)

(* What is not so yet is being asked for. *)
BkSwitch(s, net) == s.visible = s.switch \/ Under(net, {"disable"})
BkBusy(s, net) == s.busy => Under(net, {"check", "probe"})
BkRows(s, net) ==
    \/ s.rows \in {None, s.server.names}
    \/ \E m \in net : m.what = "list" \/ (m.what \in {"create", "upload", "delete"} /\ m.out = "ok")
BkStored(s, net) ==
    \/ s.stored = Backups!Public(s.server) /\ (~s.visible => ~s.server.enabled)
    \/ \E m \in net : m.what = "load" \/ (m.what \in {"save", "check", "disable"} /\ m.out = "ok")

BkRest(s, net) == BkSwitch(s, net) /\ BkBusy(s, net) /\ BkRows(s, net) /\ BkStored(s, net)

BkTrue(s) == BkCore(s) /\ BkRest(s, s.net)

BkInv(s) == BkShape(s) /\ (~s.missed => BkTrue(s))

-----------------------------------------------------------------------------
(* What the pieces of the card do to the state. *)

Alike(s, t) ==
    /\ BkHas(t) /\ t.server = s.server /\ t.missed = s.missed
    /\ t.rows = s.rows /\ t.stored = s.stored
Typed(s, t) == t.conf = s.conf /\ t.secret = s.secret
Shown(s, t) == t.visible = s.visible /\ t.switch = s.switch /\ t.checked = s.checked /\ t.badge = s.badge /\ t.label = s.label

LEMMA BkKept ==
  ASSUME NEW s, BkInv(s), NEW t, Alike(s, t), Typed(s, t), Shown(s, t), t.busy = s.busy, t.net = s.net
  PROVE  BkInv(t)
  <1>1. BkShape(t)
    BY DEF BkInv, BkShape, Alike, Typed, Shown
  <1>2. ASSUME NEW m, BkFlight(s, m) PROVE BkFlight(t, m)
    BY <1>2 DEF BkFlight, Alike, Typed, Shown, Carries, Sound, Same
  <1>3. ~s.missed => BkTrue(t)
    BY <1>2 DEF BkInv, BkTrue, BkCore, BkRest, Alike, Typed, Shown, BkChecked, Sound, Same, BkSwitch, BkBusy, BkRows, BkStored
  <1> QED
    BY <1>1, <1>3 DEF BkInv, Alike

LEMMA BkMoved == ASSUME NEW s, BkInv(s) PROVE BkInv(Backups!Move(s))
  <1>1. LET t == Backups!Move(s) IN Alike(s, t) /\ Typed(s, t) /\ Shown(s, t) /\ t.busy = s.busy /\ t.net = s.net
    BY DEF BkInv, BkShape, BkHas, BkFields, Alike, Typed, Shown, Backups!Move
  <1> QED
    BY <1>1, BkKept

LEMMA BkSaid == ASSUME NEW s, BkInv(s), NEW msg PROVE BkInv(Backups!backupStatus(s, msg))
  <1>1. LET t == Backups!backupStatus(s, msg)
        IN Alike(s, t) /\ Typed(s, t) /\ Shown(s, t) /\ t.busy = s.busy /\ t.net = s.net
    BY DEF BkInv, BkShape, BkHas, BkFields, Alike, Typed, Shown, Backups!backupStatus
  <1> QED
    BY <1>1, BkKept

LEMMA BkSentIs ==
  ASSUME NEW s, BkHas(s), NEW m
  PROVE  LET t == Backups!Send(s, m)
         IN Alike(s, t) /\ Typed(s, t) /\ Shown(s, t) /\ t.busy = s.busy /\ t.net = s.net \union {m}
  BY DEF BkHas, BkFields, Alike, Typed, Shown, Backups!Send

LEMMA BkStoredIs ==
  ASSUME NEW s, BkHas(s), NEW data
  PROVE  LET t == Backups!Stored(s, data)
         IN /\ BkHas(t) /\ t.server = s.server /\ t.missed = s.missed /\ t.rows = s.rows
            /\ t.busy = s.busy /\ t.net = s.net
            /\ t.stored = data /\ t.switch = data.enabled /\ t.conf = data.conf /\ t.secret = None
            /\ t.checked = FALSE /\ t.visible \in BOOLEAN /\ (t.visible <=> data.enabled)
  BY DEF BkHas, BkFields, Backups!Stored, Backups!parseBackupS3, Backups!renderBackupS3,
         Backups!setBackupS3Switch, Backups!paintBackupS3Badge, Backups!renderBackupS3Step

LEMMA BkVerdictIs ==
  ASSUME NEW s, BkHas(s)
  PROVE  /\ LET t == Backups!Passed(s)
            IN /\ Alike(s, t) /\ Typed(s, t) /\ t.busy = s.busy /\ t.net = s.net /\ t.switch = s.switch
               /\ t.visible = TRUE /\ t.checked = TRUE /\ t.badge = TRUE /\ t.label = "save"
         /\ LET t == Backups!Failed(s)
            IN /\ Alike(s, t) /\ Typed(s, t) /\ t.busy = s.busy /\ t.net = s.net /\ t.switch = s.switch
               /\ t.visible = TRUE /\ t.checked = FALSE
  BY DEF BkHas, BkFields, Alike, Typed, Backups!Passed, Backups!Failed, Backups!paintBackupS3Badge,
         Backups!renderBackupS3Step

-----------------------------------------------------------------------------
(* Sending. *)

NoneOf(net, kind) == \A m \in net : m.what \notin kind

LEMMA BkGrows == ASSUME NEW s, NEW net, NEW m, BkRest(s, net) PROVE BkRest(s, net \union {m})
  BY DEF BkRest, BkSwitch, BkBusy, BkRows, BkStored, Under

Single(net, m) == (m.what \in OfBucket => NoneOf(net, OfBucket)) /\ (m.what \in OfList => NoneOf(net, OfList))

(* A request may be what settles the rest. *)
LEMMA BkSendsFor ==
  ASSUME NEW s, BkShape(s), NEW m, BkMsg(m),
         ~s.missed => BkCore(s) /\ BkFlight(s, m) /\ Single(s.net, m) /\ BkRest(s, s.net \union {m})
  PROVE  BkInv(Backups!Send(s, m))
  <1> DEFINE t == Backups!Send(s, m)
  <1>1. Alike(s, t) /\ Typed(s, t) /\ Shown(s, t) /\ t.busy = s.busy /\ t.net = s.net \union {m}
    BY BkSentIs DEF BkShape
  <1> HIDE DEF t
  <1>2. BkShape(t)
    BY <1>1 DEF BkShape, Alike, Typed, Shown
  <1>3. ASSUME NEW n, BkFlight(s, n) PROVE BkFlight(t, n)
    BY <1>1, <1>3 DEF BkFlight, Alike, Typed, Shown, Carries, Sound, Same
  <1>4. ASSUME ~s.missed PROVE BkTrue(t)
    <2>1. Alone(t.net, OfBucket) /\ Alone(t.net, OfList)
      BY <1>1, <1>4 DEF BkCore, Alone, NoneOf, Single
    <2>2. \A n \in t.net : BkFlight(t, n)
      BY <1>1, <1>3, <1>4 DEF BkCore
    <2>3. BkChecked(t) /\ BkRest(t, t.net)
      BY <1>1, <1>4 DEF BkCore, BkRest, BkChecked, BkSwitch, BkBusy, BkRows, BkStored, Alike, Typed, Shown, Sound, Same
    <2> QED
      BY <2>1, <2>2, <2>3 DEF BkTrue, BkCore
  <1> QED
    BY <1>1, <1>2, <1>4 DEF BkInv, Alike, t

LEMMA BkSends ==
  ASSUME NEW s, BkInv(s), NEW m, BkMsg(m), ~s.missed => BkFlight(s, m) /\ Single(s.net, m)
  PROVE  BkInv(Backups!Send(s, m))
  BY BkSendsFor, BkGrows DEF BkInv, BkTrue

(* A request about the list, or one nothing depends on. *)
LEMMA BkAsks ==
  ASSUME NEW s, BkInv(s), NEW what \in OfList \union {"restore", "token"}, NEW body,
         ~s.missed => NoneOf(s.net, OfList)
  PROVE  BkInv(Backups!Send(s, Backups!Request(what, body)))
  <1> DEFINE m == Backups!Request(what, body)
  <1>1. m.what = what /\ m.out = None /\ {"what", "body", "fresh", "form", "checked", "out", "data"} \subseteq DOMAIN m
    BY DEF Backups!Request
  <1> HIDE DEF m
  <1>2. BkMsg(m) /\ BkFlight(s, m) /\ m.what \notin OfBucket
    BY <1>1, NoVerdict DEF BkMsg, BkWhats, BkFlight, OfBucket, OfList
  <1> QED
    BY <1>1, <1>2, BkSends DEF Single, m, Single

LEMMA BkLists ==
  ASSUME NEW s, BkShape(s),
         ~s.missed => BkCore(s) /\ NoneOf(s.net, OfList)
                      /\ BkSwitch(s, s.net) /\ BkBusy(s, s.net) /\ BkStored(s, s.net)
  PROVE  BkInv(Backups!loadBackups(s))
  <1> DEFINE m == Backups!Request("list", None)
  <1>1. m.what = "list" /\ m.out = None /\ {"what", "body", "fresh", "form", "checked", "out", "data"} \subseteq DOMAIN m
    BY DEF Backups!Request
  <1> HIDE DEF m
  <1>2. BkMsg(m) /\ BkFlight(s, m) /\ m.what \notin OfBucket
    BY <1>1, NoVerdict DEF BkMsg, BkWhats, BkFlight, OfBucket, OfList
  <1>3. BkSwitch(s, s.net) => BkSwitch(s, s.net \union {m})
    BY DEF BkSwitch, Under
  <1>4. BkBusy(s, s.net) => BkBusy(s, s.net \union {m})
    BY DEF BkBusy, Under
  <1>5. BkStored(s, s.net) => BkStored(s, s.net \union {m})
    BY DEF BkStored
  <1>6. BkRows(s, s.net \union {m})
    BY <1>1 DEF BkRows
  <1> QED
    BY <1>2, <1>3, <1>4, <1>5, <1>6, BkSendsFor DEF m, Single, BkRest, Backups!loadBackups

LEMMA BkLoads ==
  ASSUME NEW s, BkInv(s), ~s.missed => NoneOf(s.net, OfBucket)
  PROVE  BkInv(Backups!loadBackupS3(s))
  <1> DEFINE m == Backups!Request("load", None)
  <1>1. m.what = "load" /\ m.out = None /\ {"what", "body", "fresh", "form", "checked", "out", "data"} \subseteq DOMAIN m
    BY DEF Backups!Request
  <1> HIDE DEF m
  <1>2. BkMsg(m) /\ BkFlight(s, m) /\ m.what \notin OfList
    BY <1>1, NoVerdict DEF BkMsg, BkWhats, BkFlight, OfList
  <1> QED
    BY <1>1, <1>2, BkSends DEF Single, m, Backups!loadBackupS3

LEMMA BkProbes ==
  ASSUME NEW s, BkShape(s),
         ~s.missed => BkCore(s) /\ NoneOf(s.net, OfBucket) /\ s.visible /\ Same(s)
                      /\ BkSwitch(s, s.net) /\ BkRows(s, s.net) /\ BkStored(s, s.net)
  PROVE  BkInv(Backups!Send(s, Backups!Request("probe", None)))
  <1> DEFINE m == Backups!Request("probe", None)
  <1>1. m.what = "probe" /\ m.out = None /\ {"what", "body", "fresh", "form", "checked", "out", "data"} \subseteq DOMAIN m
    BY DEF Backups!Request
  <1> HIDE DEF m
  <1>2. BkMsg(m) /\ m.what \notin OfList /\ (~s.missed => BkFlight(s, m))
    BY <1>1, NoVerdict DEF BkMsg, BkWhats, BkFlight, OfList
  <1>3. BkSwitch(s, s.net) => BkSwitch(s, s.net \union {m})
    BY DEF BkSwitch, Under
  <1>4. BkBusy(s, s.net \union {m})
    BY <1>1 DEF BkBusy, Under
  <1>5. BkStored(s, s.net) => BkStored(s, s.net \union {m})
    BY DEF BkStored
  <1>6. BkRows(s, s.net) => BkRows(s, s.net \union {m})
    BY DEF BkRows
  <1> QED
    BY <1>2, <1>3, <1>4, <1>5, <1>6, BkSendsFor DEF m, Single, BkRest

LEMMA BkVerifies ==
  ASSUME NEW s, BkInv(s), ~s.missed => s.visible /\ (s.server.enabled => Same(s))
  PROVE  BkInv(Backups!autoVerifyBackupS3(s))
  <1> DEFINE m == [Backups!Request("verify", None) EXCEPT !.form = Backups!readBackupS3Form(s)]
  <1>1. /\ m.what = "verify" /\ m.out = None /\ m.form.enabled = s.visible
        /\ {"what", "body", "fresh", "form", "checked", "out", "data"} \subseteq DOMAIN m
    BY DEF Backups!Request, Backups!readBackupS3Form
  <1> HIDE DEF m
  <1>2. BkMsg(m) /\ m.what \notin OfList \union OfBucket /\ (~s.missed => BkFlight(s, m))
    BY <1>1, NoVerdict DEF BkMsg, BkWhats, BkFlight, OfList, OfBucket
  <1> QED
    BY <1>1, <1>2, BkSends DEF Single, m, Backups!autoVerifyBackupS3

(* What is sent of the fields. *)
LEMMA BkPatch ==
  ASSUME NEW s, BkShape(s), NEW form, {"enabled", "conf", "secret"} \subseteq DOMAIN form,
         form.enabled \in BOOLEAN, form.conf = s.conf, form.secret = s.secret
  PROVE  LET b == Backups!buildBackupS3Patch(form)
         IN BkBody(b) /\ Carries(s, b) /\ b.enabled = form.enabled
  BY DEF BkShape, BkBody, Carries, Backups!buildBackupS3Patch

LEMMA BkForm ==
  ASSUME NEW s
  PROVE  LET form == Backups!readBackupS3Form(s)
         IN /\ {"enabled", "conf", "secret"} \subseteq DOMAIN form
            /\ form.enabled = s.visible /\ form.conf = s.conf /\ form.secret = s.secret
  BY DEF Backups!readBackupS3Form

LEMMA BkSaves ==
  ASSUME NEW s, BkInv(s), ~s.missed => NoneOf(s.net, OfBucket), s.visible
  PROVE  BkInv(Backups!saveBackupS3(s))
  <1> DEFINE b == Backups!buildBackupS3Patch(Backups!readBackupS3Form(s))
             m == [Backups!Request("save", b) EXCEPT !.checked = s.checked]
  <1>b. BkBody(b) /\ Carries(s, b) /\ b.enabled = s.visible
    BY BkForm, BkPatch DEF BkInv, BkShape
  <1> HIDE DEF b
  <1>1. /\ m.what = "save" /\ m.out = None /\ m.body = b /\ m.checked = s.checked
        /\ {"what", "body", "fresh", "form", "checked", "out", "data"} \subseteq DOMAIN m
    BY DEF Backups!Request
  <1> HIDE DEF m
  <1>2. BkMsg(m) /\ m.what \notin OfList /\ (~s.missed => BkFlight(s, m))
    BY <1>b, <1>1, NoVerdict DEF BkMsg, BkWhats, BkFlight, OfList, BkInv, BkTrue, BkCore, BkChecked
  <1> QED
    BY <1>1, <1>2, BkSends DEF Single, m, b, Backups!saveBackupS3

LEMMA BkTests ==
  ASSUME NEW s, BkInv(s), ~s.missed => NoneOf(s.net, OfBucket), s.visible
  PROVE  BkInv(Backups!testBackupS3(s))
  <1> DEFINE u == Backups!setBackupS3ActionBusy(s, TRUE)
             b == Backups!buildBackupS3Patch([Backups!readBackupS3Form(s) EXCEPT !.enabled = TRUE])
             m == Backups!Request("check", b)
             t == Backups!Send(u, m)
  <1>b. BkBody(b) /\ Carries(s, b) /\ b.enabled = TRUE
    <2> DEFINE form == [Backups!readBackupS3Form(s) EXCEPT !.enabled = TRUE]
    <2>1. {"enabled", "conf", "secret"} \subseteq DOMAIN form /\ form.enabled = TRUE /\ form.conf = s.conf /\ form.secret = s.secret
      BY BkForm
    <2> HIDE DEF form
    <2>2. LET p == Backups!buildBackupS3Patch(form) IN BkBody(p) /\ Carries(s, p) /\ p.enabled = form.enabled
      BY <2>1, BkPatch DEF BkInv
    <2> QED
      BY <2>1, <2>2 DEF form
  <1> HIDE DEF b
  <1>1. /\ m.what = "check" /\ m.out = None /\ m.body = b
        /\ {"what", "body", "fresh", "form", "checked", "out", "data"} \subseteq DOMAIN m
    BY DEF Backups!Request
  <1> HIDE DEF m
  <1>2. BkMsg(m) /\ m.what \notin OfList /\ BkFlight(s, m) /\ m.what \in OfBucket
    BY <1>b, <1>1, NoVerdict DEF BkMsg, BkWhats, BkFlight, OfList, OfBucket
  <1>3. BkHas(u) /\ Alike(s, u) /\ Typed(s, u) /\ Shown(s, u) /\ u.net = s.net
    BY DEF BkInv, BkShape, BkHas, BkFields, Alike, Typed, Shown, Backups!setBackupS3ActionBusy
  <1> HIDE DEF u
  <1>4. BkShape(u)
    BY <1>3 DEF BkInv, BkShape, Alike, Typed, Shown
  <1>5. ASSUME NEW n, BkFlight(s, n) PROVE BkFlight(u, n)
    BY <1>3, <1>5 DEF BkFlight, Alike, Typed, Shown, Carries, Sound, Same
  <1>6. ~s.missed => BkCore(u)
    BY <1>3, <1>5 DEF BkInv, BkTrue, BkCore, Alike, Typed, Shown, BkChecked, Sound, Same
  <1>7. ~s.missed => BkRest(u, u.net \union {m})
    BY <1>1, <1>3 DEF BkInv, BkTrue, BkRest, Alike, Typed, Shown, BkSwitch, BkBusy, BkRows, BkStored, Under
  <1>8. BkFlight(u, m) /\ u.missed = s.missed
    BY <1>2, <1>3, <1>5 DEF Alike
  <1> QED
    BY <1>2, <1>3, <1>4, <1>6, <1>7, <1>8, BkSendsFor DEF Single, u, m, b, Backups!testBackupS3

(* A state m was taken from. *)
BkLeft(s, m) ==
    /\ BkCore(s) /\ BkFlight(s, m) /\ Single(s.net, m)
    /\ m.what # "disable" => BkSwitch(s, s.net)
    /\ m.what \notin {"check", "probe"} => BkBusy(s, s.net)
    /\ m.what = "list" \/ (m.what \in {"create", "upload", "delete"} /\ m.out = "ok") \/ BkRows(s, s.net)
    /\ m.what = "load" \/ (m.what \in {"save", "check", "disable"} /\ m.out = "ok") \/ BkStored(s, s.net)

BkTaken(s, m) == BkShape(s) /\ BkMsg(m) /\ m.out # None /\ (~s.missed => BkLeft(s, m))

LEMMA BkTakes ==
  ASSUME NEW r, BkInv(r), NEW m \in r.net, m.out # None,
         NEW s, Alike(r, s), Typed(r, s), Shown(r, s), s.busy = r.busy, s.net = r.net \ {m}
  PROVE  BkTaken(s, m)
  <1>1. BkShape(s) /\ BkMsg(m)
    BY DEF BkInv, BkShape, Alike, Typed, Shown
  <1>2. ASSUME NEW n, BkFlight(r, n) PROVE BkFlight(s, n)
    BY <1>2 DEF BkFlight, Alike, Typed, Shown, Carries, Sound, Same
  <1>3. ASSUME ~s.missed PROVE BkLeft(s, m)
    <2>1. BkTrue(r)
      BY <1>3 DEF BkInv, Alike
    <2>2. BkCore(s) /\ BkFlight(s, m)
      BY <1>2, <2>1 DEF BkTrue, BkCore, Alone, BkChecked, Alike, Typed, Shown, Sound, Same
    <2>3. Single(s.net, m)
      BY <2>1 DEF BkTrue, BkCore, Alone, Single, NoneOf
    <2>4. m.what # "disable" => BkSwitch(s, s.net)
      BY <2>1 DEF BkTrue, BkRest, BkSwitch, Under, Shown
    <2>5. m.what \notin {"check", "probe"} => BkBusy(s, s.net)
      BY <2>1 DEF BkTrue, BkRest, BkBusy, Under
    <2>6. m.what = "list" \/ (m.what \in {"create", "upload", "delete"} /\ m.out = "ok") \/ BkRows(s, s.net)
      BY <2>1 DEF BkTrue, BkRest, BkRows, Alike
    <2>7. m.what = "load" \/ (m.what \in {"save", "check", "disable"} /\ m.out = "ok") \/ BkStored(s, s.net)
      BY <2>1 DEF BkTrue, BkRest, BkStored, Alike, Shown
    <2> QED
      BY <2>2, <2>3, <2>4, <2>5, <2>6, <2>7 DEF BkLeft
  <1> QED
    BY <1>1, <1>3 DEF BkTaken

(* Nothing depended on what was taken. *)
LEMMA BkLeave ==
  ASSUME NEW s, NEW m, BkTaken(s, m), ~s.missed => BkRest(s, s.net)
  PROVE  BkInv(s)
  BY DEF BkTaken, BkLeft, BkInv, BkTrue

LEMMA BkLike ==
  ASSUME NEW s, NEW t, NEW m, BkTaken(s, m), Alike(s, t), Typed(s, t), Shown(s, t), t.busy = s.busy, t.net = s.net
  PROVE  BkTaken(t, m)
  <1>1. BkShape(t)
    BY DEF BkTaken, BkShape, Alike, Typed, Shown
  <1>2. ASSUME NEW n, BkFlight(s, n) PROVE BkFlight(t, n)
    BY <1>2 DEF BkFlight, Alike, Typed, Shown, Carries, Sound, Same
  <1>3. ~s.missed => BkLeft(t, m)
    BY <1>2 DEF BkTaken, BkLeft, BkCore, BkChecked, Alike, Typed, Shown, Sound, Same, BkSwitch, BkBusy, BkRows, BkStored
  <1> QED
    BY <1>1, <1>3 DEF BkTaken, Alike

LEMMA BkOther ==
  ASSUME NEW s, NEW m, BkTaken(s, m), m.what \in OfList
  PROVE  ~s.missed => NoneOf(s.net, OfList) /\ BkCore(s) /\ BkSwitch(s, s.net) /\ BkBusy(s, s.net) /\ BkStored(s, s.net)
  BY DEF BkTaken, BkLeft, Single, OfList

-----------------------------------------------------------------------------
(* The list. *)

LEMMA BkListAnswered ==
  ASSUME NEW s, NEW m, BkTaken(s, m), m.what = "list"
  PROVE  BkInv(Backups!LoadedBackups(s, m))
  <1> DEFINE rows == IF m.out = "ok" THEN m.data ELSE None
             t == Backups!LoadedBackups(s, m)
  <1>1. /\ BkHas(t) /\ t.server = s.server /\ t.missed = s.missed /\ t.stored = s.stored
        /\ Typed(s, t) /\ Shown(s, t) /\ t.busy = s.busy /\ t.net = s.net /\ t.rows = rows
    BY DEF BkTaken, BkShape, BkHas, BkFields, Typed, Shown, Backups!LoadedBackups, Backups!renderBackups
  <1> HIDE DEF t
  <1>2. BkShape(t)
    BY <1>1 DEF BkTaken, BkShape, Typed, Shown
  <1>3. ASSUME NEW n, BkFlight(s, n) PROVE BkFlight(t, n)
    BY <1>1, <1>3 DEF BkFlight, Typed, Shown, Carries, Sound, Same
  <1>4. ASSUME ~s.missed PROVE BkCore(t) /\ BkRest(t, t.net)
    <2>1. t.rows \in {None, t.server.names}
      BY <1>1, <1>4 DEF BkTaken, BkLeft, BkFlight
    <2>2. BkCore(t)
      BY <1>1, <1>3, <1>4 DEF BkTaken, BkLeft, BkCore, BkChecked, Typed, Shown, Sound, Same
    <2> QED
      BY <1>1, <1>4, <2>1, <2>2 DEF BkTaken, BkLeft, BkRest, BkSwitch, BkBusy, BkRows, BkStored, Shown
  <1> QED
    BY <1>1, <1>2, <1>4 DEF BkInv, BkTrue, t

LEMMA BkRefreshes ==
  ASSUME NEW s, NEW m, BkTaken(s, m), m.what \in OfList,
         NEW t, Alike(s, t), Typed(s, t), Shown(s, t), t.busy = s.busy, t.net = s.net
  PROVE  BkInv(Backups!loadBackups(t))
  <1>1. BkTaken(t, m)
    BY BkLike
  <1> QED
    BY <1>1, BkOther, BkLists DEF BkTaken

LEMMA BkRefused ==
  ASSUME NEW s, NEW m, BkTaken(s, m), m.what \in {"create", "upload", "delete"}, m.out # "ok"
  PROVE  BkInv(s)
  BY BkLeave DEF BkTaken, BkLeft, BkRest

LEMMA BkListChanged ==
  ASSUME NEW s, NEW m, BkTaken(s, m)
  PROVE  /\ m.what = "create" => BkInv(Backups!CreatedBackup(s, m))
         /\ m.what = "delete" => BkInv(Backups!DeletedBackup(s, m))
         /\ m.what = "upload" => BkInv(Backups!UploadedBackup(s, m))
  <1>0. BkHas(s)
    BY DEF BkTaken, BkShape
  <1>1. ASSUME NEW t, t = Backups!backupStatus([s EXCEPT !.name = None], "created")
               \/ t = Backups!backupStatus(s, "deleted")
               \/ t = Backups!backupStatus([s EXCEPT !.file = None], "uploaded")
        PROVE  Alike(s, t) /\ Typed(s, t) /\ Shown(s, t) /\ t.busy = s.busy /\ t.net = s.net
    BY <1>0, <1>1 DEF BkHas, BkFields, Alike, Typed, Shown, Backups!backupStatus
  <1>2. ASSUME m.what \in {"create", "upload", "delete"}, m.out # "ok"
        PROVE  BkInv(Backups!backupStatus(s, m.out))
    BY <1>2, BkRefused, BkSaid
  <1>3. CASE m.what = "create"
    BY <1>1, <1>2, <1>3, BkRefreshes DEF Backups!CreatedBackup, OfList
  <1>4. CASE m.what = "delete"
    BY <1>1, <1>2, <1>4, BkRefreshes DEF Backups!DeletedBackup, OfList
  <1>5. CASE m.what = "upload"
    BY <1>1, <1>2, <1>5, BkRefreshes DEF Backups!UploadedBackup, OfList
  <1> QED
    BY <1>3, <1>4, <1>5

LEMMA BkTold ==
  ASSUME NEW s, NEW m, BkTaken(s, m), m.what \in {"restore", "token"}
  PROVE  /\ BkInv(s) /\ BkInv(Backups!RestoredBackup(s, m)) /\ BkInv(Backups!GotToken(s, m))
  <1>1. BkInv(s)
    BY BkLeave DEF BkTaken, BkLeft, BkRest
  <1> QED
    BY <1>1, BkSaid DEF Backups!RestoredBackup, Backups!GotToken

-----------------------------------------------------------------------------
(* What is stored is shown: the fields, the switch and the button. *)
LEMMA BkShowsStored ==
  ASSUME NEW s, NEW m, BkTaken(s, m), m.what \in {"load", "save", "check", "disable"}, m.out = "ok"
  PROVE  LET t == Backups!Stored(s, m.data)
         IN /\ BkShape(t) /\ t.missed = s.missed /\ t.net = s.net
            /\ ~s.missed => /\ BkCore(t) /\ BkSwitch(t, t.net) /\ BkRows(t, t.net) /\ BkStored(t, t.net)
                            /\ Same(t) /\ t.server = s.server /\ (t.visible <=> s.server.enabled)
                            /\ t.switch = t.visible
                            /\ NoneOf(t.net, OfBucket)
                            /\ (m.what # "check" => BkBusy(t, t.net))
                            /\ (Sound(s) => Sound(t))
  <1> DEFINE t == Backups!Stored(s, m.data)
  <1>1. /\ BkHas(t) /\ t.server = s.server /\ t.missed = s.missed /\ t.rows = s.rows
        /\ t.busy = s.busy /\ t.net = s.net
        /\ t.stored = m.data /\ t.switch = m.data.enabled /\ t.conf = m.data.conf /\ t.secret = None
        /\ t.checked = FALSE /\ t.visible \in BOOLEAN /\ (t.visible <=> m.data.enabled)
    BY BkStoredIs DEF BkTaken, BkShape
  <1> HIDE DEF t
  <1>2. BkShape(t)
    BY <1>1 DEF BkTaken, BkShape
  <1>3. ASSUME ~s.missed
        PROVE  /\ BkCore(t) /\ BkSwitch(t, t.net) /\ BkRows(t, t.net) /\ BkStored(t, t.net)
               /\ Same(t) /\ (t.visible <=> s.server.enabled)
               /\ t.switch = t.visible
               /\ NoneOf(t.net, OfBucket)
               /\ (m.what # "check" => BkBusy(t, t.net))
               /\ (Sound(s) => Sound(t))
    <2>1. BkLeft(s, m) /\ m.data = Backups!Public(s.server) /\ NoneOf(s.net, OfBucket) /\ s.server.enabled \in BOOLEAN
      BY <1>3 DEF BkTaken, BkShape, BkServer, BkLeft, BkFlight, Single, OfBucket
    <2>2. m.data.enabled = s.server.enabled /\ m.data.conf = s.server.conf
      BY <2>1 DEF Backups!Public
    <2>3. Same(t) /\ (t.visible <=> s.server.enabled) /\ t.switch = t.visible
      BY <1>1, <2>1, <2>2 DEF Same
    <2>4. Sound(s) => Sound(t)
      BY <1>1, <2>3 DEF Sound
    <2>5. ASSUME NEW n \in s.net PROVE BkFlight(t, n)
      <3>1. BkFlight(s, n) /\ n.what \notin OfBucket
        BY <2>1 DEF BkLeft, BkCore, NoneOf
      <3> QED
        BY <1>1, <2>3, <2>4, <3>1 DEF BkFlight, OfBucket
    <2>6. BkCore(t)
      BY <1>1, <2>1, <2>5 DEF BkLeft, BkCore, BkChecked
    <2>7. BkSwitch(t, t.net) /\ BkRows(t, t.net) /\ BkStored(t, t.net) /\ (m.what # "check" => BkBusy(t, t.net))
      BY <1>1, <2>1, <2>3 DEF BkLeft, BkSwitch, BkRows, BkStored, BkBusy
    <2> QED
      BY <1>1, <2>1, <2>3, <2>4, <2>6, <2>7
  <1> QED
    BY <1>1, <1>2, <1>3 DEF t

-----------------------------------------------------------------------------
(* A verdict on fields that are shown. *)

Verdict(s, t) ==
    /\ BkShape(t) /\ t.missed = s.missed /\ t.net = s.net
    /\ ~s.missed => /\ BkCore(s) => BkCore(t)
                    /\ BkSwitch(s, s.net) => BkSwitch(t, t.net)
                    /\ BkBusy(s, s.net) => BkBusy(t, t.net)
                    /\ BkRows(s, s.net) => BkRows(t, t.net)
                    /\ BkStored(s, s.net) => BkStored(t, t.net)

LEMMA BkVerdictFlight ==
  ASSUME NEW s, NEW t, Alike(s, t), Typed(s, t), t.net = s.net, t.visible = TRUE
  PROVE  \A n : BkFlight(s, n) => BkFlight(t, n)
  BY DEF BkFlight, Alike, Typed, Carries, Sound, Same

LEMMA BkPasses ==
  ASSUME NEW s, BkShape(s), ~s.missed => s.visible /\ Sound(s)
  PROVE  Verdict(s, Backups!Passed(s))
  <1> DEFINE t == Backups!Passed(s)
  <1>1. /\ Alike(s, t) /\ Typed(s, t) /\ t.busy = s.busy /\ t.net = s.net /\ t.switch = s.switch
        /\ t.visible = TRUE /\ t.checked = TRUE /\ t.badge = TRUE /\ t.label = "save"
    BY BkVerdictIs DEF BkShape
  <1> HIDE DEF t
  <1>2. BkShape(t)
    BY <1>1 DEF BkShape, Alike, Typed
  <1>3. ~s.missed => (BkCore(s) => BkCore(t))
    BY <1>1, BkVerdictFlight DEF BkCore, BkChecked, Alike, Typed, Sound, Same
  <1> QED
    BY <1>1, <1>2, <1>3 DEF Verdict, Alike, BkShape, BkSwitch, BkBusy, BkRows, BkStored, t

LEMMA BkFails ==
  ASSUME NEW s, BkShape(s), ~s.missed => s.visible
  PROVE  Verdict(s, Backups!Failed(s))
  <1> DEFINE t == Backups!Failed(s)
  <1>1. /\ Alike(s, t) /\ Typed(s, t) /\ t.busy = s.busy /\ t.net = s.net /\ t.switch = s.switch
        /\ t.visible = TRUE /\ t.checked = FALSE
    BY BkVerdictIs DEF BkShape
  <1> HIDE DEF t
  <1>2. BkShape(t)
    BY <1>1 DEF BkShape, Alike, Typed
  <1>3. ~s.missed => (BkCore(s) => BkCore(t))
    BY <1>1, BkVerdictFlight DEF BkCore, BkChecked, Alike, Typed, Sound, Same
  <1> QED
    BY <1>1, <1>2, <1>3 DEF Verdict, Alike, BkShape, BkSwitch, BkBusy, BkRows, BkStored, t

LEMMA BkJudges ==
  ASSUME NEW s, BkInv(s), NEW out, ~s.missed => s.visible /\ (out = "ok" => Sound(s))
  PROVE  BkInv(Backups!applyBackupS3TestOutcome(s, out))
  BY BkPasses, BkFails DEF BkInv, BkTrue, BkRest, Verdict, Backups!applyBackupS3TestOutcome

LEMMA BkIdles ==
  ASSUME NEW s, BkShape(s),
         ~s.missed => BkCore(s) /\ BkSwitch(s, s.net) /\ BkRows(s, s.net) /\ BkStored(s, s.net)
  PROVE  LET t == Backups!setBackupS3ActionBusy(s, FALSE)
         IN BkInv(t) /\ Alike(s, t) /\ Typed(s, t) /\ Shown(s, t)
  <1> DEFINE t == Backups!setBackupS3ActionBusy(s, FALSE)
  <1>1. Alike(s, t) /\ Typed(s, t) /\ Shown(s, t) /\ t.busy = FALSE /\ t.net = s.net
    BY DEF BkShape, BkHas, BkFields, Alike, Typed, Shown, Backups!setBackupS3ActionBusy
  <1> HIDE DEF t
  <1>2. BkShape(t)
    BY <1>1 DEF BkShape, Alike, Typed, Shown
  <1>3. ASSUME NEW n, BkFlight(s, n) PROVE BkFlight(t, n)
    BY <1>1, <1>3 DEF BkFlight, Alike, Typed, Shown, Carries, Sound, Same
  <1>4. ~s.missed => BkCore(t) /\ BkRest(t, t.net)
    BY <1>1, <1>3 DEF BkCore, BkChecked, BkRest, BkSwitch, BkBusy, BkRows, BkStored, Alike, Typed, Shown, Sound, Same
  <1> QED
    BY <1>1, <1>2, <1>4 DEF BkInv, BkTrue, Alike, t

LEMMA BkStoredInv ==
  ASSUME NEW s, NEW m, BkTaken(s, m), m.what \in {"load", "save", "disable"}, m.out = "ok"
  PROVE  LET t == Backups!Stored(s, m.data)
         IN /\ BkInv(t) /\ t.missed = s.missed
            /\ ~s.missed => Same(t) /\ t.server = s.server /\ (t.visible <=> s.server.enabled) /\ (Sound(s) => Sound(t))
  <1> DEFINE t == Backups!Stored(s, m.data)
  <1>1. /\ BkShape(t) /\ t.missed = s.missed /\ t.net = s.net
        /\ ~s.missed => /\ BkCore(t) /\ BkSwitch(t, t.net) /\ BkRows(t, t.net) /\ BkStored(t, t.net)
                        /\ Same(t) /\ t.server = s.server /\ (t.visible <=> s.server.enabled)
                        /\ BkBusy(t, t.net)
                        /\ (Sound(s) => Sound(t))
    BY BkShowsStored
  <1> HIDE DEF t
  <1> QED
    BY <1>1 DEF BkInv, BkTrue, BkRest, t

LEMMA BkLoadAnswered ==
  ASSUME NEW s, NEW m, BkTaken(s, m), m.what = "load"
  PROVE  BkInv(Backups!LoadedBackupS3(s, m))
  <1>1. CASE m.out # "ok"
    <2>1. BkInv(s)
      BY <1>1 DEF BkTaken, BkLeft, BkFlight, BkInv
    <2> QED
      BY <1>1, <2>1 DEF Backups!LoadedBackupS3
  <1>2. CASE m.out = "ok"
    <2> DEFINE t == Backups!Stored(s, m.data)
    <2>1. BkInv(t) /\ t.missed = s.missed /\ (~s.missed => Same(t) /\ (t.visible <=> s.server.enabled))
      BY <1>2, BkStoredInv
    <2>2. ~s.missed => m.data.enabled = s.server.enabled
      BY <1>2 DEF BkTaken, BkLeft, BkFlight, Backups!Public
    <2> HIDE DEF t
    <2>3. m.data.enabled => BkInv(Backups!autoVerifyBackupS3(t))
      BY <2>1, <2>2, BkVerifies
    <2> QED
      BY <1>2, <2>1, <2>3 DEF t, Backups!LoadedBackupS3
  <1> QED
    BY <1>1, <1>2

LEMMA BkDisableAnswered ==
  ASSUME NEW s, NEW m, BkTaken(s, m), m.what = "disable"
  PROVE  BkInv(Backups!Disabled(s, m))
  <1>1. CASE m.out = "ok"
    BY <1>1, BkStoredInv DEF Backups!Disabled
  <1>2. CASE m.out # "ok"
    <2> DEFINE f == Backups!Failed(s)
               t == Backups!setBackupS3Switch(f, TRUE)
    <2>1. /\ Alike(s, f) /\ Typed(s, f) /\ f.busy = s.busy /\ f.net = s.net
          /\ f.visible = TRUE /\ f.checked = FALSE
      BY BkVerdictIs DEF BkTaken, BkShape
    <2> HIDE DEF f
    <2>2. /\ Alike(s, t) /\ Typed(s, t) /\ t.busy = s.busy /\ t.net = s.net
          /\ t.visible = TRUE /\ t.checked = FALSE /\ t.switch = TRUE
      BY <2>1 DEF Alike, Typed, BkHas, BkFields, Backups!setBackupS3Switch
    <2> HIDE DEF t
    <2>3. BkShape(t)
      BY <2>2 DEF BkTaken, BkShape, Alike, Typed
    <2>4. ~s.missed => BkCore(t)
      BY <2>2, BkVerdictFlight DEF BkTaken, BkLeft, BkCore, BkChecked
    <2>5. ~s.missed => BkRest(t, t.net)
      BY <1>2, <2>2 DEF BkTaken, BkLeft, BkRest, BkSwitch, BkBusy, BkRows, BkStored, Alike
    <2> QED
      BY <1>2, <2>2, <2>3, <2>4, <2>5 DEF BkInv, BkTrue, Alike, t, f, Backups!Disabled
  <1> QED
    BY <1>1, <1>2

LEMMA BkSaveAnswered ==
  ASSUME NEW s, NEW m, BkTaken(s, m), m.what = "save"
  PROVE  BkInv(Backups!Saved(s, m))
  <1>1. CASE m.out # "ok"
    <2>1. BkInv(s)
      BY <1>1, BkLeave DEF BkTaken, BkLeft, BkRest
    <2> QED
      BY <1>1, <2>1 DEF Backups!Saved
  <1>2. CASE m.out = "ok"
    <2> DEFINE t == Backups!Stored(s, m.data)
    <2>1. BkInv(t) /\ t.missed = s.missed /\ (~s.missed => (t.visible <=> s.server.enabled) /\ (Sound(s) => Sound(t)))
      BY <1>2, BkStoredInv
    <2>2. ~s.missed => s.server.enabled /\ (m.checked => Sound(s))
      BY <1>2 DEF BkTaken, BkLeft, BkFlight
    <2> HIDE DEF t
    <2>3. m.checked => BkInv(Backups!Passed(t))
      <3>1. m.checked => Backups!Passed(t) = Backups!applyBackupS3TestOutcome(t, "ok")
        BY DEF Backups!applyBackupS3TestOutcome
      <3>2. m.checked => BkInv(Backups!applyBackupS3TestOutcome(t, "ok"))
        BY <2>1, <2>2, BkJudges
      <3> QED
        BY <3>1, <3>2
    <2> QED
      BY <1>2, <2>1, <2>3 DEF t, Backups!Saved
  <1> QED
    BY <1>1, <1>2

LEMMA BkCheckAnswered ==
  ASSUME NEW s, NEW m, BkTaken(s, m), m.what = "check"
  PROVE  BkInv(Backups!CheckSaved(s, m))
  <1>1. CASE m.out # "ok"
    <2>1. ~s.missed => s.visible /\ BkCore(s) /\ BkSwitch(s, s.net) /\ BkRows(s, s.net) /\ BkStored(s, s.net)
      BY <1>1 DEF BkTaken, BkLeft, BkFlight
    <2>2. Verdict(s, Backups!Failed(s))
      BY <2>1, BkFails DEF BkTaken
    <2>3. BkInv(Backups!setBackupS3ActionBusy(Backups!Failed(s), FALSE))
      BY <2>1, <2>2, BkIdles DEF Verdict
    <2> QED
      BY <1>1, <2>3 DEF Backups!CheckSaved
  <1>2. CASE m.out = "ok"
    <2> DEFINE t == Backups!Stored(s, m.data)
    <2>1. /\ BkShape(t) /\ t.missed = s.missed /\ t.net = s.net
          /\ ~s.missed => /\ BkCore(t) /\ BkSwitch(t, t.net) /\ BkRows(t, t.net) /\ BkStored(t, t.net)
                          /\ Same(t) /\ (t.visible <=> s.server.enabled) /\ NoneOf(t.net, OfBucket)
      BY <1>2, BkShowsStored
    <2>2. ~s.missed => s.server.enabled
      BY <1>2 DEF BkTaken, BkLeft, BkFlight
    <2> HIDE DEF t
    <2>3. BkInv(Backups!Send(t, Backups!Request("probe", None)))
      BY <2>1, <2>2, BkProbes
    <2> QED
      BY <1>2, <2>3 DEF t, Backups!CheckSaved
  <1> QED
    BY <1>1, <1>2

LEMMA BkProbeAnswered ==
  ASSUME NEW s, NEW m, BkTaken(s, m), m.what = "probe"
  PROVE  BkInv(Backups!Probed(s, m))
  <1> DEFINE t == Backups!setBackupS3ActionBusy(s, FALSE)
  <1>1. ~s.missed => s.visible /\ BkCore(s) /\ BkSwitch(s, s.net) /\ BkRows(s, s.net) /\ BkStored(s, s.net)
                     /\ (m.out = "ok" => Sound(s))
    BY DEF BkTaken, BkLeft, BkFlight
  <1>2. BkInv(t) /\ Alike(s, t) /\ Typed(s, t) /\ Shown(s, t)
    BY <1>1, BkIdles DEF BkTaken
  <1> HIDE DEF t
  <1>3. ~t.missed => t.visible /\ (m.out = "ok" => Sound(t))
    BY <1>1, <1>2 DEF Alike, Typed, Shown, Sound, Same
  <1> QED
    BY <1>2, <1>3, BkJudges DEF t, Backups!Probed

LEMMA BkVerifyAnswered ==
  ASSUME NEW s, NEW m, BkTaken(s, m), m.what = "verify"
  PROVE  BkInv(Backups!Verified(s, m))
  <1>1. BkInv(s)
    BY BkLeave DEF BkTaken, BkLeft, BkRest
  <1>2. CASE m.fresh /\ m.form = Backups!readBackupS3Form(s)
    <2>1. ~s.missed => s.visible /\ (m.out = "ok" => Sound(s))
      BY <1>2, BkForm DEF BkTaken, BkLeft, BkFlight
    <2> QED
      BY <1>1, <1>2, <2>1, BkJudges DEF Backups!Verified
  <1> QED
    BY <1>1, <1>2 DEF Backups!Verified

LEMMA BkAnswered ==
  ASSUME NEW s, NEW m, BkTaken(s, m)
  PROVE  BkInv(Backups!Answered(s, m))
  <1>1. m.what \in BkWhats
    BY DEF BkTaken, BkMsg
  <1> QED
    BY <1>1, BkListAnswered, BkListChanged, BkTold, BkLoadAnswered, BkDisableAnswered, BkSaveAnswered, BkCheckAnswered,
       BkProbeAnswered, BkVerifyAnswered
    DEF BkWhats, Backups!Answered

-----------------------------------------------------------------------------
(* What the admin does: with only checks in the background under way. *)

BkFree(s) == BkInv(s) /\ \A m \in s.net : m.what = "verify"

LEMMA BkFreeIs ==
  ASSUME NEW s, BkFree(s)
  PROVE  NoneOf(s.net, OfBucket) /\ NoneOf(s.net, OfList)
  BY DEF BkFree, NoneOf, OfBucket, OfList

(* All verdicts on their way are out of date. *)
Bumped(s) == [s EXCEPT !.net = {[m EXCEPT !.fresh = FALSE] : m \in @}]

LEMMA BkBumps ==
  ASSUME NEW s, BkFree(s), NEW t, BkHas(t), t.server = s.server, t.missed = s.missed, t.rows = s.rows,
         t.stored = s.stored, Shown(s, t), t.busy = s.busy, t.secret \in Secrets \union {None},
         t.net = {[m EXCEPT !.fresh = FALSE] : m \in s.net}
  PROVE  BkShape(t) /\ (~t.missed => BkRest(t, t.net) /\ Alone(t.net, OfBucket) /\ Alone(t.net, OfList)
                                     /\ \A n \in t.net : n.what = "verify" /\ BkFlight(t, n))
  <1>1. \A n \in t.net : BkMsg(n) /\ n.what = "verify" /\ n.fresh = FALSE /\ (~s.missed => n.form.enabled)
    <2> TAKE n \in t.net
    <2>1. PICK m \in s.net : n = [m EXCEPT !.fresh = FALSE]
      OBVIOUS
    <2>2. BkMsg(m) /\ m.what = "verify" /\ (~s.missed => m.form.enabled)
      BY DEF BkFree, BkInv, BkShape, BkTrue, BkCore, BkFlight
    <2> QED
      BY <2>1, <2>2 DEF BkMsg
  <1>2. BkShape(t)
    BY <1>1 DEF BkFree, BkInv, BkShape, Shown
  <1>3. ~t.missed => \A n \in t.net : BkFlight(t, n)
    BY <1>1 DEF BkFlight
  <1>4. Alone(t.net, OfBucket) /\ Alone(t.net, OfList)
    BY <1>1 DEF Alone, OfBucket, OfList
  <1>5. ~t.missed => BkRest(t, t.net)
    <2>1. ASSUME ~s.missed
          PROVE  /\ s.visible = s.switch /\ ~s.busy /\ s.rows \in {None, s.server.names}
                 /\ s.stored = Backups!Public(s.server) /\ (~s.visible => ~s.server.enabled)
      BY <2>1 DEF BkFree, BkInv, BkTrue, BkRest, BkSwitch, BkBusy, BkRows, BkStored, Under
    <2> QED
      BY <2>1 DEF BkRest, BkSwitch, BkBusy, BkRows, BkStored, Shown
  <1> QED
    BY <1>1, <1>2, <1>3, <1>4, <1>5

LEMMA BkReverts ==
  ASSUME NEW r, BkFree(r), NEW s, BkHas(s), s.server = r.server, s.missed = r.missed, s.rows = r.rows,
         s.stored = r.stored, Shown(r, s), s.busy = r.busy, s.secret \in Secrets \union {None}, s.net = r.net,
         r.visible
  PROVE  BkInv(Backups!revertBackupS3Check(s))
  <1> DEFINE b == Bumped(s)
             t == Backups!revertBackupS3Check(s)
  <1>1. /\ BkHas(b) /\ b.server = s.server /\ b.missed = s.missed /\ b.rows = s.rows /\ b.stored = s.stored
        /\ Shown(s, b) /\ b.busy = s.busy /\ b.secret = s.secret /\ b.net = {[m EXCEPT !.fresh = FALSE] : m \in s.net}
    BY DEF BkHas, BkFields, Shown, Bumped
  <1>2. t = IF ~s.checked THEN b
            ELSE Backups!renderBackupS3Step(Backups!paintBackupS3Badge([b EXCEPT !.checked = FALSE], FALSE), "check")
    BY DEF Bumped, Backups!revertBackupS3Check
  <1> HIDE DEF b
  <1>3. BkShape(b) /\ (~b.missed => BkRest(b, b.net) /\ Alone(b.net, OfBucket) /\ Alone(b.net, OfList)
                                    /\ \A n \in b.net : n.what = "verify" /\ BkFlight(b, n))
    <2>1. b.net = {[m EXCEPT !.fresh = FALSE] : m \in r.net}
      BY <1>1
    <2>2. Shown(r, b)
      BY <1>1 DEF Shown
    <2> QED
      BY <1>1, <2>1, <2>2, BkBumps
  <1>4. CASE ~s.checked
    BY <1>1, <1>2, <1>3, <1>4 DEF BkInv, BkTrue, BkCore, BkChecked, Shown
  <1>5. CASE s.checked
    <2>1. /\ Alike(b, t) /\ Typed(b, t) /\ t.busy = b.busy /\ t.net = b.net /\ t.switch = b.switch
          /\ t.visible = TRUE /\ t.checked = FALSE
      BY <1>1, <1>2, <1>5 DEF BkHas, BkFields, Alike, Typed, Backups!renderBackupS3Step, Backups!paintBackupS3Badge
    <2>2. b.visible = TRUE
      BY <1>1 DEF Shown, BkFree, BkInv, BkShape
    <2> HIDE DEF t
    <2>3. BkShape(t)
      BY <1>3, <2>1 DEF BkShape, Alike, Typed
    <2>4. ~b.missed => BkCore(t)
      BY <1>3, <2>1, BkVerdictFlight DEF BkCore, BkChecked
    <2>5. ~b.missed => BkRest(t, t.net)
      BY <1>3, <2>1, <2>2 DEF BkRest, BkSwitch, BkBusy, BkRows, BkStored, Alike
    <2> QED
      BY <2>1, <2>3, <2>4, <2>5 DEF BkInv, BkTrue, Alike, t
  <1> QED
    BY <1>4, <1>5 DEF t

LEMMA BkEdits == ASSUME BkFree(st), Backups!EditTarget PROVE BkInv(st')
  <1>0. BkHas(st) /\ st.secret \in Secrets \union {None}
    BY DEF BkFree, BkInv, BkShape
  <1>1. ASSUME NEW conf, st.visible, st' = Backups!Move(Backups!revertBackupS3Check([st EXCEPT !.conf = conf]))
        PROVE  BkInv(st')
    <2> DEFINE s == [st EXCEPT !.conf = conf]
    <2>1. /\ BkHas(s) /\ s.server = st.server /\ s.missed = st.missed /\ s.rows = st.rows
          /\ s.stored = st.stored /\ Shown(st, s) /\ s.busy = st.busy /\ s.secret = st.secret /\ s.net = st.net
      BY <1>0 DEF BkHas, BkFields, Shown
    <2> HIDE DEF s
    <2>2. BkInv(Backups!revertBackupS3Check(s))
      BY <1>0, <1>1, <2>1, BkReverts
    <2> QED
      BY <1>1, <2>2, BkMoved DEF s
  <1>2. ASSUME NEW secret \in Secrets \union {None}, st.visible,
               st' = Backups!Move(Backups!revertBackupS3Check([st EXCEPT !.secret = secret]))
        PROVE  BkInv(st')
    <2> DEFINE s == [st EXCEPT !.secret = secret]
    <2>1. /\ BkHas(s) /\ s.server = st.server /\ s.missed = st.missed /\ s.rows = st.rows
          /\ s.stored = st.stored /\ Shown(st, s) /\ s.busy = st.busy /\ s.secret = secret /\ s.net = st.net
      BY <1>0 DEF BkHas, BkFields, Shown
    <2> HIDE DEF s
    <2>2. BkInv(Backups!revertBackupS3Check(s))
      BY <1>0, <1>2, <2>1, BkReverts
    <2> QED
      BY <1>2, <2>2, BkMoved DEF s
  <1> QED
    BY <1>1, <1>2 DEF Backups!EditTarget

LEMMA BkSwitches == ASSUME BkFree(st), Backups!Switch PROVE BkInv(st')
  <1>0. BkHas(st) /\ st.secret \in Secrets \union {None} /\ st.visible \in BOOLEAN
    BY DEF BkFree, BkInv, BkShape
  <1> DEFINE b == Bumped(st)
             off == Backups!setBackupS3Switch(b, FALSE)
             x == Backups!renderBackupS3Step(Backups!paintBackupS3Badge([off EXCEPT !.checked = FALSE], FALSE), "hidden")
             on == Backups!setBackupS3Switch(b, TRUE)
             f == Backups!Failed(on)
  <1>1. /\ BkHas(b) /\ b.server = st.server /\ b.missed = st.missed /\ b.rows = st.rows /\ b.stored = st.stored
        /\ Shown(st, b) /\ b.busy = st.busy /\ b.secret = st.secret /\ b.net = {[m EXCEPT !.fresh = FALSE] : m \in st.net}
        /\ b.conf = st.conf
    BY <1>0 DEF BkHas, BkFields, Shown, Bumped
  <1>2. Backups!onBackupS3Switch(st) =
          IF st.visible /\ ~st.stored.enabled THEN x
          ELSE IF st.visible THEN Backups!Send(off, Backups!Request("disable", [enabled |-> FALSE]))
          ELSE Backups!autoVerifyBackupS3(f)
    BY DEF Bumped, Backups!onBackupS3Switch
  <1> HIDE DEF b
  <1>3. BkShape(b) /\ (~b.missed => BkRest(b, b.net) /\ Alone(b.net, OfBucket) /\ Alone(b.net, OfList)
                                    /\ \A n \in b.net : n.what = "verify" /\ BkFlight(b, n) /\ n.fresh = FALSE)
    <2>1. \A n \in b.net : n.fresh = FALSE
      <3> TAKE n \in b.net
      <3>1. PICK m \in st.net : n = [m EXCEPT !.fresh = FALSE]
        BY <1>1
      <3>2. BkMsg(m)
        BY DEF BkFree, BkInv, BkShape
      <3> QED
        BY <3>1, <3>2 DEF BkMsg
    <2> QED
      BY <1>0, <1>1, <2>1, BkBumps
  <1>4. b.checked = st.checked /\ (~b.missed => BkChecked(b))
    BY <1>1 DEF BkFree, BkInv, BkTrue, BkCore, BkChecked, Shown, Sound, Same
  <1>5. /\ Alike(b, off) /\ Typed(b, off) /\ off.busy = b.busy /\ off.net = b.net /\ off.switch = FALSE
        /\ off.visible = b.visible /\ off.checked = b.checked /\ off.badge = b.badge /\ off.label = b.label
    BY <1>1 DEF BkHas, BkFields, Alike, Typed, Backups!setBackupS3Switch
  <1>6. /\ Alike(b, on) /\ Typed(b, on) /\ on.busy = b.busy /\ on.net = b.net /\ on.switch = TRUE
        /\ on.visible = b.visible /\ on.checked = b.checked
    BY <1>1 DEF BkHas, BkFields, Alike, Typed, Backups!setBackupS3Switch
  <1> HIDE DEF off, on
  <1>r. ~b.missed => /\ b.visible = b.switch /\ ~b.busy /\ b.rows \in {None, b.server.names}
                     /\ b.stored = Backups!Public(b.server) /\ (~b.visible => ~b.server.enabled)
    BY <1>3 DEF BkRest, BkSwitch, BkBusy, BkRows, BkStored, Under
  <1>7. CASE st.visible /\ ~st.stored.enabled
    <2>1. /\ Alike(off, x) /\ Typed(off, x) /\ x.busy = off.busy /\ x.net = off.net /\ x.switch = FALSE
          /\ x.visible = FALSE /\ x.checked = FALSE
      BY <1>5 DEF BkHas, BkFields, Alike, Typed, Backups!renderBackupS3Step, Backups!paintBackupS3Badge
    <2> HIDE DEF x
    <2>2. BkShape(x)
      BY <1>3, <1>5, <2>1 DEF BkShape, Alike, Typed
    <2>3. ASSUME ~x.missed PROVE BkTrue(x)
      <3>0. ~b.missed
        BY <1>5, <2>1, <2>3 DEF Alike
      <3>1. \A n \in x.net : n.what = "verify" /\ BkFlight(b, n)
        BY <1>3, <1>5, <2>1, <3>0
      <3>2. \A n \in x.net : BkFlight(x, n)
        BY <1>5, <2>1, <3>1 DEF BkFlight, Alike, Typed, Carries, Sound, Same
      <3>3. BkCore(x)
        BY <1>3, <1>5, <2>1, <3>0, <3>2 DEF BkCore, BkChecked
      <3>4. ~st.server.enabled
        BY <1>1, <1>7, <1>r, <3>0 DEF Backups!Public
      <3> QED
        BY <1>1, <1>5, <1>r, <2>1, <3>0, <3>3, <3>4 DEF BkTrue, BkRest, BkSwitch, BkBusy, BkRows, BkStored, Alike
    <2>4. BkInv(x)
      BY <2>2, <2>3 DEF BkInv
    <2> QED
      BY <1>2, <1>7, <2>4, BkMoved DEF Backups!Switch
  <1>8. CASE st.visible /\ st.stored.enabled
    <2> DEFINE m == Backups!Request("disable", [enabled |-> FALSE])
    <2>1. /\ m.what = "disable" /\ m.out = None /\ m.body = [enabled |-> FALSE]
          /\ {"what", "body", "fresh", "form", "checked", "out", "data"} \subseteq DOMAIN m
      BY DEF Backups!Request
    <2> HIDE DEF m
    <2>2. BkMsg(m) /\ BkFlight(off, m)
      BY <2>1, NoVerdict DEF BkMsg, BkWhats, BkBody, BkFlight
    <2>3. BkShape(off)
      BY <1>3, <1>5 DEF BkShape, Alike, Typed
    <2>4. ASSUME ~off.missed PROVE BkCore(off) /\ Single(off.net, m) /\ BkRest(off, off.net \union {m})
      <3>0. ~b.missed
        BY <1>5, <2>4 DEF Alike
      <3>1. \A n \in off.net : n.what = "verify" /\ BkFlight(b, n)
        BY <1>3, <1>5, <3>0
      <3>2. \A n \in off.net : BkFlight(off, n)
        BY <1>5, <3>1 DEF BkFlight, Alike, Typed, Carries, Sound, Same
      <3>3. BkCore(off)
        BY <1>3, <1>4, <1>5, <3>0, <3>2 DEF BkCore, BkChecked, Alike, Typed, Sound, Same
      <3>4. Single(off.net, m)
        BY <2>1, <3>1 DEF Single, NoneOf, OfBucket, OfList
      <3>5. BkRest(off, off.net \union {m})
        BY <1>5, <1>r, <2>1, <3>0 DEF BkRest, BkSwitch, BkBusy, BkRows, BkStored, Under, Alike
      <3> QED
        BY <3>3, <3>4, <3>5
    <2>5. BkInv(Backups!Send(off, m))
      BY <2>2, <2>3, <2>4, BkSendsFor
    <2> QED
      BY <1>2, <1>8, <2>5, BkMoved DEF Backups!Switch, m
  <1>9. CASE ~st.visible
    <2>1. /\ Alike(on, f) /\ Typed(on, f) /\ f.busy = on.busy /\ f.net = on.net /\ f.switch = on.switch
          /\ f.visible = TRUE /\ f.checked = FALSE
      BY <1>6, BkVerdictIs DEF Alike
    <2> HIDE DEF f
    <2>2. BkShape(f)
      BY <1>3, <1>6, <2>1 DEF BkShape, Alike, Typed
    <2>3. ASSUME ~f.missed PROVE BkTrue(f) /\ ~f.server.enabled
      <3>0. ~b.missed
        BY <1>6, <2>1, <2>3 DEF Alike
      <3>1. \A n \in f.net : n.what = "verify" /\ BkFlight(b, n)
        BY <1>3, <1>6, <2>1, <3>0
      <3>2. \A n \in f.net : BkFlight(f, n)
        BY <1>6, <2>1, <3>1 DEF BkFlight, Alike, Typed, Carries, Sound, Same
      <3>3. BkCore(f)
        BY <1>3, <1>6, <2>1, <3>0, <3>2 DEF BkCore, BkChecked
      <3>4. ~f.server.enabled
        BY <1>1, <1>6, <1>9, <1>r, <2>1, <3>0 DEF Alike, Shown
      <3> QED
        BY <1>1, <1>6, <1>r, <2>1, <3>0, <3>3, <3>4 DEF BkTrue, BkRest, BkSwitch, BkBusy, BkRows, BkStored, Alike
    <2>4. BkInv(Backups!autoVerifyBackupS3(f))
      BY <2>1, <2>2, <2>3, BkVerifies DEF BkInv
    <2> QED
      BY <1>2, <1>9, <2>4, BkMoved DEF Backups!Switch
  <1> QED
    BY <1>7, <1>8, <1>9

LEMMA BkActs == ASSUME BkFree(st), Backups!Action PROVE BkInv(st')
  <1>1. st.visible /\ BkInv(st) /\ NoneOf(st.net, OfBucket) /\ st' = Backups!Move(Backups!onBackupS3Action(st))
    BY BkFreeIs DEF Backups!Action, BkFree
  <1>2. Backups!onBackupS3Action(st) \in {Backups!saveBackupS3(st), Backups!testBackupS3(st)}
    BY <1>1 DEF Backups!onBackupS3Action, Backups!backupS3CurrentStep, Backups!backupS3Step
  <1> QED
    BY <1>1, <1>2, BkSaves, BkTests, BkMoved

LEMMA BkUsesList ==
  ASSUME BkFree(st), Backups!Visit \/ Backups!TypeName \/ Backups!Create \/ Backups!PickFile \/ Backups!ClickRow
  PROVE  BkInv(st')
  <1>0. BkInv(st) /\ BkHas(st) /\ NoneOf(st.net, OfBucket) /\ NoneOf(st.net, OfList)
    BY BkFreeIs DEF BkFree, BkInv, BkShape
  <1>f. ASSUME NEW v
        PROVE  /\ BkInv([st EXCEPT !.name = v]) /\ BkInv([st EXCEPT !.file = v])
               /\ [st EXCEPT !.file = v].net = st.net
               /\ BkInv([[st EXCEPT !.file = v] EXCEPT !.file = None])
    <2>1. ASSUME NEW t, t = [st EXCEPT !.name = v] \/ t = [st EXCEPT !.file = v] \/ t = [[st EXCEPT !.file = v] EXCEPT !.file = None]
          PROVE  Alike(st, t) /\ Typed(st, t) /\ Shown(st, t) /\ t.busy = st.busy /\ t.net = st.net
      BY <1>0, <2>1 DEF BkHas, BkFields, Alike, Typed, Shown
    <2> QED
      BY <1>0, <2>1, BkKept
  <1>1. CASE Backups!Visit
    <2> DEFINE t == Backups!loadBackups(st)
    <2>1. BkInv(t)
      BY <1>0, BkAsks DEF OfList, Backups!loadBackups
    <2>2. NoneOf(t.net, OfBucket)
      <3>1. t.net = st.net \union {Backups!Request("list", None)}
        BY <1>0, BkSentIs DEF Backups!loadBackups
      <3>2. Backups!Request("list", None).what = "list"
        BY DEF Backups!Request
      <3> QED
        BY <1>0, <3>1, <3>2 DEF NoneOf, OfBucket
    <2> QED
      BY <1>1, <2>1, <2>2, BkLoads, BkMoved DEF Backups!Visit
  <1>2. CASE Backups!TypeName
    BY <1>2, <1>f, BkMoved DEF Backups!TypeName
  <1>3. CASE Backups!Create
    <2>1. BkInv(Backups!createBackup(st))
      BY <1>0, BkAsks, BkSaid DEF Backups!createBackup, OfList
    <2> QED
      BY <1>3, <2>1, BkMoved DEF Backups!Create
  <1>4. CASE Backups!PickFile
    <2>1. PICK v : st' = Backups!Move(Backups!uploadBackup([st EXCEPT !.file = v]))
      BY <1>4 DEF Backups!PickFile
    <2> DEFINE s == [st EXCEPT !.file = v]
    <2>2. BkInv(s) /\ s.net = st.net /\ BkInv([s EXCEPT !.file = None])
      BY <1>f
    <2> HIDE DEF s
    <2>3. BkInv(Backups!uploadBackup(s))
      BY <1>0, <2>2, BkAsks, BkSaid DEF Backups!uploadBackup, OfList
    <2> QED
      BY <2>1, <2>3, BkMoved DEF s
  <1>5. CASE Backups!ClickRow
    <2>1. \A k : BkInv(Backups!deleteBackup(st, k)) /\ BkInv(Backups!restoreBackup(st, k)) /\ BkInv(Backups!downloadBackup(st, k))
      BY <1>0, BkAsks DEF Backups!deleteBackup, Backups!restoreBackup, Backups!downloadBackup, OfList
    <2>2. \A s \in Backups!onBackupListClick(st) : BkInv(s)
      BY <2>1 DEF Backups!onBackupListClick
    <2> QED
      BY <1>5, <2>2, BkMoved DEF Backups!ClickRow
  <1> QED
    BY <1>1, <1>2, <1>3, <1>4, <1>5

-----------------------------------------------------------------------------
(* What the server makes of a request. *)

LEMMA BkPatched ==
  ASSUME NEW server, BkServer(server), NEW body, BkBody(body)
  PROVE  LET new == Backups!Patched(server, body)
         IN /\ BkServer(new) /\ new.enabled = body.enabled /\ new.names = server.names
            /\ new.conf = IF "conf" \in DOMAIN body THEN body.conf ELSE server.conf
            /\ new.secret = IF "secret" \in DOMAIN body THEN body.secret ELSE server.secret
  BY DEF BkServer, BkBody, Backups!Patched

SameBucket(a, b) == a.enabled = b.enabled /\ a.conf = b.conf /\ a.secret = b.secret

LEMMA BkOutcome ==
  ASSUME NEW server, BkServer(server), NEW m, BkMsg(m), NEW o \in Backups!Outcomes(m, server)
  PROVE  /\ o.out \in {"ok", "bad"} /\ BkServer(o.server)
         /\ m.what \in {"save", "check", "disable"} =>
               /\ o.server.names = server.names
               /\ o.out = "ok" => o.server = Backups!Patched(server, m.body) /\ o.data = Backups!Public(o.server)
               /\ o.out = "bad" => o.server = server /\ ~Backups!Acceptable(Backups!Patched(server, m.body))
         /\ m.what \notin {"save", "check", "disable"} => SameBucket(o.server, server)
         /\ m.what \notin {"create", "upload", "delete"} \/ o.out = "bad" => o.server.names = server.names
         /\ m.what = "list" /\ o.out = "ok" => o.data = server.names
         /\ m.what = "load" => o.out = "ok" /\ o.data = Backups!Public(server)
         /\ m.what \in {"probe", "verify"} /\ o.out = "ok" =>
               server.enabled /\ <<server.conf, server.secret>> \in Reachable
  <1>1. CASE m.what \in {"save", "check", "disable"}
    <2>1. BkBody(m.body)
      BY <1>1 DEF BkMsg
    <2> DEFINE new == Backups!Patched(server, m.body)
    <2>2. BkServer(new) /\ new.names = server.names
      BY <2>1, BkPatched
    <2> HIDE DEF new
    <2>3. o = IF Backups!Acceptable(new) THEN [out |-> "ok", data |-> Backups!Public(new), server |-> new]
              ELSE [out |-> "bad", data |-> None, server |-> server]
      BY <1>1 DEF Backups!Outcomes, new
    <2> QED
      BY <1>1, <2>2, <2>3 DEF new
  <1>2. CASE m.what = "list"
    BY <1>2 DEF Backups!Outcomes, SameBucket
  <1>3. CASE m.what = "load"
    BY <1>3 DEF Backups!Outcomes, SameBucket
  <1>4. CASE m.what \in {"probe", "verify"}
    BY <1>4 DEF Backups!Outcomes, Backups!Connects, SameBucket
  <1>5. CASE m.what = "token"
    BY <1>5 DEF Backups!Outcomes, SameBucket
  <1>6. CASE m.what \in {"create", "upload"}
    <2>1. \/ o = [out |-> "bad", data |-> None, server |-> server]
          \/ \E n : o = [out |-> "ok", data |-> None, server |-> [server EXCEPT !.names = @ \union {n}]]
      BY <1>6 DEF Backups!Outcomes
    <2> QED
      BY <1>6, <2>1 DEF SameBucket, BkServer
  <1>7. CASE m.what = "delete"
    <2>1. \/ o = [out |-> "bad", data |-> None, server |-> server]
          \/ o = [out |-> "ok", data |-> None, server |-> [server EXCEPT !.names = @ \ {m.body}]]
      BY <1>7 DEF Backups!Outcomes
    <2> QED
      BY <1>7, <2>1 DEF SameBucket, BkServer
  <1>8. CASE m.what = "restore"
    BY <1>8 DEF Backups!Outcomes, SameBucket
  <1> QED
    BY <1>1, <1>2, <1>3, <1>4, <1>5, <1>6, <1>7, <1>8 DEF BkMsg, BkWhats

LEMMA BkServes == ASSUME BkInv(st), Backups!Serve PROVE BkInv(st')
  <1>1. PICK m \in st.net :
          /\ m.out = None
          /\ \E o \in Backups!Outcomes(m, st.server) :
                st' = [st EXCEPT !.server = o.server,
                                 !.net = (@ \ {m}) \union {[m EXCEPT !.out = o.out, !.data = o.data]}]
    BY DEF Backups!Serve
  <1>2. PICK o \in Backups!Outcomes(m, st.server) :
                st' = [st EXCEPT !.server = o.server,
                                 !.net = (@ \ {m}) \union {[m EXCEPT !.out = o.out, !.data = o.data]}]
    BY <1>1
  <1> DEFINE n == [m EXCEPT !.out = o.out, !.data = o.data]
             t == st'
             a == st.server
             b == o.server
  <1>3. BkHas(st) /\ BkServer(a) /\ BkMsg(m) /\ BkShape(st)
    BY DEF BkInv, BkShape
  <1>4. /\ BkHas(t) /\ t.server = b /\ t.net = (st.net \ {m}) \union {n} /\ t.missed = st.missed
        /\ t.rows = st.rows /\ t.stored = st.stored /\ Typed(st, t) /\ Shown(st, t) /\ t.busy = st.busy
    BY <1>2, <1>3 DEF BkHas, BkFields, Typed, Shown
  <1>5. /\ n.what = m.what /\ n.body = m.body /\ n.fresh = m.fresh /\ n.form = m.form /\ n.checked = m.checked
        /\ n.out = o.out /\ n.data = o.data /\ BkMsg(n)
    BY <1>3 DEF BkMsg
  <1>6. /\ o.out \in {"ok", "bad"} /\ BkServer(b)
        /\ m.what \in {"save", "check", "disable"} =>
              /\ b.names = a.names
              /\ o.out = "ok" => b = Backups!Patched(a, m.body) /\ o.data = Backups!Public(b)
              /\ o.out = "bad" => b = a /\ ~Backups!Acceptable(Backups!Patched(a, m.body))
        /\ m.what \notin {"save", "check", "disable"} => SameBucket(b, a)
        /\ m.what \notin {"create", "upload", "delete"} \/ o.out = "bad" => b.names = a.names
        /\ m.what = "list" /\ o.out = "ok" => o.data = a.names
        /\ m.what = "load" => o.out = "ok" /\ o.data = Backups!Public(a)
        /\ m.what \in {"probe", "verify"} /\ o.out = "ok" => a.enabled /\ <<a.conf, a.secret>> \in Reachable
    BY <1>3, BkOutcome
  <1>7. m.what \in {"save", "check", "disable"} /\ o.out = "ok" =>
              /\ b.enabled = m.body.enabled
              /\ b.conf = IF "conf" \in DOMAIN m.body THEN m.body.conf ELSE a.conf
              /\ b.secret = IF "secret" \in DOMAIN m.body THEN m.body.secret ELSE a.secret
    BY <1>3, <1>6, BkPatched DEF BkMsg
  <1> HIDE DEF n, t, a, b
  <1>8. BkShape(t)
    BY <1>3, <1>4, <1>5, <1>6 DEF BkShape, Typed, Shown
  <1>9. ASSUME ~t.missed PROVE BkTrue(t)
    <2>1. BkTrue(st)
      BY <1>4, <1>9 DEF BkInv
    <2>m. BkFlight(st, m)
      BY <2>1 DEF BkTrue, BkCore
    <2>2. m.what = "disable" => o.out = "ok"
      <3>1. m.what = "disable" => Backups!Patched(a, m.body).enabled = FALSE
        BY <1>3, <2>m, BkPatched DEF BkMsg, BkFlight
      <3> QED
        BY <1>6, <3>1 DEF Backups!Acceptable
    <2>3. (Same(st) => Same(t)) /\ (Sound(st) => Sound(t))
      <3>1. CASE m.what \in {"save", "check"} /\ o.out = "ok"
        <4>1. Carries(st, m.body)
          BY <1>1, <2>m, <3>1 DEF BkFlight
        <4> QED
          BY <1>4, <1>7, <3>1, <4>1 DEF Carries, Same, Sound, Typed, a
      <3>2. CASE m.what = "disable" /\ o.out = "ok"
        BY <1>4, <1>7, <2>m, <3>2 DEF BkFlight, Same, Sound, Typed, a
      <3>3. CASE m.what \in {"save", "check", "disable"} /\ o.out = "bad"
        BY <1>4, <1>6, <3>3 DEF Same, Sound, Typed, a
      <3>4. CASE m.what \notin {"save", "check", "disable"}
        BY <1>4, <1>6, <3>4 DEF SameBucket, Same, Sound, Typed, a
      <3> QED
        BY <1>6, <3>1, <3>2, <3>3, <3>4
    <2>4. (st.server.enabled => Same(st)) => (t.server.enabled => Same(t))
      <3>1. CASE m.what \in {"save", "check"} /\ o.out = "ok"
        <4>1. Carries(st, m.body)
          BY <1>1, <2>m, <3>1 DEF BkFlight
        <4> QED
          BY <1>4, <1>7, <3>1, <4>1 DEF Carries, Same, Typed, a
      <3>2. CASE m.what = "disable" /\ o.out = "ok"
        BY <1>4, <1>7, <2>m, <3>2 DEF BkFlight
      <3>3. CASE m.what \in {"save", "check", "disable"} /\ o.out = "bad"
        BY <1>4, <1>6, <2>3, <3>3 DEF a
      <3>4. CASE m.what \notin {"save", "check", "disable"}
        BY <1>4, <1>6, <2>3, <3>4 DEF SameBucket, a
      <3> QED
        BY <1>6, <3>1, <3>2, <3>3, <3>4
    <2>p. m.what \notin {"save", "check", "disable"} \/ o.out = "bad" => Backups!Public(b) = Backups!Public(a) /\ b.enabled = a.enabled
      BY <1>6 DEF SameBucket, Backups!Public
    <2>n. m.what \notin {"create", "upload", "delete"} \/ o.out = "bad" => b.names = a.names
      BY <1>6
    <2>5. ASSUME NEW k \in st.net, k # m PROVE BkFlight(t, k)
      <3>1. BkFlight(st, k)
        BY <2>1 DEF BkTrue, BkCore
      <3>2. m.what \in OfBucket => k.what \notin OfBucket
        BY <2>1, <2>5 DEF BkTrue, BkCore, Alone
      <3>3. m.what \in OfList => k.what \notin OfList
        BY <2>1, <2>5 DEF BkTrue, BkCore, Alone
      <3>4. k.what = "list" /\ k.out = "ok" => k.data = t.server.names
        BY <1>4, <2>n, <3>1, <3>3 DEF BkFlight, OfList, a
      <3>5. k.what \in {"load", "save", "check", "disable"} /\ k.out = "ok" => k.data = Backups!Public(t.server)
        BY <1>4, <2>p, <3>1, <3>2 DEF BkFlight, OfBucket, a
      <3>6. k.what \in {"save", "check"} => (k.out = "ok" => t.server.enabled)
        BY <1>4, <2>p, <3>1, <3>2 DEF BkFlight, OfBucket, a
      <3>7. k.what \in {"save", "check"} => t.visible /\ (k.out = None => Carries(t, k.body) /\ k.body.enabled)
        BY <1>4, <3>1 DEF BkFlight, Carries, Typed, Shown
      <3>8. k.what = "probe" => t.visible
        BY <1>4, <3>1 DEF BkFlight, Shown
      <3> QED
        BY <2>3, <2>4, <3>1, <3>4, <3>5, <3>6, <3>7, <3>8 DEF BkFlight
    <2>6. BkFlight(t, n)
      <3>1. n.what = "list" /\ n.out = "ok" => n.data = t.server.names
        BY <1>4, <1>5, <1>6, <2>n
      <3>2. n.what = "load" => n.out \in {None, "ok"}
        BY <1>5, <1>6
      <3>3. n.what \in {"load", "save", "check", "disable"} /\ n.out = "ok" => n.data = Backups!Public(t.server)
        BY <1>4, <1>5, <1>6, <2>p
      <3>4. n.what \in {"save", "check"} => t.visible /\ n.out # None /\ (n.out = "ok" => t.server.enabled)
        BY <1>1, <1>4, <1>5, <1>6, <1>7, <2>m, NoVerdict DEF BkFlight, Shown
      <3>5. n.what = "disable" => "conf" \notin DOMAIN n.body /\ "secret" \notin DOMAIN n.body /\ n.body.enabled = FALSE
        BY <1>5, <2>m DEF BkFlight
      <3>6. n.what = "save" /\ n.checked /\ n.out # "bad" => Sound(t)
        BY <1>1, <1>5, <2>3, <2>m, NoVerdict DEF BkFlight
      <3>7. n.what = "probe" => t.visible /\ Same(t) /\ (n.out = "ok" => Sound(t))
        BY <1>4, <1>5, <1>6, <2>3, <2>m DEF BkFlight, Shown, Sound, a
      <3>8. n.what = "verify" => n.form.enabled
        BY <1>5, <2>m DEF BkFlight
      <3>9. n.what = "verify" /\ n.fresh => (t.server.enabled => Same(t)) /\ (n.out = "ok" => Sound(t))
        BY <1>5, <1>6, <2>3, <2>4, <2>m DEF BkFlight, Sound, a
      <3> QED
        BY <3>1, <3>2, <3>3, <3>4, <3>5, <3>6, <3>7, <3>8, <3>9 DEF BkFlight
    <2>7. Alone(t.net, OfBucket) /\ Alone(t.net, OfList)
      BY <1>4, <1>5, <2>1 DEF BkTrue, BkCore, Alone
    <2>8. BkChecked(t)
      BY <1>4, <2>1, <2>3 DEF BkTrue, BkCore, BkChecked, Shown
    <2>9. \A k \in t.net : BkFlight(t, k)
      BY <1>4, <2>5, <2>6
    <2>10. BkSwitch(t, t.net) /\ BkBusy(t, t.net)
      BY <1>4, <1>5, <2>1 DEF BkTrue, BkRest, BkSwitch, BkBusy, Under, Shown
    <2>11. BkRows(t, t.net)
      <3>1. CASE m.what \in {"create", "upload", "delete"} /\ o.out = "ok"
        BY <1>4, <1>5, <3>1 DEF BkRows
      <3>2. CASE ~(m.what \in {"create", "upload", "delete"} /\ o.out = "ok")
        BY <1>1, <1>4, <1>5, <1>6, <2>1, <2>n, <3>2, NoVerdict DEF BkTrue, BkRest, BkRows, a
      <3> QED
        BY <3>1, <3>2
    <2>12. BkStored(t, t.net)
      <3>1. CASE m.what \in {"save", "check", "disable"} /\ o.out = "ok"
        BY <1>4, <1>5, <3>1 DEF BkStored
      <3>2. CASE ~(m.what \in {"save", "check", "disable"} /\ o.out = "ok")
        BY <1>1, <1>4, <1>5, <1>6, <2>1, <2>p, <3>2, NoVerdict DEF BkTrue, BkRest, BkStored, Shown, a
      <3> QED
        BY <3>1, <3>2
    <2> QED
      BY <2>7, <2>8, <2>9, <2>10, <2>11, <2>12 DEF BkTrue, BkCore, BkRest
  <1> QED
    BY <1>8, <1>9 DEF BkInv, t

LEMMA BkTakenFrom ==
  ASSUME NEW r, BkInv(r), NEW m \in r.net
  PROVE  /\ m.out # None => BkTaken([r EXCEPT !.net = @ \ {m}], m)
         /\ LET s == [r EXCEPT !.net = @ \ {m}, !.missed = TRUE]
                n == [m EXCEPT !.out = "bad"]
            IN BkTaken(s, n) /\ BkInv(s)
  <1>0. BkHas(r) /\ BkMsg(m)
    BY DEF BkInv, BkShape
  <1>1. ASSUME m.out # None PROVE BkTaken([r EXCEPT !.net = @ \ {m}], m)
    <2> DEFINE s == [r EXCEPT !.net = @ \ {m}]
    <2>1. Alike(r, s) /\ Typed(r, s) /\ Shown(r, s) /\ s.busy = r.busy /\ s.net = r.net \ {m}
      BY <1>0 DEF BkHas, BkFields, Alike, Typed, Shown
    <2> HIDE DEF s
    <2> QED
      BY <1>1, <2>1, BkTakes DEF s
  <1>2. LET s == [r EXCEPT !.net = @ \ {m}, !.missed = TRUE]
            n == [m EXCEPT !.out = "bad"]
        IN BkTaken(s, n) /\ BkInv(s)
    <2> DEFINE s == [r EXCEPT !.net = @ \ {m}, !.missed = TRUE]
               n == [m EXCEPT !.out = "bad"]
    <2>1. BkHas(s) /\ s.server = r.server /\ s.secret = r.secret /\ s.visible = r.visible /\ s.net = r.net \ {m} /\ s.missed = TRUE
      BY <1>0 DEF BkHas, BkFields
    <2>2. BkMsg(n) /\ n.out = "bad"
      BY <1>0 DEF BkMsg
    <2> HIDE DEF s, n
    <2>3. BkShape(s)
      BY <2>1 DEF BkInv, BkShape
    <2>4. BkTaken(s, n) /\ BkInv(s)
      BY <2>1, <2>2, <2>3, NoVerdict DEF BkTaken, BkInv
    <2> QED
      BY <2>4 DEF s, n
  <1> QED
    BY <1>1, <1>2

LEMMA BkStep == ASSUME BkInv(st), Backups!Next PROVE BkInv(st')
  <1>1. ASSUME Backups!Ready(st) PROVE BkFree(st)
    BY <1>1 DEF Backups!Ready, BkFree
  <1>2. CASE Backups!Visit \/ Backups!TypeName \/ Backups!Create \/ Backups!PickFile \/ Backups!ClickRow
    <2>1. BkFree(st)
      BY <1>1, <1>2 DEF Backups!Visit, Backups!TypeName, Backups!Create, Backups!PickFile, Backups!ClickRow
    <2> QED
      BY <1>2, <2>1, BkUsesList
  <1>3. CASE Backups!EditTarget
    BY <1>1, <1>3, BkEdits DEF Backups!EditTarget
  <1>4. CASE Backups!Switch
    BY <1>1, <1>4, BkSwitches DEF Backups!Switch
  <1>5. CASE Backups!Action
    BY <1>1, <1>5, BkActs DEF Backups!Action
  <1>6. CASE Backups!Serve
    BY <1>6, BkServes
  <1>7. CASE Backups!Answer
    BY <1>7, BkTakenFrom, BkAnswered DEF Backups!Answer
  <1>8. CASE Backups!Lost
    <2>1. PICK m \in st.net :
            LET s == [st EXCEPT !.net = @ \ {m}, !.missed = TRUE]
            IN st' = Backups!Move(CASE m.what \in {"list", "load", "verify"} -> Backups!Answered(s, [m EXCEPT !.out = "bad"])
                                    [] OTHER -> s)
      BY <1>8 DEF Backups!Lost
    <2> DEFINE s == [st EXCEPT !.net = @ \ {m}, !.missed = TRUE]
               n == [m EXCEPT !.out = "bad"]
    <2>2. BkTaken(s, n) /\ BkInv(s)
      BY BkTakenFrom
    <2>3. BkInv(Backups!Answered(s, n))
      BY <2>2, BkAnswered
    <2>4. st' \in {Backups!Move(Backups!Answered(s, n)), Backups!Move(s)}
      BY <2>1
    <2> HIDE DEF s, n
    <2> QED
      BY <2>2, <2>3, <2>4, BkMoved
  <1> QED
    BY <1>2, <1>3, <1>4, <1>5, <1>6, <1>7, <1>8 DEF Backups!Next

LEMMA BkInit == Backups!Init => BkInv(st)
  <1> SUFFICES ASSUME Backups!Init PROVE BkInv(st)
    OBVIOUS
  <1>1. PICK enabled \in BOOLEAN, conf \in Targets, secret \in Secrets :
        LET server == [enabled |-> enabled /\ conf # NoTarget, conf |-> conf, secret |-> secret, names |-> {}]
        IN st = Backups!loadBackupS3(Backups!loadBackups(
            [server |-> server, stored |-> [enabled |-> FALSE, conf |-> NoTarget], net |-> {}, moves |-> 0,
             rows |-> {}, name |-> None, file |-> None, said |-> "", missed |-> FALSE,
             visible |-> FALSE, switch |-> FALSE, badge |-> FALSE, label |-> "check", busy |-> FALSE,
             checked |-> FALSE, conf |-> NoTarget, secret |-> None]))
    BY DEF Backups!Init
  <1> DEFINE server == [enabled |-> enabled /\ conf # NoTarget, conf |-> conf, secret |-> secret, names |-> {}]
             s == [server |-> server, stored |-> [enabled |-> FALSE, conf |-> NoTarget], net |-> {}, moves |-> 0,
                   rows |-> {}, name |-> None, file |-> None, said |-> "", missed |-> FALSE,
                   visible |-> FALSE, switch |-> FALSE, badge |-> FALSE, label |-> "check", busy |-> FALSE,
                   checked |-> FALSE, conf |-> NoTarget, secret |-> None]
             m == Backups!Request("list", None)
             n == Backups!Request("load", None)
             a == Backups!Send(s, m)
             t == Backups!Send(a, n)
  <1>2. BkServer(server) /\ server.names = {}
    BY DEF BkServer
  <1> HIDE DEF server
  <1>3. /\ BkHas(s) /\ s.server = server /\ s.net = {} /\ s.rows = {} /\ s.missed = FALSE /\ s.visible = FALSE
        /\ s.switch = FALSE /\ s.busy = FALSE /\ s.checked = FALSE /\ s.secret = None
    BY DEF BkHas, BkFields
  <1> HIDE DEF s
  <1>4. m.what = "list" /\ m.out = None /\ BkMsg(m)
    BY DEF Backups!Request, BkMsg, BkWhats
  <1>5. n.what = "load" /\ n.out = None /\ BkMsg(n)
    BY DEF Backups!Request, BkMsg, BkWhats
  <1> HIDE DEF m, n
  <1>6. Alike(s, a) /\ Typed(s, a) /\ Shown(s, a) /\ a.busy = FALSE /\ a.net = {m}
    BY <1>3, BkSentIs
  <1>7. BkShape(a)
    BY <1>2, <1>3, <1>4, <1>6 DEF BkShape, Alike, Typed, Shown
  <1>8. \A k : BkFlight(a, m) /\ BkFlight(a, n)
    BY <1>4, <1>5, NoVerdict DEF BkFlight
  <1>9. BkCore(a) /\ Single(a.net, n)
    BY <1>3, <1>4, <1>5, <1>6, <1>8 DEF BkCore, Alone, BkChecked, Shown, Single, NoneOf, OfBucket, OfList
  <1>10. BkRest(a, a.net \union {n})
    BY <1>2, <1>3, <1>5, <1>6 DEF BkRest, BkSwitch, BkBusy, BkRows, BkStored, Shown, Alike
  <1>11. BkInv(t)
    BY <1>5, <1>7, <1>8, <1>9, <1>10, BkSendsFor
  <1>12. st = t
    BY <1>1 DEF server, s, a, t, m, n, Backups!loadBackupS3, Backups!loadBackups
  <1> QED
    BY <1>11, <1>12

LEMMA BkHolds == ASSUME BkInv(st) PROVE Backups!SaveOnlyChecked /\ Backups!SecretKept /\ Backups!CardSettles
  <1>1. Backups!SaveOnlyChecked
    BY DEF BkInv, BkTrue, BkCore, BkChecked, Sound, Same, Backups!SaveOnlyChecked
  <1>2. Backups!SecretKept
    BY DEF BkInv, BkShape, BkServer, Backups!SecretKept
  <1>3. Backups!CardSettles
    BY DEF BkInv, BkTrue, BkRest, BkSwitch, BkBusy, BkRows, Under, Backups!AtRest, Backups!CardSettles
  <1> QED
    BY <1>1, <1>2, <1>3

-----------------------------------------------------------------------------
(* The schedule of the backups. *)

SchFields == {"server", "net", "moves", "missed", "cron", "keep", "hint", "status", "dirty", "helper"}
SchHas(s) == SchFields \subseteq DOMAIN s

SchHint(s) == s.hint = Schedule!updateBackupScheduleCronHint(s.cron)
SchStatus(s) == s.status = Schedule!formatBackupScheduleStatus([cron |-> s.cron, keep |-> s.keep])
SchAsks(s) == \E m \in s.net : m.what = "load"

SchInv(s) ==
    /\ SchHas(s) /\ SchHint(s)
    /\ \A m \in s.net : {"what", "body", "out"} \subseteq DOMAIN m
    /\ ~s.missed /\ ~s.dirty => SchAsks(s) \/ SchStatus(s)

(* What is shown after a schedule was rendered. *)
LEMMA SchRendered ==
  ASSUME NEW s, SchHas(s), NEW sched
  PROVE  LET t == Schedule!renderBackupSchedule(s, sched)
         IN SchHas(t) /\ SchHint(t) /\ SchStatus(t) /\ t.net = s.net /\ t.missed = s.missed
  <1> DEFINE t == Schedule!renderBackupSchedule(s, sched)
             k == IF Schedule!isValidBackupKeep(sched.keep) THEN sched.keep ELSE 0
  <1>1. /\ SchHas(t) /\ t.net = s.net /\ t.missed = s.missed /\ t.cron = sched.cron /\ t.keep = k
        /\ t.status = Schedule!formatBackupScheduleStatus(sched)
        /\ t.hint = Schedule!updateBackupScheduleCronHint(sched.cron)
    BY DEF SchHas, SchFields, Schedule!renderBackupSchedule, Schedule!refreshBackupScheduleCronHint
  <1> HIDE DEF t
  <1>2. Schedule!formatBackupScheduleStatus(sched) =
        Schedule!formatBackupScheduleStatus([cron |-> sched.cron, keep |-> k])
    BY DEF Schedule!formatBackupScheduleStatus, Schedule!isValidBackupKeep
  <1> QED
    BY <1>1, <1>2 DEF SchHint, SchStatus, t

LEMMA SchLoads ==
  ASSUME NEW s, SchInv(s)
  PROVE  SchInv(Schedule!loadBackupSchedule(s))
  <1> DEFINE m == [what |-> "load", body |-> None, out |-> None]
             t == Schedule!loadBackupSchedule(s)
  <1>1. m.what = "load" /\ {"what", "body", "out"} \subseteq DOMAIN m
    OBVIOUS
  <1>2. t.net = s.net \union {m} /\ SchHas(t) /\ t.cron = s.cron /\ t.hint = s.hint
    BY DEF SchInv, SchHas, SchFields, Schedule!loadBackupSchedule, Schedule!Ask, Schedule!markFormClean
  <1> HIDE DEF t, m
  <1> QED
    BY <1>1, <1>2 DEF SchInv, SchHint, SchAsks, t

(* Nothing the invariant speaks of is touched. *)
LEMMA SchSame ==
  ASSUME NEW s, SchInv(s), NEW t, SchHas(t), t.net = s.net, t.missed = s.missed, t.dirty = s.dirty,
         t.cron = s.cron, t.keep = s.keep, t.hint = s.hint, t.status = s.status
  PROVE  SchInv(t)
  BY DEF SchInv, SchHint, SchAsks, SchStatus

LEMMA SchMoved == ASSUME NEW s, SchInv(s) PROVE SchInv(Schedule!Move(s))
  <1>1. LET t == Schedule!Move(s)
        IN SchHas(t) /\ t.net = s.net /\ t.missed = s.missed /\ t.dirty = s.dirty /\
           t.cron = s.cron /\ t.keep = s.keep /\ t.hint = s.hint /\ t.status = s.status
    BY DEF SchInv, SchHas, SchFields, Schedule!Move
  <1> QED
    BY <1>1, SchSame

LEMMA SchHelper ==
  ASSUME NEW s, SchInv(s), NEW t,
         \/ \E h : t = [s EXCEPT !.helper = h]
         \/ \E h, p, a : t = [[s EXCEPT !.helper = h] EXCEPT !.helper.preview = p, !.helper.error = FALSE, !.helper.applicable = a]
         \/ t = [s EXCEPT !.helper.error = TRUE]
  PROVE  SchInv(t)
  <1>1. SchHas(t) /\ t.net = s.net /\ t.missed = s.missed /\ t.dirty = s.dirty /\
        t.cron = s.cron /\ t.keep = s.keep /\ t.hint = s.hint /\ t.status = s.status
    BY DEF SchInv, SchHas, SchFields
  <1> QED
    BY <1>1, SchSame

LEMMA SchRefreshes ==
  ASSUME NEW s, SchInv(s), NEW h
  PROVE  SchInv(Schedule!refreshBackupScheduleHelper([s EXCEPT !.helper = h]))
  BY SchHelper DEF Schedule!refreshBackupScheduleHelper

LEMMA SchDirty ==
  ASSUME NEW s, SchInv(s), NEW t, SchHas(t), t.net = s.net, t.dirty = TRUE, SchHint(t)
  PROVE  SchInv(t)
  BY DEF SchInv

LEMMA SchAsksMore ==
  ASSUME NEW s, SchInv(s), NEW m, {"what", "body", "out"} \subseteq DOMAIN m
  PROVE  SchInv(Schedule!Ask(s, m))
  <1> DEFINE t == Schedule!Ask(s, m)
  <1>1. SchHas(t) /\ t.net = s.net \union {m} /\ t.missed = s.missed /\ t.dirty = s.dirty
        /\ t.cron = s.cron /\ t.keep = s.keep /\ t.hint = s.hint /\ t.status = s.status
    BY DEF SchInv, SchHas, SchFields, Schedule!Ask
  <1> HIDE DEF t
  <1> QED
    BY <1>1 DEF SchInv, SchHint, SchAsks, SchStatus, t

LEMMA SchApplies == ASSUME NEW s, SchInv(s) PROVE SchInv(Schedule!applyBackupScheduleHelper(s))
  <1> DEFINE h == Schedule!readBackupScheduleHelper(s)
             c == Schedule!HelperCron(h)
             k == IF Schedule!isValidBackupKeep(h.keep) THEN h.keep ELSE 0
             d == Schedule!closeBackupScheduleHelper(Schedule!markFormDirty(Schedule!refreshBackupScheduleCronHint(
                      [s EXCEPT !.cron = c, !.keep = k])))
             t == Schedule!applyBackupScheduleHelper(s)
  <1> HIDE DEF h, c, k
  <1>1. SchHas(d) /\ d.net = s.net /\ d.dirty = TRUE /\ SchHint(d)
    BY DEF SchInv, SchHas, SchFields, SchHint, Schedule!closeBackupScheduleHelper, Schedule!markFormDirty,
           Schedule!refreshBackupScheduleCronHint
  <1> HIDE DEF d
  <1>2. t \in {d, [s EXCEPT !.helper.error = TRUE]}
    BY DEF Schedule!applyBackupScheduleHelper, d, h, c, k
  <1> QED
    BY <1>1, <1>2, SchDirty, SchHelper

LEMMA SchInit == Schedule!Init => SchInv(st)
  <1> SUFFICES ASSUME Schedule!Init PROVE SchInv(st)
    OBVIOUS
  <1>1. PICK stored :
        st = Schedule!loadBackupSchedule(
            [server |-> stored, net |-> {}, moves |-> 0, missed |-> FALSE, cron |-> Schedule!NoCron, keep |-> 0,
             hint |-> <<>>, status |-> <<>>, dirty |-> FALSE, helper |-> Schedule!NoHelper])
    BY DEF Schedule!Init
  <1> DEFINE s == [server |-> stored, net |-> {}, moves |-> 0, missed |-> FALSE, cron |-> Schedule!NoCron, keep |-> 0,
                   hint |-> <<>>, status |-> <<>>, dirty |-> FALSE, helper |-> Schedule!NoHelper]
             m == [what |-> "load", body |-> None, out |-> None]
             t == Schedule!loadBackupSchedule(s)
  <1>2. SchHas(s) /\ s.hint = <<>> /\ s.cron = Schedule!NoCron /\ s.net = {}
    BY DEF SchHas, SchFields
  <1> HIDE DEF s
  <1>3. m.what = "load" /\ {"what", "body", "out"} \subseteq DOMAIN m
    OBVIOUS
  <1>4. t.net = {m} /\ SchHas(t) /\ t.cron = s.cron /\ t.hint = s.hint
    BY <1>2 DEF SchHas, SchFields, Schedule!loadBackupSchedule, Schedule!Ask, Schedule!markFormClean
  <1> HIDE DEF m, t
  <1>5. SchInv(t)
    BY <1>2, <1>3, <1>4 DEF SchInv, SchHint, SchAsks, Schedule!updateBackupScheduleCronHint
  <1> QED
    BY <1>1, <1>5 DEF s, t

LEMMA SchStep == ASSUME SchInv(st), Schedule!Next PROVE SchInv(st')
  <1>0. SchHas(st)
    BY DEF SchInv
  <1>1. CASE Schedule!Visit
    BY <1>1, SchLoads, SchMoved DEF Schedule!Visit
  <1>2. CASE Schedule!TypeCron
    <2>1. PICK c : st' = Schedule!Move(Schedule!markFormDirty(Schedule!refreshBackupScheduleCronHint([st EXCEPT !.cron = c])))
      BY <1>2 DEF Schedule!TypeCron
    <2> DEFINE t == Schedule!markFormDirty(Schedule!refreshBackupScheduleCronHint([st EXCEPT !.cron = c]))
    <2>2. SchHas(t) /\ t.net = st.net /\ t.dirty = TRUE /\ SchHint(t)
      BY <1>0 DEF SchHas, SchFields, SchHint, Schedule!markFormDirty, Schedule!refreshBackupScheduleCronHint
    <2> HIDE DEF t
    <2>3. SchInv(t)
      BY <2>2, SchDirty
    <2> QED
      BY <2>1, <2>3, SchMoved DEF t
  <1>3. CASE Schedule!TypeKeep
    <2>1. PICK n : st' = Schedule!Move(Schedule!markFormDirty([st EXCEPT !.keep = n]))
      BY <1>3 DEF Schedule!TypeKeep
    <2> DEFINE t == Schedule!markFormDirty([st EXCEPT !.keep = n])
    <2>2. SchHas(t) /\ t.net = st.net /\ t.dirty = TRUE /\ t.hint = st.hint /\ t.cron = st.cron
      BY <1>0 DEF SchHas, SchFields, Schedule!markFormDirty
    <2> HIDE DEF t
    <2>3. SchInv(t)
      BY <2>2, SchDirty DEF SchInv, SchHint
    <2> QED
      BY <2>1, <2>3, SchMoved DEF t
  <1>4. CASE Schedule!Submit
    <2>1. SchInv(Schedule!saveBackupSchedule(st))
      BY SchAsksMore DEF Schedule!saveBackupSchedule
    <2> QED
      BY <1>4, <2>1, SchMoved DEF Schedule!Submit
  <1>5. CASE Schedule!OpenHelper
    <2>1. SchInv(Schedule!openBackupScheduleHelper(st))
      BY SchRefreshes DEF Schedule!openBackupScheduleHelper
    <2> QED
      BY <1>5, <2>1, SchMoved DEF Schedule!OpenHelper
  <1>6. CASE Schedule!ChangeHelper
    <2>1. \A h : SchInv(Schedule!refreshBackupScheduleHelper([st EXCEPT !.helper = h]))
      BY SchRefreshes
    <2> QED
      BY <1>6, <2>1, SchMoved DEF Schedule!ChangeHelper
  <1>7. CASE Schedule!ApplyHelper
    BY <1>7, SchApplies DEF Schedule!ApplyHelper
  <1>8. CASE Schedule!CancelHelper
    BY <1>8, SchHelper DEF Schedule!CancelHelper, Schedule!closeBackupScheduleHelper
  <1>9. CASE Schedule!Serve
    <2>1. PICK m \in st.net :
            LET fine == m.what = "load" \/
                        (m.body.cron \in Takes \union {Schedule!NoCron}
                           /\ Schedule!validateBackupSchedule(m.body.cron, m.body.keep))
                server == IF m.what = "save" /\ fine THEN m.body ELSE st.server
            IN st' = [st EXCEPT !.server = server,
                   !.net = (@ \ {m}) \union {[m EXCEPT !.out = [ok |-> fine, sched |-> server]]}]
      BY <1>9 DEF Schedule!Serve
    <2> DEFINE fine == m.what = "load" \/
                        (m.body.cron \in Takes \union {Schedule!NoCron}
                           /\ Schedule!validateBackupSchedule(m.body.cron, m.body.keep))
               server == IF m.what = "save" /\ fine THEN m.body ELSE st.server
               out == [ok |-> fine, sched |-> server]
    <2>2. st' = [st EXCEPT !.server = server, !.net = (@ \ {m}) \union {[m EXCEPT !.out = out]}]
      BY <2>1
    <2> HIDE DEF out, server
    <2> DEFINE n == [m EXCEPT !.out = out]
    <2>3. {"what", "body", "out"} \subseteq DOMAIN n /\ n.what = m.what
      BY DEF SchInv
    <2>4. SchHas(st') /\ st'.net = (st.net \ {m}) \union {n} /\ st'.missed = st.missed /\ st'.dirty = st.dirty
          /\ st'.cron = st.cron /\ st'.keep = st.keep /\ st'.hint = st.hint /\ st'.status = st.status
      BY <1>0, <2>2 DEF SchHas, SchFields
    <2> HIDE DEF n
    <2> QED
      BY <2>3, <2>4 DEF SchInv, SchHint, SchAsks, SchStatus
  <1>10. CASE Schedule!Answer
    <2>1. PICK m \in st.net :
            LET s == [st EXCEPT !.net = @ \ {m}]
            IN st' = IF m.what = "load" THEN Schedule!LoadedSchedule(s, m) ELSE Schedule!SavedSchedule(s, m)
      BY <1>10 DEF Schedule!Answer
    <2> DEFINE s == [st EXCEPT !.net = @ \ {m}]
               r == Schedule!renderBackupSchedule(s, m.out.sched)
    <2>2. SchHas(s) /\ s.net = st.net \ {m} /\ s.missed = st.missed /\ s.dirty = st.dirty
          /\ s.cron = st.cron /\ s.keep = st.keep /\ s.hint = st.hint /\ s.status = st.status
      BY <1>0 DEF SchHas, SchFields
    <2> HIDE DEF s
    <2>3. SchHas(r) /\ SchHint(r) /\ SchStatus(r) /\ r.net = s.net
      BY <2>2, SchRendered
    <2> HIDE DEF r
    <2>4. SchInv(r)
      BY <2>2, <2>3 DEF SchInv
    <2>5. SchInv(Schedule!markFormClean(r))
      <3> DEFINE t == Schedule!markFormClean(r)
      <3>1. SchHas(t) /\ t.net = r.net /\ t.cron = r.cron /\ t.keep = r.keep /\ t.hint = r.hint /\ t.status = r.status
        BY <2>3 DEF SchHas, SchFields, Schedule!markFormClean
      <3> HIDE DEF t
      <3> QED
        BY <2>2, <2>3, <3>1 DEF SchInv, SchHint, SchStatus, t
    <2>6. SchInv([s EXCEPT !.missed = TRUE])
      <3> DEFINE t == [s EXCEPT !.missed = TRUE]
      <3>1. SchHas(t) /\ t.net = s.net /\ t.cron = s.cron /\ t.hint = s.hint /\ t.missed
        BY <2>2 DEF SchHas, SchFields
      <3> HIDE DEF t
      <3> QED
        BY <2>2, <3>1 DEF SchInv, SchHint, t
    <2>7. m.what # "load" => SchInv(s)
      BY <2>2 DEF SchInv, SchHint, SchAsks, SchStatus
    <2> QED
      BY <2>1, <2>4, <2>5, <2>6, <2>7
      DEF Schedule!LoadedSchedule, Schedule!SavedSchedule, Schedule!parseBackupSchedule, s, r
  <1>11. CASE Schedule!Lost
    <2>1. PICK m \in st.net : st' = Schedule!Move([st EXCEPT !.net = @ \ {m}, !.missed = TRUE])
      BY <1>11 DEF Schedule!Lost
    <2> DEFINE s == [st EXCEPT !.net = @ \ {m}, !.missed = TRUE]
    <2>2. SchHas(s) /\ s.net = st.net \ {m} /\ s.missed /\ s.cron = st.cron /\ s.hint = st.hint
      BY <1>0 DEF SchHas, SchFields
    <2> HIDE DEF s
    <2>3. SchInv(s)
      BY <2>2 DEF SchInv, SchHint
    <2> QED
      BY <2>1, <2>3, SchMoved DEF s
  <1> QED
    BY <1>1, <1>2, <1>3, <1>4, <1>5, <1>6, <1>7, <1>8, <1>9, <1>10, <1>11 DEF Schedule!Next

LEMMA SchShows == ASSUME SchInv(st) PROVE Schedule!ScheduleShown
  BY DEF SchInv, SchHint, SchAsks, SchStatus, Schedule!ScheduleShown

(* What the controls make of an expression. *)
SchAt(cron, p) ==
    /\ cron[1][1] = "n" /\ p.minute = cron[1][2] /\ p.minute \in 0..59
    /\ cron[2][1] = "n" /\ p.hour = cron[2][2] /\ p.hour \in 0..23

LEMMA SchParsed ==
  ASSUME NEW cron
  PROVE  LET p == Schedule!parseBackupCronToControls(cron)
         IN /\ p.mode \in {"custom", "daily", "weekly", "monthly"}
            /\ p.mode = "custom" => p.raw = cron
            /\ p.mode # "custom" => SchAt(cron, p) /\ cron[4] = Schedule!Star
            /\ p.mode = "daily" => cron[3] = Schedule!Star /\ cron[5] = Schedule!Star
            /\ p.mode = "weekly" => /\ cron[3] = Schedule!Star /\ cron[5][1] \in {"n", "day"}
                                   /\ p.dow = cron[5][2] /\ p.dow \in 0..6
            /\ p.mode = "monthly" => /\ cron[5] = Schedule!Star /\ cron[3][1] = "n"
                                    /\ p.dom = cron[3][2] /\ p.dom \in 1..31
  <1> DEFINE minute == Schedule!parseBackupIntField(cron[1], Schedule!isValidBackupMinute)
             hour == Schedule!parseBackupIntField(cron[2], Schedule!isValidBackupHour)
             dow == Schedule!parseBackupDowToken(cron[5])
             dom == Schedule!parseBackupDomToken(cron[3])
             timed == cron # Schedule!NoCron /\ minute >= 0 /\ hour >= 0 /\ cron[4] = Schedule!Star
             daily == [mode |-> "daily", hour |-> hour, minute |-> minute, dow |-> 1, dom |-> 1, raw |-> cron]
             weekly == [mode |-> "weekly", hour |-> hour, minute |-> minute, dow |-> dow, dom |-> 1, raw |-> cron]
             monthly == [mode |-> "monthly", hour |-> hour, minute |-> minute, dow |-> 1, dom |-> dom, raw |-> cron]
             custom == [mode |-> "custom", hour |-> 0, minute |-> 0, dow |-> 1, dom |-> 1, raw |-> cron]
             p == Schedule!parseBackupCronToControls(cron)
             A == timed /\ cron[3] = Schedule!Star /\ cron[5] = Schedule!Star
             B == timed /\ cron[3] = Schedule!Star /\ dow >= 0
             C == timed /\ cron[5] = Schedule!Star /\ dom >= 0
  <1>1. minute = -1 \/ (cron[1][1] = "n" /\ minute = cron[1][2] /\ minute \in 0..59)
    BY DEF Schedule!parseBackupIntField, Schedule!isValidBackupMinute
  <1>2. hour = -1 \/ (cron[2][1] = "n" /\ hour = cron[2][2] /\ hour \in 0..23)
    BY DEF Schedule!parseBackupIntField, Schedule!isValidBackupHour
  <1>3. dow = -1 \/ (cron[5][1] \in {"n", "day"} /\ dow = cron[5][2] /\ dow \in 0..6)
    BY DEF Schedule!parseBackupDowToken, Schedule!isValidBackupDow
  <1>4. dom = -1 \/ (cron[3][1] = "n" /\ dom = cron[3][2] /\ dom \in 1..31)
    BY DEF Schedule!parseBackupDomToken, Schedule!isValidBackupDom
  <1>5. /\ daily.mode = "daily" /\ daily.hour = hour /\ daily.minute = minute
        /\ weekly.mode = "weekly" /\ weekly.hour = hour /\ weekly.minute = minute /\ weekly.dow = dow
        /\ monthly.mode = "monthly" /\ monthly.hour = hour /\ monthly.minute = minute /\ monthly.dom = dom
        /\ custom.mode = "custom" /\ custom.raw = cron
    OBVIOUS
  <1>6. p = CASE A -> daily [] B -> weekly [] C -> monthly [] OTHER -> custom
    BY DEF Schedule!parseBackupCronToControls
  <1> HIDE DEF custom, minute, hour, dow, dom, p, daily, weekly, monthly
  <1>s. Schedule!Star[1] = "*"
    BY DEF Schedule!Star
  <1>t. ~(A /\ B) /\ ~(A /\ C) /\ ~(B /\ C)
    BY <1>3, <1>4, <1>s
  <1>u. \/ p = custom
        \/ p = daily /\ A
        \/ p = weekly /\ B
        \/ p = monthly /\ C
    <2> HIDE DEF A, B, C
    <2>1. CASE A
      BY <1>6, <1>t, <2>1, Zenon
    <2>2. CASE B
      BY <1>6, <1>t, <2>2, Zenon
    <2>3. CASE C
      BY <1>6, <1>t, <2>3, Zenon
    <2>4. CASE ~A /\ ~B /\ ~C
      BY <1>6, <2>4, Zenon
    <2> QED
      BY <2>1, <2>2, <2>3, <2>4
  <1>v. timed => cron[4] = Schedule!Star /\ cron[1][1] = "n" /\ minute = cron[1][2] /\ minute \in 0..59
               /\ cron[2][1] = "n" /\ hour = cron[2][2] /\ hour \in 0..23
    BY <1>1, <1>2
  <1>7. CASE p = custom
    BY <1>5, <1>7 DEF p
  <1>8. CASE p = daily /\ A
    BY <1>5, <1>8, <1>v DEF SchAt, p
  <1>9. CASE p = weekly /\ B
    BY <1>3, <1>5, <1>9, <1>v DEF SchAt, p
  <1>10. CASE p = monthly /\ C
    BY <1>4, <1>5, <1>10, <1>v DEF SchAt, p
  <1> QED
    BY <1>u, <1>7, <1>8, <1>9, <1>10

LEMMA SchField == ASSUME NEW n PROVE Schedule!Num(n)[1] = "n" /\ Schedule!Num(n)[2] = n /\ Schedule!Num(n) # Schedule!Star
  BY DEF Schedule!Num, Schedule!Star

(* The moments an expression of the dialog stands for. *)
LEMMA SchBuilt ==
  ASSUME NEW cron, NEW p, SchAt(cron, p), cron[4] = Schedule!Star, NEW c,
         c.hour = p.hour, c.minute = p.minute, c.dow = p.dow, c.dom = p.dom
  PROVE  /\ cron[3] = Schedule!Star /\ cron[5] = Schedule!Star =>
               LET again == Schedule!buildBackupCron("daily", c)
               IN again # Schedule!NoCron /\ Schedule!Moments(again) = Schedule!Moments(cron)
         /\ cron[3] = Schedule!Star /\ cron[5][1] \in {"n", "day"} /\ p.dow = cron[5][2] /\ p.dow \in 0..6 =>
               LET again == Schedule!buildBackupCron("weekly", c)
               IN again # Schedule!NoCron /\ Schedule!Moments(again) = Schedule!Moments(cron)
         /\ cron[5] = Schedule!Star /\ cron[3][1] = "n" /\ p.dom = cron[3][2] /\ p.dom \in 1..31 =>
               LET again == Schedule!buildBackupCron("monthly", c)
               IN again # Schedule!NoCron /\ Schedule!Moments(again) = Schedule!Moments(cron)
  <1> DEFINE M == Schedule!Num(p.minute)
             H == Schedule!Num(p.hour)
             S == Schedule!Star
             daily == <<M, H, S, S, S>>
             weekly == <<M, H, S, S, Schedule!Num(p.dow)>>
             monthly == <<M, H, Schedule!Num(p.dom), S, S>>
  <1>0. Schedule!isValidBackupHour(c.hour) /\ Schedule!isValidBackupMinute(c.minute)
    BY DEF SchAt, Schedule!isValidBackupHour, Schedule!isValidBackupMinute
  <1>1. /\ Schedule!buildBackupCron("daily", c) = daily
        /\ p.dow \in 0..6 => Schedule!buildBackupCron("weekly", c) = weekly
        /\ p.dom \in 1..31 => Schedule!buildBackupCron("monthly", c) = monthly
    BY <1>0 DEF Schedule!buildBackupCron, Schedule!isValidBackupDow, Schedule!isValidBackupDom
  <1>2. daily # Schedule!NoCron /\ weekly # Schedule!NoCron /\ monthly # Schedule!NoCron
    BY DEF Schedule!NoCron
  <1>3. /\ daily[1] = M /\ daily[2] = H /\ daily[3] = S /\ daily[5] = S
        /\ weekly[1] = M /\ weekly[2] = H /\ weekly[3] = S /\ weekly[5] = Schedule!Num(p.dow)
        /\ monthly[1] = M /\ monthly[2] = H /\ monthly[3] = Schedule!Num(p.dom) /\ monthly[5] = S
    OBVIOUS
  <1> DEFINE V(f, all) == IF f = S THEN all ELSE IF f[1] \in {"n", "day"} THEN {f[2]} ELSE {}
  <1>4. /\ V(M, 0..59) = V(cron[1], 0..59) /\ V(H, 0..23) = V(cron[2], 0..23)
        /\ cron[5][1] \in {"n", "day"} /\ p.dow = cron[5][2] => V(Schedule!Num(p.dow), 0..6) = V(cron[5], 0..6)
        /\ cron[3][1] = "n" /\ p.dom = cron[3][2] => V(Schedule!Num(p.dom), 1..31) = V(cron[3], 1..31)
    <2>1. ASSUME NEW f, NEW n, NEW all, f[1] \in {"n", "day"}, f[2] = n
          PROVE  V(Schedule!Num(n), all) = V(f, all)
      <3>1. S[1] = "*"
        BY DEF Schedule!Star
      <3>2. f # S
        BY <2>1, <3>1
      <3> QED
        BY <2>1, <3>2, SchField
    <2> HIDE DEF V
    <2> QED
      BY <2>1 DEF SchAt
  <1>5. \A x : Schedule!Moments(x) = [dow |-> V(x[5], 0..6), dom |-> V(x[3], 1..31), hour |-> V(x[2], 0..23), minute |-> V(x[1], 0..59)]
    BY DEF Schedule!Moments
  <1> HIDE DEF daily, weekly, monthly, V, M, H, S
  <1>6. S = Schedule!Star
    BY DEF S
  <1> QED
    BY <1>1, <1>2, <1>3, <1>4, <1>5, <1>6

LEMMA SchTrips == ASSUME SchInv(st) PROVE Schedule!HelperRoundTrip
  <1> DEFINE cron == st.cron
             p == Schedule!parseBackupCronToControls(cron)
             h == Schedule!openBackupScheduleHelper(st).helper
             again == Schedule!HelperCron(h)
             time == Schedule!splitBackupHelperTime(p)
             text == IF p.mode = "custom" THEN p.raw ELSE Schedule!NoCron
             opened == [open |-> TRUE, freq |-> p.mode, hour |-> time.hour, minute |-> time.minute,
                        dow |-> p.dow, dom |-> p.dom, keep |-> st.keep, custom |-> text,
                        preview |-> <<>>, error |-> FALSE, applicable |-> FALSE]
  <1>1. /\ p.mode \in {"custom", "daily", "weekly", "monthly"}
        /\ p.mode = "custom" => p.raw = cron
        /\ p.mode # "custom" => SchAt(cron, p) /\ cron[4] = Schedule!Star
        /\ p.mode = "daily" => cron[3] = Schedule!Star /\ cron[5] = Schedule!Star
        /\ p.mode = "weekly" => /\ cron[3] = Schedule!Star /\ cron[5][1] \in {"n", "day"}
                               /\ p.dow = cron[5][2] /\ p.dow \in 0..6
        /\ p.mode = "monthly" => /\ cron[5] = Schedule!Star /\ cron[3][1] = "n"
                                /\ p.dom = cron[3][2] /\ p.dom \in 1..31
    BY SchParsed
  <1> HIDE DEF p
  <1>2. p.mode # "custom" => time.hour = p.hour /\ time.minute = p.minute
    BY <1>1 DEF SchAt, Schedule!splitBackupHelperTime, Schedule!isValidBackupHour, Schedule!isValidBackupMinute
  <1> HIDE DEF time, text
  <1>3. h.freq = p.mode /\ h.hour = time.hour /\ h.minute = time.minute /\ h.dow = p.dow /\ h.dom = p.dom
        /\ h.custom = text
    <2>1. "helper" \in DOMAIN st
      BY DEF SchInv, SchHas, SchFields
    <2> DEFINE s == [st EXCEPT !.helper = opened]
    <2>2. s.helper = opened /\ "helper" \in DOMAIN s
      BY <2>1
    <2>3. h = Schedule!refreshBackupScheduleHelper(s).helper
      BY DEF Schedule!openBackupScheduleHelper, p, time, text
    <2> HIDE DEF s
    <2>4. PICK x, y : Schedule!refreshBackupScheduleHelper(s) =
             [s EXCEPT !.helper.preview = x, !.helper.error = FALSE, !.helper.applicable = y]
      BY DEF Schedule!refreshBackupScheduleHelper
    <2>5. h = [opened EXCEPT !.preview = x, !.error = FALSE, !.applicable = y]
      BY <2>2, <2>3, <2>4
    <2> QED
      BY <2>5
  <1> HIDE DEF h
  <1>4. CASE p.mode = "custom"
    <2>1. again = cron
      BY <1>1, <1>3, <1>4 DEF text, Schedule!HelperCron
    <2> QED
      BY <1>4, <2>1 DEF Schedule!HelperRoundTrip, h, p
  <1>5. CASE p.mode # "custom"
    <2>1. again = Schedule!buildBackupCron(p.mode, h)
      BY <1>3, <1>5 DEF Schedule!HelperCron
    <2>2. h.hour = p.hour /\ h.minute = p.minute /\ h.dow = p.dow /\ h.dom = p.dom
      BY <1>2, <1>3, <1>5
    <2> HIDE DEF again, cron
    <2>3. SchAt(cron, p) /\ cron[4] = Schedule!Star
      BY <1>1, <1>5
    <2>4. again # Schedule!NoCron /\ Schedule!Moments(again) = Schedule!Moments(cron)
      <3>1. CASE p.mode = "daily"
        BY <1>1, <2>1, <2>2, <2>3, <3>1, SchBuilt
      <3>2. CASE p.mode = "weekly"
        BY <1>1, <2>1, <2>2, <2>3, <3>2, SchBuilt
      <3>3. CASE p.mode = "monthly"
        BY <1>1, <2>1, <2>2, <2>3, <3>3, SchBuilt
      <3> QED
        BY <1>1, <1>5, <3>1, <3>2, <3>3
    <2> QED
      BY <1>5, <2>4 DEF Schedule!HelperRoundTrip, h, p, again, cron
  <1> QED
    BY <1>4, <1>5

-----------------------------------------------------------------------------
(* The SDK keys. *)

KeyFields == {"server", "env", "scopeGen", "globalRate", "list", "rows", "once", "dialog", "missed", "net", "moves"}
KeyHas(s) == KeyFields \subseteq DOMAIN s

KeyRows(s, all) ==
    {[id |-> k.id, revoked |-> k.revoked, rate |-> SdkKeys!effectiveRps(k.rate, s.globalRate)] :
        k \in SdkKeys!OfEnv(all, s.env)}

KeyAsk(s, m) ==
    /\ {"what", "arg", "gen", "out", "data"} \subseteq DOMAIN m
    /\ m.gen \in Nat /\ m.gen <= s.scopeGen
    /\ m.what \in {"list", "create", "revoke", "limit"}
    /\ m.what = "list" => m.out \in {"", "ok"}

KeyStale(s, m) == m.what = "list" /\ m.gen # s.scopeGen

(* A change is under way, and nothing else that counts. *)
KeyBusy(s) == \E m \in s.net : m.what # "list" /\ \A n \in s.net : n # m => KeyStale(s, n)
(* The list is under way, and a list that was served is that of now. *)
KeyListing(s) ==
    /\ \E m \in s.net : m.what = "list" /\ m.gen = s.scopeGen
    /\ \A m \in s.net : /\ m.what = "list"
                        /\ m.gen = s.scopeGen /\ m.out = "ok" => m.data = s.server
KeyRest(s) == (\A m \in s.net : KeyStale(s, m)) /\ s.rows = KeyRows(s, s.server)

KeyInv(s) ==
    /\ KeyHas(s) /\ s.scopeGen \in Nat
    /\ \A m \in s.net : KeyAsk(s, m)
    /\ ~s.missed => KeyBusy(s) \/ KeyListing(s) \/ KeyRest(s)

KeyAlike(t, s) ==
    /\ t.net = s.net /\ t.missed = s.missed /\ t.scopeGen = s.scopeGen /\ t.server = s.server
    /\ t.env = s.env /\ t.rows = s.rows /\ t.globalRate = s.globalRate

(* Nothing the invariant speaks of is touched. *)
LEMMA KeySame ==
  ASSUME NEW s, KeyInv(s), NEW t, KeyHas(t), KeyAlike(t, s)
  PROVE  KeyInv(t)
  <1>1. /\ t.net = s.net /\ t.missed = s.missed /\ t.scopeGen = s.scopeGen /\ t.server = s.server
        /\ t.env = s.env /\ t.rows = s.rows /\ t.globalRate = s.globalRate
    BY DEF KeyAlike
  <1>2. /\ \A m : KeyAsk(t, m) <=> KeyAsk(s, m)
        /\ \A m : KeyStale(t, m) <=> KeyStale(s, m)
    BY <1>1 DEF KeyAsk, KeyStale
  <1>3. KeyRows(t, t.server) = KeyRows(s, s.server)
    BY <1>1 DEF KeyRows
  <1>4. (KeyBusy(s) => KeyBusy(t)) /\ (KeyListing(s) => KeyListing(t)) /\ (KeyRest(s) => KeyRest(t))
    BY <1>1, <1>2, <1>3 DEF KeyBusy, KeyListing, KeyRest
  <1> QED
    BY <1>1, <1>2, <1>4 DEF KeyInv

LEMMA KeyMoved == ASSUME NEW s, KeyInv(s) PROVE KeyInv(SdkKeys!Move(s))
  <1>1. KeyHas(SdkKeys!Move(s)) /\ KeyAlike(SdkKeys!Move(s), s)
    BY DEF KeyInv, KeyHas, KeyFields, KeyAlike, SdkKeys!Move
  <1> QED
    BY <1>1, KeySame

(* The list is asked for: whatever else is under way has been left. *)
LEMMA KeyLoads ==
  ASSUME NEW s, KeyHas(s), s.scopeGen \in Nat, \A m \in s.net : KeyAsk(s, m),
         ~s.missed => \/ \A m \in s.net : KeyStale(s, m)
                      \/ KeyListing(s)
  PROVE  KeyInv(SdkKeys!loadKeys(s))
  <1> DEFINE t == SdkKeys!loadKeys(s)
             m == [what |-> "list", arg |-> None, gen |-> s.scopeGen, out |-> "", data |-> {}]
  <1>1. KeyHas(t) /\ t.net = s.net \union {m} /\ t.scopeGen = s.scopeGen /\ t.missed = s.missed /\ t.server = s.server
    BY DEF KeyHas, KeyFields, SdkKeys!loadKeys, SdkKeys!Send
  <1>2. /\ {"what", "arg", "gen", "out", "data"} \subseteq DOMAIN m
        /\ m.what = "list" /\ m.gen = s.scopeGen /\ m.out = ""
    OBVIOUS
  <1> HIDE DEF t, m
  <1>3. \A n \in t.net : KeyAsk(t, n)
    <2>1. \A n : KeyAsk(t, n) <=> KeyAsk(s, n)
      BY <1>1 DEF KeyAsk
    <2>2. s.scopeGen <= s.scopeGen
      OBVIOUS
    <2>3. m.gen \in Nat /\ m.gen <= s.scopeGen
      BY <1>2, <2>2
    <2>4. KeyAsk(s, m)
      BY <1>2, <2>3, Zenon DEF KeyAsk
    <2> QED
      BY <1>1, <2>1, <2>4
  <1>4. ~t.missed => KeyListing(t)
    BY <1>1, <1>2 DEF KeyListing, KeyStale
  <1> QED
    BY <1>1, <1>3, <1>4 DEF KeyInv, t

(* A change is asked for when nothing else is under way. *)
LEMMA KeySends ==
  ASSUME NEW s, KeyInv(s), NEW what \in {"create", "revoke", "limit"}, NEW arg, SdkKeys!Settled(s)
  PROVE  KeyInv(SdkKeys!Send(s, what, arg))
  <1> DEFINE t == SdkKeys!Send(s, what, arg)
             m == [what |-> what, arg |-> arg, gen |-> s.scopeGen, out |-> "", data |-> {}]
  <1>1. KeyHas(t) /\ t.net = s.net \union {m} /\ t.scopeGen = s.scopeGen /\ t.missed = s.missed
    BY DEF KeyInv, KeyHas, KeyFields, SdkKeys!Send
  <1>2. {"what", "arg", "gen", "out", "data"} \subseteq DOMAIN m /\ m.what = what /\ m.gen = s.scopeGen
    OBVIOUS
  <1> HIDE DEF t, m
  <1>3. \A n \in s.net : KeyStale(s, n)
    BY DEF SdkKeys!Settled, SdkKeys!scopeStale, KeyStale
  <1>4. \A n \in t.net : KeyAsk(t, n)
    <2>1. \A n : KeyAsk(t, n) <=> KeyAsk(s, n)
      BY <1>1 DEF KeyAsk
    <2>2. KeyAsk(s, m)
      <3>1. m.what \in {"list", "create", "revoke", "limit"} /\ m.what # "list"
        BY <1>2
      <3>2. s.scopeGen \in Nat /\ s.scopeGen <= s.scopeGen
        BY DEF KeyInv
      <3>3. m.gen \in Nat /\ m.gen <= s.scopeGen
        BY <1>2, <3>2
      <3> QED
        BY <1>2, <3>1, <3>3, Zenon DEF KeyAsk
    <2> QED
      BY <1>1, <2>1, <2>2 DEF KeyInv
  <1>5. KeyBusy(t)
    BY <1>1, <1>2, <1>3 DEF KeyBusy, KeyStale
  <1> QED
    BY <1>1, <1>4, <1>5 DEF KeyInv, t

LEMMA KeyInit == SdkKeys!Init => KeyInv(st)
  <1> SUFFICES ASSUME SdkKeys!Init PROVE KeyInv(st)
    OBVIOUS
  <1>1. PICK env, rate :
        st = SdkKeys!loadKeys([server |-> {}, env |-> env, scopeGen |-> 0, globalRate |-> rate, list |-> {}, rows |-> {},
                               once |-> None, dialog |-> None, missed |-> FALSE, net |-> {}, moves |-> 0])
    BY DEF SdkKeys!Init
  <1> DEFINE s == [server |-> {}, env |-> env, scopeGen |-> 0, globalRate |-> rate, list |-> {}, rows |-> {},
                   once |-> None, dialog |-> None, missed |-> FALSE, net |-> {}, moves |-> 0]
  <1>2. KeyHas(s) /\ s.net = {} /\ s.scopeGen = 0
    BY DEF KeyHas, KeyFields
  <1> HIDE DEF s
  <1> QED
    BY <1>1, <1>2, KeyLoads DEF s

(* What is left when an answer has been taken off the net. *)
LEMMA KeyTaken ==
  ASSUME NEW s, KeyInv(s), NEW m \in s.net,
         NEW t, KeyHas(t), t.net = s.net \ {m}, t.missed = s.missed, t.scopeGen = s.scopeGen
  PROVE  /\ t.scopeGen \in Nat /\ \A n \in t.net : KeyAsk(t, n)
         /\ ~s.missed /\ m.what # "list" => \A n \in t.net : KeyStale(t, n)
  <1>1. \A n : (KeyAsk(t, n) <=> KeyAsk(s, n)) /\ (KeyStale(t, n) <=> KeyStale(s, n))
    BY DEF KeyAsk, KeyStale
  <1> QED
    BY <1>1 DEF KeyInv, KeyBusy, KeyListing, KeyRest, KeyStale

LEMMA KeyAnswered ==
  ASSUME NEW s, KeyInv(s), NEW m \in s.net, m.out # ""
  PROVE  KeyInv(SdkKeys!Answered([s EXCEPT !.net = @ \ {m}], m))
  <1> DEFINE t == [s EXCEPT !.net = @ \ {m}]
  <1>1. KeyHas(t) /\ t.net = s.net \ {m} /\ t.missed = s.missed /\ t.scopeGen = s.scopeGen /\ t.server = s.server
        /\ t.env = s.env /\ t.rows = s.rows /\ t.globalRate = s.globalRate
    BY DEF KeyInv, KeyHas, KeyFields
  <1> HIDE DEF t
  <1>2. KeyAsk(s, m)
    BY DEF KeyInv
  <1>3. CASE m.what # "list"
    <2>1. ASSUME NEW u, KeyHas(u), u.net = t.net, u.missed = t.missed, u.scopeGen = t.scopeGen
          PROVE  KeyInv(SdkKeys!loadKeys(u))
      BY <1>1, <1>3, <2>1, KeyTaken, KeyLoads
    <2>2. ASSUME NEW k PROVE KeyInv(SdkKeys!loadKeys([t EXCEPT !.once = k]))
      <3> DEFINE u == [t EXCEPT !.once = k]
      <3>1. KeyHas(u) /\ u.net = t.net /\ u.missed = t.missed /\ u.scopeGen = t.scopeGen
        BY <1>1 DEF KeyHas, KeyFields
      <3> HIDE DEF u
      <3> QED
        BY <2>1, <3>1 DEF u
    <2>3. KeyInv(SdkKeys!loadKeys(SdkKeys!closeKeyLimitsDialog(t)))
      <3> DEFINE u == SdkKeys!closeKeyLimitsDialog(t)
      <3>1. KeyHas(u) /\ u.net = t.net /\ u.missed = t.missed /\ u.scopeGen = t.scopeGen
        BY <1>1 DEF KeyHas, KeyFields, SdkKeys!closeKeyLimitsDialog
      <3> HIDE DEF u
      <3> QED
        BY <2>1, <3>1 DEF u
    <2>4. KeyInv(SdkKeys!loadKeys(t))
      BY <1>1, <2>1
    <2>5. KeyInv(SdkKeys!CreatedKey(t, m)) /\ KeyInv(SdkKeys!RevokedKey(t, m)) /\ KeyInv(SdkKeys!SavedKeyLimits(t, m))
      BY <2>2, <2>3, <2>4 DEF SdkKeys!CreatedKey, SdkKeys!RevokedKey, SdkKeys!SavedKeyLimits
    <2>6. m.what \in {"create", "revoke", "limit"}
      BY <1>2, <1>3 DEF KeyAsk
    <2>7. SdkKeys!Answered(t, m) \in {SdkKeys!CreatedKey(t, m), SdkKeys!RevokedKey(t, m), SdkKeys!SavedKeyLimits(t, m)}
      BY <2>6 DEF SdkKeys!Answered
    <2> QED
      BY <2>5, <2>7 DEF t
  <1>4. CASE m.what = "list"
    <2>1. SdkKeys!Answered(t, m) = SdkKeys!LoadedKeys(t, m)
      BY <1>4 DEF SdkKeys!Answered
    <2>2. m.out = "ok"
      BY <1>2, <1>4 DEF KeyAsk
    <2>3. t.scopeGen \in Nat /\ \A n \in t.net : KeyAsk(t, n)
      BY <1>1, KeyTaken
    <2>4. \A n : KeyStale(t, n) <=> KeyStale(s, n)
      BY <1>1 DEF KeyStale
    <2>5. KeyRows(t, t.server) = KeyRows(s, s.server)
      BY <1>1 DEF KeyRows
    <2>6. CASE m.gen # t.scopeGen
      <3>1. KeyStale(s, m)
        BY <1>1, <1>4, <2>6 DEF KeyStale
      <3>2. (KeyBusy(s) => KeyBusy(t)) /\ (KeyListing(s) => KeyListing(t)) /\ (KeyRest(s) => KeyRest(t))
        BY <1>1, <1>4, <2>4, <2>5, <3>1 DEF KeyBusy, KeyListing, KeyRest, KeyStale
      <3>3. KeyInv(t)
        BY <1>1, <2>3, <3>2 DEF KeyInv
      <3> QED
        BY <2>1, <2>6, <3>3 DEF SdkKeys!LoadedKeys, SdkKeys!scopeStale, t
    <2>7. CASE m.gen = t.scopeGen
      <3> DEFINE l == SdkKeys!OfEnv(m.data, t.env)
                 u == [t EXCEPT !.list = l]
                 r == SdkKeys!renderKeys(u)
      <3>1. SdkKeys!LoadedKeys(t, m) = r
        BY <2>2, <2>7 DEF SdkKeys!LoadedKeys, SdkKeys!scopeStale
      <3> HIDE DEF l
      <3>2. KeyHas(u) /\ u.net = t.net /\ u.missed = t.missed /\ u.scopeGen = t.scopeGen /\ u.server = t.server
            /\ u.env = t.env /\ u.globalRate = t.globalRate /\ u.list = l
        BY <1>1 DEF KeyHas, KeyFields
      <3> HIDE DEF u
      <3>3. KeyHas(r) /\ r.net = t.net /\ r.missed = t.missed /\ r.scopeGen = t.scopeGen /\ r.server = t.server
            /\ r.env = t.env /\ r.globalRate = t.globalRate
            /\ r.rows = {[id |-> k.id, revoked |-> k.revoked, rate |-> SdkKeys!effectiveRps(k.rate, t.globalRate)] : k \in l}
        BY <3>2 DEF KeyHas, KeyFields, SdkKeys!renderKeys
      <3> HIDE DEF r
      <3>4. r.rows = KeyRows(r, m.data)
        BY <3>3 DEF KeyRows, l
      <3>5. /\ \A n : KeyAsk(r, n) <=> KeyAsk(t, n)
            /\ \A n : KeyStale(r, n) <=> KeyStale(t, n)
        BY <3>3 DEF KeyAsk, KeyStale
      <3>6. ASSUME ~s.missed PROVE KeyListing(s)
        BY <1>1, <1>4, <2>7, <3>6 DEF KeyInv, KeyBusy, KeyRest, KeyStale
      <3>7. ASSUME ~s.missed PROVE m.data = s.server
        BY <1>1, <2>2, <2>7, <3>6, <3>7 DEF KeyListing
      <3>8. ASSUME ~s.missed PROVE KeyListing(r) \/ KeyRest(r)
        <4>1. CASE \E n \in r.net : n.gen = r.scopeGen
          BY <1>1, <3>3, <3>6, <3>8, <4>1 DEF KeyListing
        <4>2. CASE \A n \in r.net : n.gen # r.scopeGen
          BY <1>1, <3>3, <3>4, <3>6, <3>7, <3>8, <4>2 DEF KeyListing, KeyRest, KeyStale
        <4> QED
          BY <4>1, <4>2
      <3>9. KeyInv(r)
        BY <1>1, <2>3, <3>3, <3>5, <3>8 DEF KeyInv
      <3> QED
        BY <2>1, <3>1, <3>9 DEF t
    <2> QED
      BY <2>6, <2>7
  <1> QED
    BY <1>3, <1>4

LEMMA KeyServed ==
  ASSUME KeyInv(st), SdkKeys!Serve
  PROVE  KeyInv(st')
  <1>1. PICK m \in st.net :
        st' = [st EXCEPT !.server = SdkKeys!Served(m, st.server).all,
                         !.net = (@ \ {m}) \union {[m EXCEPT !.out = "ok", !.data = SdkKeys!Served(m, st.server).data]}]
    BY DEF SdkKeys!Serve
  <1> DEFINE all == SdkKeys!Served(m, st.server).all
             data == SdkKeys!Served(m, st.server).data
             n == [m EXCEPT !.out = "ok", !.data = data]
  <1>2. m.what = "list" => all = st.server /\ data = st.server
    BY DEF SdkKeys!Served
  <1> HIDE DEF all, data
  <1>3. KeyAsk(st, m)
    BY DEF KeyInv
  <1>4. {"what", "arg", "gen", "out", "data"} \subseteq DOMAIN n /\ n.what = m.what /\ n.gen = m.gen /\ n.out = "ok" /\ n.data = data
    BY <1>3 DEF KeyAsk
  <1>5. KeyHas(st') /\ st'.net = (st.net \ {m}) \union {n} /\ st'.missed = st.missed /\ st'.scopeGen = st.scopeGen
        /\ st'.server = all /\ st'.env = st.env /\ st'.rows = st.rows /\ st'.globalRate = st.globalRate
    BY <1>1 DEF KeyInv, KeyHas, KeyFields, all, data
  <1> HIDE DEF n
  <1>6. \A x : (KeyAsk(st', x) <=> KeyAsk(st, x)) /\ (KeyStale(st', x) <=> KeyStale(st, x))
    BY <1>5 DEF KeyAsk, KeyStale
  <1>7. KeyAsk(st, n) /\ (KeyStale(st, n) <=> KeyStale(st, m))
    BY <1>3, <1>4 DEF KeyAsk, KeyStale
  <1>8. \A x \in st'.net : KeyAsk(st', x)
    BY <1>5, <1>6, <1>7 DEF KeyInv
  <1>9. KeyBusy(st) => KeyBusy(st')
    <2>1. SUFFICES ASSUME KeyBusy(st) PROVE KeyBusy(st')
      OBVIOUS
    <2>2. PICK b \in st.net : b.what # "list" /\ \A x \in st.net : x # b => KeyStale(st, x)
      BY <2>1 DEF KeyBusy
    <2>3. CASE b = m
      BY <1>4, <1>5, <1>6, <2>2, <2>3 DEF KeyBusy
    <2>4. CASE b # m
      BY <1>4, <1>5, <1>6, <1>7, <2>2, <2>4 DEF KeyBusy
    <2> QED
      BY <2>3, <2>4
  <1>10. KeyListing(st) => KeyListing(st')
    BY <1>2, <1>4, <1>5 DEF KeyListing
  <1>11. KeyRest(st) => KeyRest(st')
    <2>1. SUFFICES ASSUME KeyRest(st) PROVE KeyRest(st')
      OBVIOUS
    <2>2. all = st.server
      BY <1>2, <2>1 DEF KeyRest, KeyStale
    <2>3. KeyRows(st', st'.server) = KeyRows(st, st.server)
      BY <1>5, <2>2 DEF KeyRows
    <2> QED
      BY <1>5, <1>6, <1>7, <2>1, <2>3 DEF KeyRest
  <1> QED
    BY <1>5, <1>8, <1>9, <1>10, <1>11 DEF KeyInv

LEMMA KeyStep == ASSUME KeyInv(st), SdkKeys!Next PROVE KeyInv(st')
  <1>0. KeyHas(st) /\ st.scopeGen \in Nat
    BY DEF KeyInv
  <1>1. CASE SdkKeys!SwitchEnv
    <2>1. PICK env : st' = SdkKeys!Move(SdkKeys!loadKeys([st EXCEPT !.env = env, !.scopeGen = @ + 1]))
                     /\ \A m \in st.net : m.what = "list"
      BY <1>1 DEF SdkKeys!SwitchEnv
    <2> DEFINE s == [st EXCEPT !.env = env, !.scopeGen = @ + 1]
    <2>2. KeyHas(s) /\ s.net = st.net /\ s.scopeGen = st.scopeGen + 1
      BY <1>0 DEF KeyHas, KeyFields
    <2> HIDE DEF s
    <2>3. \A m \in s.net : KeyAsk(s, m) /\ KeyStale(s, m)
      <3> SUFFICES ASSUME NEW m \in st.net PROVE KeyAsk(s, m) /\ KeyStale(s, m)
        BY <2>2
      <3>1. KeyAsk(st, m) /\ m.what = "list"
        BY <2>1 DEF KeyInv
      <3>2. m.gen \in Nat /\ m.gen <= st.scopeGen
        BY <3>1 DEF KeyAsk
      <3>3. m.gen <= s.scopeGen /\ m.gen # s.scopeGen
        BY <1>0, <2>2, <3>2
      <3> QED
        BY <3>1, <3>2, <3>3 DEF KeyAsk, KeyStale
    <2>4. KeyInv(SdkKeys!loadKeys(s))
      BY <1>0, <2>2, <2>3, KeyLoads
    <2> QED
      BY <2>1, <2>4, KeyMoved DEF s
  <1>2. CASE SdkKeys!Create
    <2>1. PICK field : st' = SdkKeys!Move(SdkKeys!createKey(st, field)) /\ SdkKeys!Settled(st)
      BY <1>2 DEF SdkKeys!Create
    <2>2. KeyInv(SdkKeys!createKey(st, field))
      BY <2>1, KeySends DEF SdkKeys!createKey
    <2> QED
      BY <2>1, <2>2, KeyMoved
  <1>3. CASE SdkKeys!Revoke
    BY <1>3, KeySends, KeyMoved DEF SdkKeys!Revoke, SdkKeys!revokeKey
  <1>4. CASE SdkKeys!EditLimits
    <2>1. PICK id : st' = SdkKeys!Move(SdkKeys!openKeyLimitsDialog(st, id))
      BY <1>4 DEF SdkKeys!EditLimits, SdkKeys!editKeyLimits
    <2>2. \A d : KeyHas([st EXCEPT !.dialog = d]) /\ KeyAlike([st EXCEPT !.dialog = d], st)
      BY <1>0 DEF KeyHas, KeyFields, KeyAlike
    <2>3. KeyInv(SdkKeys!openKeyLimitsDialog(st, id))
      BY <2>2, KeySame DEF SdkKeys!openKeyLimitsDialog
    <2> QED
      BY <2>1, <2>3, KeyMoved
  <1>5. CASE SdkKeys!TypeLimit
    <2>1. PICK field : st' = SdkKeys!Move([st EXCEPT !.dialog.rate = field, !.dialog.dirty = TRUE])
      BY <1>5 DEF SdkKeys!TypeLimit
    <2> DEFINE s == [st EXCEPT !.dialog.rate = field, !.dialog.dirty = TRUE]
    <2>2. KeyHas(s) /\ KeyAlike(s, st)
      BY <1>0 DEF KeyHas, KeyFields, KeyAlike
    <2> HIDE DEF s
    <2> QED
      BY <2>1, <2>2, KeySame, KeyMoved DEF s
  <1>6. CASE SdkKeys!SaveLimits
    <2>1. KeyInv(SdkKeys!saveKeyLimits(st))
      BY <1>6, KeySends DEF SdkKeys!SaveLimits, SdkKeys!saveKeyLimits
    <2> QED
      BY <1>6, <2>1, KeyMoved DEF SdkKeys!SaveLimits
  <1>7. CASE SdkKeys!Cancel
    <2>1. KeyHas(SdkKeys!closeKeyLimitsDialog(st)) /\ KeyAlike(SdkKeys!closeKeyLimitsDialog(st), st)
      BY <1>0 DEF KeyHas, KeyFields, KeyAlike, SdkKeys!closeKeyLimitsDialog
    <2> QED
      BY <1>7, <2>1, KeySame DEF SdkKeys!Cancel
  <1>8. CASE SdkKeys!Serve
    BY <1>8, KeyServed
  <1>9. CASE SdkKeys!Answer
    BY <1>9, KeyAnswered DEF SdkKeys!Answer
  <1>10. CASE SdkKeys!Lost
    <2>1. PICK m \in st.net : st' = SdkKeys!Move([st EXCEPT !.net = @ \ {m}, !.missed = TRUE])
      BY <1>10 DEF SdkKeys!Lost
    <2> DEFINE s == [st EXCEPT !.net = @ \ {m}, !.missed = TRUE]
    <2>2. KeyHas(s) /\ s.net = st.net \ {m} /\ s.scopeGen = st.scopeGen /\ s.missed
      BY <1>0 DEF KeyHas, KeyFields
    <2> HIDE DEF s
    <2>3. KeyInv(s)
      BY <2>2 DEF KeyInv, KeyAsk
    <2> QED
      BY <2>1, <2>3, KeyMoved DEF s
  <1> QED
    BY <1>1, <1>2, <1>3, <1>4, <1>5, <1>6, <1>7, <1>8, <1>9, <1>10 DEF SdkKeys!Next

LEMMA KeyShows == ASSUME KeyInv(st) PROVE SdkKeys!KeysShown
  BY DEF KeyInv, KeyBusy, KeyListing, KeyRest, KeyRows, SdkKeys!KeysShown

-----------------------------------------------------------------------------
(* The server log. *)

LogFields == {"server", "filters", "asked", "field", "page", "pills", "rows", "prev", "next", "names",
              "on", "days", "known", "open", "dirty", "changed", "missed", "net", "moves"}

LogSettings == [on : SUBSET Switches, days : 1 .. 1825]

LogUnserved == ""

LogOfSettings(m) == m.what \in {"settings", "put"}
LogOfList(m) == m.what \in {"logs", "names"}

LogMsg(m) ==
    /\ {"what", "arg", "out", "data"} \subseteq DOMAIN m
    /\ m.what \in {"logs", "names", "settings", "put"} /\ m.out \in {LogUnserved, "ok"}
    /\ m.what = "put" => m.arg \in LogSettings
    /\ LogOfSettings(m) /\ m.out = "ok" => m.data \in LogSettings

LogNow(s) == [on |-> s.server.on, days |-> s.server.days]

LogBase(s) ==
    /\ LogFields \subseteq DOMAIN s /\ {"log", "on", "days"} \subseteq DOMAIN s.server
    /\ LogNow(s) \in LogSettings /\ s.on \in SUBSET Switches /\ (s.known = None \/ s.known \in LogSettings)
    /\ \A m \in s.net : LogMsg(m)
LogView(m) == m.what = "settings" /\ m.arg # "logs"
(* The list is asked for once this is answered. *)
LogThen(m) == m.what = "put" \/ (m.what = "settings" /\ m.arg = "logs")

(* The settings, as they come and as they are shown. *)
LogStored(s) ==
    /\ \A m \in s.net : LogOfSettings(m) /\ m.out = "ok" => m.data = LogNow(s)
    /\ (\A m \in s.net : ~LogOfSettings(m)) => s.known = LogNow(s)
    /\ s.open /\ ~s.dirty => s.on = s.server.on /\ s.days = s.server.days
    /\ (\E m \in s.net : m.what = "put") => ~s.open \/ s.dirty

LogQuery(s) == [filters |-> s.asked, page |-> s.page]

(* A page under these filters, of the log as it is unless that changed. *)
LogPage(s, data) ==
    /\ data.page = s.page
    /\ \A r \in data.items : ServerLog!Passes(r.row, s.asked)
    /\ ~s.changed => /\ data.items = ServerLog!PageOf(s.server.log, LogQuery(s)).items
                     /\ data.total = ServerLog!PageOf(s.server.log, LogQuery(s)).total

LogList(s) ==
    /\ s.pills = s.asked
    /\ \A r \in s.rows : ServerLog!Passes(r.row, s.pills)
    /\ ~s.changed =>
         LET data == ServerLog!PageOf(s.server.log, LogQuery(s))
         IN s.rows = data.items /\ s.next = (s.page < ServerLog!totalPagesOf(data)) /\ s.prev = (s.page > 1)

(* The list is under way; the settings are, and the list follows; neither. *)
LogListing(s) ==
    /\ s.filters = s.asked
    /\ \E m \in s.net : /\ LogOfList(m) /\ m.arg = LogQuery(s)
                        /\ m.what = "logs" /\ m.out = "ok" => LogPage(s, m.data)
                        /\ \A n \in s.net : n # m => LogView(n)
LogSetting(s) ==
    /\ s.asked = [s.filters EXCEPT !["level"] = s.field]
    /\ \E m \in s.net : LogThen(m) /\ s.net = {m}
LogIdle(s) == s.filters = s.asked /\ (\A m \in s.net : LogView(m)) /\ LogList(s)

LogInv(s) ==
    /\ LogBase(s)
    /\ ~s.missed => LogStored(s) /\ (LogListing(s) \/ LogSetting(s) \/ LogIdle(s))

(* What speaks of the settings and of the log is as it was. *)
LogKeeps(t, s) ==
    /\ t.server = s.server /\ t.changed = s.changed /\ t.missed = s.missed
    /\ t.on = s.on /\ t.days = s.days /\ t.known = s.known /\ t.open = s.open /\ t.dirty = s.dirty
(* And what speaks of the list. *)
LogKeepsList(t, s) ==
    /\ t.filters = s.filters /\ t.asked = s.asked /\ t.page = s.page /\ t.pills = s.pills
    /\ t.rows = s.rows /\ t.prev = s.prev /\ t.next = s.next

LEMMA LogUnservedIs == LogUnserved # "ok"
  BY DEF LogUnserved

LEMMA LogBased ==
  ASSUME NEW s, LogBase(s), NEW t, LogFields \subseteq DOMAIN t, LogKeeps(t, s), \A m \in t.net : LogMsg(m)
  PROVE  LogBase(t)
  <1>1. t.server = s.server /\ t.on = s.on /\ t.known = s.known
    BY DEF LogKeeps
  <1>2. LogNow(t) = LogNow(s)
    BY <1>1 DEF LogNow
  <1> QED
    BY <1>1, <1>2 DEF LogBase

LEMMA LogSend ==
  ASSUME NEW s, LogBase(s), NEW what, NEW arg, what \in {"logs", "names", "settings"},
         NEW t, t = ServerLog!Send(s, what, arg)
  PROVE  /\ LogBase(t) /\ LogKeeps(t, s) /\ LogKeepsList(t, s) /\ t.field = s.field
         /\ \E m : /\ t.net = s.net \union {m} /\ LogMsg(m)
                   /\ m.what = what /\ m.arg = arg /\ m.out = LogUnserved
  <1> DEFINE m == [what |-> what, arg |-> arg, out |-> "", data |-> None]
  <1>1. {"what", "arg", "out", "data"} \subseteq DOMAIN m /\ m.what = what /\ m.arg = arg /\ m.out = LogUnserved
    BY DEF LogUnserved
  <1>2. LogFields \subseteq DOMAIN t /\ t.net = s.net \union {m}
        /\ LogKeeps(t, s) /\ LogKeepsList(t, s) /\ t.field = s.field
    BY DEF LogBase, LogFields, LogKeeps, LogKeepsList, ServerLog!Send
  <1> HIDE DEF m
  <1>3. LogMsg(m)
    BY <1>1, LogUnservedIs DEF LogMsg
  <1>4. LogBase(t)
    <2>1. \A n \in t.net : LogMsg(n)
      BY <1>2, <1>3 DEF LogBase
    <2> QED
      BY <1>2, <2>1, LogBased
  <1> QED
    BY <1>1, <1>2, <1>3, <1>4

(* The list is asked for, under the filters with the field. *)
LEMMA LogLoads ==
  ASSUME NEW s, LogBase(s), NEW page, NEW t, t = ServerLog!loadLogs(s, page)
  PROVE  /\ LogBase(t) /\ LogKeeps(t, s) /\ t.asked = s.asked /\ t.field = s.field
         /\ t.filters = [s.filters EXCEPT !["level"] = s.field]
         /\ \E m : /\ t.net = s.net \union {m} /\ LogMsg(m) /\ LogOfList(m) /\ m.out = LogUnserved
                   /\ m.arg = [filters |-> t.filters, page |-> t.page]
  <1> DEFINE ff == [s.filters EXCEPT !["level"] = s.field]
             pp == IF page < 1 THEN 1 ELSE page
             f == [filters |-> ff, page |-> pp]
             u == [s EXCEPT !.filters = ff, !.page = pp]
  <1>1. f = ServerLog!readFilters(s, page) /\ f.filters = ff /\ f.page = pp
    BY DEF ServerLog!readFilters
  <1> HIDE DEF ff, pp
  <1>2. /\ LogFields \subseteq DOMAIN u /\ LogKeeps(u, s) /\ u.asked = s.asked /\ u.field = s.field
        /\ u.net = s.net /\ u.filters = ff /\ u.page = pp
    BY DEF LogBase, LogFields, LogKeeps
  <1> HIDE DEF u
  <1>3. LogBase(u)
    <2>1. \A n \in u.net : LogMsg(n)
      BY <1>2 DEF LogBase
    <2> QED
      BY <1>2, <2>1, LogBased
  <1>4. t = ServerLog!ensureLogScope(u, f)
    BY <1>1 DEF ServerLog!loadLogs, u
  <1> HIDE DEF f
  <1>5. PICK what : what \in {"logs", "names"} /\ t = ServerLog!Send(u, what, f)
    BY <1>4 DEF ServerLog!ensureLogScope
  <1>6. LogBase(t) /\ LogKeeps(t, u) /\ LogKeepsList(t, u) /\ t.field = u.field
        /\ \E m : t.net = u.net \union {m} /\ LogMsg(m) /\ m.what = what /\ m.arg = f /\ m.out = LogUnserved
    BY <1>3, <1>5, LogSend
  <1>7. f = [filters |-> t.filters, page |-> t.page]
    BY <1>2, <1>6 DEF f, LogKeepsList
  <1> QED
    BY <1>2, <1>5, <1>6, <1>7 DEF LogKeeps, LogKeepsList, LogOfList, ff

LEMMA LogLoadsForm ==
  ASSUME NEW s, LogBase(s), NEW page
  PROVE  ServerLog!loadLogs(s, page).asked = s.asked /\ ServerLog!loadLogs(s, page).field = s.field
  <1> DEFINE f == ServerLog!readFilters(s, page)
             u == [s EXCEPT !.filters = f.filters, !.page = f.page]
  <1>1. {"asked", "field"} \subseteq DOMAIN u /\ u.asked = s.asked /\ u.field = s.field
    BY DEF LogBase, LogFields
  <1>2. ServerLog!loadLogs(s, page) = ServerLog!ensureLogScope(u, f)
    BY DEF ServerLog!loadLogs
  <1> HIDE DEF u, f
  <1>3. \A what : LET t == ServerLog!Send(u, what, f) IN t.asked = u.asked /\ t.field = u.field
    BY <1>1 DEF ServerLog!Send
  <1> QED
    BY <1>1, <1>2, <1>3 DEF ServerLog!ensureLogScope

(* Nothing the invariant speaks of is touched. *)
LEMMA LogSame ==
  ASSUME NEW s, LogInv(s), NEW t, LogFields \subseteq DOMAIN t, t.net = s.net, LogKeeps(t, s), LogKeepsList(t, s),
         (\A m \in s.net : ~LogThen(m)) \/ t.field = s.field
  PROVE  LogInv(t)
  <1>1. LogBase(t)
    <2>1. LogBase(s) /\ \A n \in t.net : LogMsg(n)
      BY DEF LogInv, LogBase
    <2> QED
      BY <2>1, LogBased
  <1>2. LogStored(s) => LogStored(t)
    BY DEF LogStored, LogNow, LogKeeps
  <1>3. LogQuery(t) = LogQuery(s) /\ \A d : LogPage(t, d) <=> LogPage(s, d)
    BY DEF LogPage, LogQuery, LogKeeps, LogKeepsList
  <1>4. LogListing(s) => LogListing(t)
    BY <1>3 DEF LogListing, LogKeepsList
  <1>5. LogSetting(s) => LogSetting(t)
    BY DEF LogSetting, LogKeepsList
  <1>6. LogIdle(s) => LogIdle(t)
    BY <1>3 DEF LogIdle, LogList, LogKeeps, LogKeepsList
  <1> QED
    BY <1>1, <1>2, <1>4, <1>5, <1>6 DEF LogInv, LogKeeps

LEMMA LogMoved == ASSUME NEW s, LogInv(s) PROVE LogInv(ServerLog!Move(s))
  <1>1. LET t == ServerLog!Move(s)
        IN LogFields \subseteq DOMAIN t /\ t.net = s.net /\ LogKeeps(t, s) /\ LogKeepsList(t, s) /\ t.field = s.field
    BY DEF LogInv, LogBase, LogFields, LogKeeps, LogKeepsList, ServerLog!Move
  <1> QED
    BY <1>1, LogSame

(* The list is asked for while at most the settings of the view are under  *)
(* way.                                                                    *)
LEMMA LogAsks ==
  ASSUME NEW s, ~s.missed => LogStored(s) /\ \A n \in s.net : LogView(n),
         NEW t, LogBase(t), LogKeeps(t, s), t.asked = t.filters,
         NEW m, t.net = s.net \union {m}, LogOfList(m), m.out = LogUnserved, m.arg = [filters |-> t.filters, page |-> t.page]
  PROVE  LogInv(t)
  <1>1. ~LogOfSettings(m) /\ m.what # "put"
    BY DEF LogOfSettings, LogOfList
  <1>2. LogNow(t) = LogNow(s)
    BY DEF LogNow, LogKeeps
  <1>3. LogStored(s) => LogStored(t)
    BY <1>1, <1>2 DEF LogStored, LogKeeps
  <1>4. ~t.missed => LogListing(t)
    <2> SUFFICES ASSUME ~t.missed PROVE LogListing(t)
      OBVIOUS
    <2>1. \A n \in s.net : LogView(n)
      BY DEF LogKeeps
    <2>2. m.arg = LogQuery(t)
      BY DEF LogQuery
    <2>3. ~(m.out = "ok")
      BY LogUnservedIs
    <2> QED
      BY <2>1, <2>2, <2>3 DEF LogListing
  <1> QED
    BY <1>3, <1>4 DEF LogInv, LogKeeps

(* A click that asks for the list, with what the admin asked for by it. *)
LEMMA LogClick ==
  ASSUME LogInv(st), st.net = {},
         NEW s, LogBase(s), s.net = {}, LogKeeps(s, st), NEW page, NEW asked,
         ~st.missed => asked = [s.filters EXCEPT !["level"] = s.field]
  PROVE  LogInv(ServerLog!Move(ServerLog!Asked(ServerLog!loadLogs(s, page), asked)))
  <1> DEFINE t == ServerLog!loadLogs(s, page)
             u == ServerLog!Asked(t, asked)
  <1>1. /\ LogBase(t) /\ LogKeeps(t, s)
        /\ t.filters = [s.filters EXCEPT !["level"] = s.field]
        /\ \E m : /\ t.net = s.net \union {m} /\ LogMsg(m) /\ LogOfList(m) /\ m.out = LogUnserved
                  /\ m.arg = [filters |-> t.filters, page |-> t.page]
    BY LogLoads
  <1> HIDE DEF t
  <1>2. /\ LogFields \subseteq DOMAIN u /\ LogKeeps(u, t) /\ u.filters = t.filters /\ u.page = t.page /\ u.net = t.net
        /\ u.asked = asked
    BY <1>1 DEF LogBase, LogFields, LogKeeps, ServerLog!Asked
  <1> HIDE DEF u
  <1>3. LogBase(u)
    <2>1. \A n \in u.net : LogMsg(n)
      BY <1>1, <1>2 DEF LogBase
    <2> QED
      BY <1>1, <1>2, <2>1, LogBased
  <1>4. LogKeeps(u, st)
    BY <1>1, <1>2 DEF LogKeeps
  <1>5. PICK m : u.net = st.net \union {m} /\ LogOfList(m) /\ m.out = LogUnserved /\ m.arg = [filters |-> u.filters, page |-> u.page]
    BY <1>1, <1>2
  <1>6. LogInv(u)
    <2>1. CASE st.missed
      BY <1>3, <1>4, <2>1 DEF LogInv, LogKeeps
    <2>2. CASE ~st.missed
      <3>1. u.asked = u.filters
        BY <1>1, <1>2, <2>2
      <3>2. LogStored(st) /\ \A n \in st.net : LogView(n)
        BY <2>2 DEF LogInv
      <3> QED
        BY <1>3, <1>4, <1>5, <3>1, <3>2, LogAsks
    <2> QED
      BY <2>1, <2>2
  <1> QED
    BY <1>6, LogMoved DEF u, t

LEMMA LogInit == ServerLog!Init => LogInv(st)
  <1> SUFFICES ASSUME ServerLog!Init PROVE LogInv(st)
    OBVIOUS
  <1> DEFINE s(log) == [server |-> [log |-> log, on |-> Switches, days |-> 30],
                   filters |-> ServerLog!NoFilter, asked |-> ServerLog!NoFilter, field |-> "", page |-> 1,
                   pills |-> ServerLog!NoFilter, rows |-> {}, prev |-> FALSE, next |-> FALSE, names |-> FALSE,
                   on |-> {}, days |-> ServerLog!Empty, known |-> None, open |-> FALSE, dirty |-> FALSE,
                   changed |-> FALSE, missed |-> FALSE, net |-> {}, moves |-> 0]
  <1>1. PICK log : st = ServerLog!showLogs(s(log))
    BY DEF ServerLog!Init
  <1> DEFINE r == s(log)
             t == ServerLog!loadLogSettings(r, "view")
             u == ServerLog!loadLogs(t, 1)
  <1>2. LogBase(r) /\ r.net = {} /\ r.filters = ServerLog!NoFilter /\ r.asked = ServerLog!NoFilter /\ ~r.open
    <2>1. LogFields \subseteq DOMAIN r /\ {"log", "on", "days"} \subseteq DOMAIN r.server /\ r.net = {}
          /\ LogNow(r) = [on |-> Switches, days |-> 30] /\ r.on = {} /\ r.known = None
      BY DEF LogFields, LogNow
    <2>2. [on |-> Switches, days |-> 30] \in LogSettings
      BY DEF LogSettings
    <2>3. LogBase(r)
      BY <2>1, <2>2 DEF LogBase
    <2>4. r.filters = ServerLog!NoFilter /\ r.asked = ServerLog!NoFilter /\ ~r.open
      OBVIOUS
    <2> QED
      BY <2>1, <2>3, <2>4
  <1>f. r.field = ""
    OBVIOUS
  <1> HIDE DEF s, r
  <1>t. t = ServerLog!Send(r, "settings", "view")
    BY DEF ServerLog!loadLogSettings
  <1> HIDE DEF t
  <1>3. LogBase(t) /\ LogKeeps(t, r) /\ LogKeepsList(t, r) /\ t.field = r.field
        /\ \E m : t.net = r.net \union {m} /\ LogMsg(m) /\ m.what = "settings" /\ m.arg = "view" /\ m.out = LogUnserved
    <2>1. "settings" \in {"logs", "names", "settings"}
      OBVIOUS
    <2> QED
      BY <1>2, <1>t, <2>1, LogSend
  <1>4. LogStored(t) /\ \A n \in t.net : LogView(n)
    <2>1. PICK m : t.net = {m} /\ m.what = "settings" /\ m.arg = "view" /\ m.out = LogUnserved
      BY <1>2, <1>3
    <2>2. ~(m.out = "ok") /\ LogOfSettings(m) /\ LogView(m) /\ m.what # "put"
      BY <2>1, LogUnservedIs DEF LogOfSettings, LogView
    <2>3. ~t.open
      BY <1>2, <1>3 DEF LogKeeps
    <2> QED
      BY <2>1, <2>2, <2>3 DEF LogStored
  <1>5. /\ LogBase(u) /\ LogKeeps(u, t) /\ u.asked = t.asked
        /\ u.filters = [t.filters EXCEPT !["level"] = t.field]
        /\ \E m : /\ u.net = t.net \union {m} /\ LogMsg(m) /\ LogOfList(m) /\ m.out = LogUnserved
                  /\ m.arg = [filters |-> u.filters, page |-> u.page]
    BY <1>3, LogLoads
  <1> HIDE DEF u
  <1>6. u.filters = u.asked
    <2>1. u.filters = [ServerLog!NoFilter EXCEPT !["level"] = ""]
      BY <1>2, <1>f, <1>3, <1>5 DEF LogKeepsList
    <2>2. u.asked = ServerLog!NoFilter
      BY <1>2, <1>3, <1>5 DEF LogKeepsList
    <2> QED
      BY <2>1, <2>2 DEF ServerLog!NoFilter
  <1>7. LogInv(u)
    BY <1>4, <1>5, <1>6, LogAsks
  <1> QED
    BY <1>1, <1>7 DEF u, t, r, ServerLog!showLogs

LEMMA LogSelf == \A s : LogKeeps(s, s) /\ LogKeepsList(s, s)
  BY DEF LogKeeps, LogKeepsList

(* At rest the filters are those the admin asked for. *)
LEMMA LogRests ==
  ASSUME LogInv(st), st.net = {}, ~st.missed
  PROVE  st.asked = st.filters /\ LogIdle(st) /\ st.known = LogNow(st)
  BY DEF LogInv, LogListing, LogSetting, LogIdle, LogStored

LEMMA LogReady ==
  ASSUME LogInv(st), ServerLog!Ready(st)
  PROVE  st.net = {} /\ LogBase(st)
  BY DEF ServerLog!Ready, LogInv

(* A click that asks for the list under the filters of the form. *)
LEMMA LogForm ==
  ASSUME LogInv(st), st.net = {}, NEW page
  PROVE  LogInv(ServerLog!Move(ServerLog!WithField(ServerLog!loadLogs(st, page))))
  <1> DEFINE t == ServerLog!loadLogs(st, page)
             asked == [t.asked EXCEPT !["level"] = t.field]
  <1>0. LogBase(st)
    BY DEF LogInv
  <1>1. t.asked = st.asked /\ t.field = st.field
    BY <1>0, LogLoadsForm
  <1>2. ~st.missed => asked = [st.filters EXCEPT !["level"] = st.field]
    BY <1>1, LogRests
  <1> HIDE DEF asked
  <1>3. LogInv(ServerLog!Move(ServerLog!Asked(t, asked)))
    BY <1>0, <1>2, LogSelf, LogClick
  <1> QED
    BY <1>3 DEF ServerLog!WithField, asked

(* A click that changes the filters, and sets the field after them. *)
LEMMA LogFilter ==
  ASSUME LogInv(st), st.net = {},
         NEW u, LogFields \subseteq DOMAIN u, LogKeeps(u, st), u.net = {}, NEW dom, NEW f, u.filters = [k \in dom |-> f[k]],
         NEW page, NEW asked, ~st.missed => asked = u.filters
  PROVE  LogInv(ServerLog!Move(ServerLog!Asked(ServerLog!loadLogs(ServerLog!syncLogFilterInputs(u), page), asked)))
  <1> DEFINE s == ServerLog!syncLogFilterInputs(u)
  <1>1. LogFields \subseteq DOMAIN s /\ LogKeeps(s, u) /\ s.net = {} /\ s.filters = u.filters /\ s.field = u.filters["level"]
    BY DEF LogFields, LogKeeps, ServerLog!syncLogFilterInputs
  <1> HIDE DEF s
  <1>2. LogKeeps(s, st)
    BY <1>1 DEF LogKeeps
  <1>3. LogBase(s)
    BY <1>1, <1>2, LogBased DEF LogInv
  <1>4. [s.filters EXCEPT !["level"] = s.field] = u.filters
    BY <1>1
  <1>5. LogInv(ServerLog!Move(ServerLog!Asked(ServerLog!loadLogs(s, page), asked)))
    BY <1>1, <1>2, <1>3, <1>4, LogClick
  <1> QED
    BY <1>5 DEF s

LEMMA LogChips ==
  ASSUME LogInv(st), ServerLog!ClickChip
  PROVE  LogInv(st')
  <1>1. PICK k, val :
          st' = ServerLog!Move(ServerLog!Asked(ServerLog!toggleLogFilter(st, k, val),
                                               [st.asked EXCEPT ![k] = IF @ = val THEN "" ELSE val]))
    BY DEF ServerLog!ClickChip
  <1>2. st.net = {} /\ LogBase(st)
    BY LogReady DEF ServerLog!ClickChip, ServerLog!Listing
  <1> DEFINE u == [st EXCEPT !.filters[k] = IF @ = val THEN "" ELSE val]
             asked == [st.asked EXCEPT ![k] = IF @ = val THEN "" ELSE val]
             f == [st.filters EXCEPT ![k] = IF @ = val THEN "" ELSE val]
  <1>3. LogFields \subseteq DOMAIN u /\ LogKeeps(u, st) /\ u.net = st.net /\ u.filters = f
    BY <1>2 DEF LogBase, LogFields, LogKeeps
  <1>4. ~st.missed => asked = f
    BY <1>2, LogRests
  <1>5. f = [x \in DOMAIN f |-> f[x]]
    OBVIOUS
  <1> HIDE DEF u, asked, f
  <1>6. LogInv(ServerLog!Move(ServerLog!Asked(ServerLog!loadLogs(ServerLog!syncLogFilterInputs(u), 1), asked)))
    BY <1>2, <1>3, <1>4, <1>5, LogFilter
  <1> QED
    BY <1>1, <1>6 DEF u, asked, ServerLog!toggleLogFilter, ServerLog!reloadLogsFirstPage

LEMMA LogPills ==
  ASSUME LogInv(st), ServerLog!ClickPill
  PROVE  LogInv(st')
  <1>1. st.net = {} /\ LogBase(st)
    BY LogReady DEF ServerLog!ClickPill, ServerLog!Listing
  <1>2. ASSUME NEW k PROVE LogInv(ServerLog!Move(ServerLog!Asked(ServerLog!clearLogFilter(st, k), [st.asked EXCEPT ![k] = ""])))
    <2> DEFINE u == [st EXCEPT !.filters[k] = ""]
               asked == [st.asked EXCEPT ![k] = ""]
               f == [st.filters EXCEPT ![k] = ""]
    <2>3. LogFields \subseteq DOMAIN u /\ LogKeeps(u, st) /\ u.net = st.net /\ u.filters = f
      BY <1>1 DEF LogBase, LogFields, LogKeeps
    <2>4. ~st.missed => asked = f
      BY <1>1, LogRests
    <2>5. f = [x \in DOMAIN f |-> f[x]]
      OBVIOUS
    <2> HIDE DEF u, asked, f
    <2>6. LogInv(ServerLog!Move(ServerLog!Asked(ServerLog!loadLogs(ServerLog!syncLogFilterInputs(u), 1), asked)))
      BY <1>1, <2>3, <2>4, <2>5, LogFilter
    <2> QED
      BY <2>6 DEF u, asked, ServerLog!clearLogFilter, ServerLog!reloadLogsFirstPage
  <1>3. LogInv(ServerLog!Move(ServerLog!Asked(ServerLog!clearAllLogFilters(st), ServerLog!NoFilter)))
    <2> DEFINE u == [st EXCEPT !.filters = ServerLog!NoFilter, !.page = 1]
    <2>3. LogFields \subseteq DOMAIN u /\ LogKeeps(u, st) /\ u.net = st.net /\ u.filters = ServerLog!NoFilter
      BY <1>1 DEF LogBase, LogFields, LogKeeps
    <2>5. ServerLog!NoFilter = [x \in Kinds |-> ServerLog!NoFilter[x]]
      BY DEF ServerLog!NoFilter
    <2> HIDE DEF u
    <2>6. LogInv(ServerLog!Move(ServerLog!Asked(ServerLog!loadLogs(ServerLog!syncLogFilterInputs(u), 1), ServerLog!NoFilter)))
      BY <1>1, <2>3, <2>5, LogFilter
    <2> QED
      BY <2>6 DEF u, ServerLog!clearAllLogFilters, ServerLog!reloadLogsFirstPage
  <1> QED
    BY <1>2, <1>3 DEF ServerLog!ClickPill

(* The dialog is opened on the settings the page knows. *)
LEMMA LogOpens ==
  ASSUME LogInv(st), ServerLog!OpenDialog
  PROVE  LogInv(st')
  <1>1. st.net = {} /\ LogBase(st)
    BY LogReady DEF ServerLog!OpenDialog, ServerLog!Listing
  <1> DEFINE d == st.known
             s == ServerLog!setSettingsInputs(st, d)
             t == [s EXCEPT !.open = TRUE, !.dirty = FALSE]
  <1>2. /\ LogFields \subseteq DOMAIN s /\ s.server = st.server /\ s.changed = st.changed /\ s.missed = st.missed
        /\ s.known = st.known /\ LogKeepsList(s, st) /\ s.net = {}
        /\ d = None => s.on = st.on
        /\ d # None => s.on = d.on /\ s.days = d.days
    BY <1>1 DEF LogBase, LogFields, LogKeepsList, ServerLog!setSettingsInputs
  <1> HIDE DEF s
  <1>3. /\ LogFields \subseteq DOMAIN t /\ t.server = s.server /\ t.changed = s.changed /\ t.missed = s.missed
        /\ t.known = s.known /\ LogKeepsList(t, s) /\ t.net = s.net /\ t.on = s.on /\ t.days = s.days
    BY <1>2 DEF LogFields, LogKeepsList
  <1> HIDE DEF t
  <1>4. s.on \in SUBSET Switches
    BY <1>1, <1>2 DEF LogBase, LogSettings
  <1>5. LogNow(t) = LogNow(st)
    BY <1>2, <1>3 DEF LogNow
  <1>6. LogBase(t)
    BY <1>1, <1>2, <1>3, <1>4, <1>5 DEF LogBase
  <1>7. ASSUME ~st.missed PROVE LogStored(t) /\ LogIdle(t)
    <2>1. LogIdle(st) /\ d = LogNow(st)
      BY <1>1, <1>7, LogRests
    <2>2. d # None
      BY <1>1, <2>1, NoSettings DEF LogBase, LogSettings
    <2>3. t.on = t.server.on /\ t.days = t.server.days
      BY <1>2, <1>3, <2>1, <2>2 DEF LogNow
    <2>4. LogStored(t)
      BY <1>2, <1>3, <1>5, <2>1, <2>3 DEF LogStored
    <2>5. LogIdle(t)
      BY <1>2, <1>3, <2>1 DEF LogIdle, LogList, LogQuery, LogKeepsList
    <2> QED
      BY <2>4, <2>5
  <1>8. LogInv(t)
    BY <1>2, <1>3, <1>6, <1>7 DEF LogInv
  <1> QED
    BY <1>8, LogMoved DEF t, s, d, ServerLog!OpenDialog, ServerLog!openLogSettingsDialog

(* An edit in the dialog, or its end. *)
LEMMA LogDialog ==
  ASSUME NEW s, LogInv(s), NEW t, LogFields \subseteq DOMAIN t, t.net = s.net, LogKeepsList(t, s), t.field = s.field,
         t.server = s.server, t.changed = s.changed, t.missed = s.missed, t.known = s.known,
         t.on \in SUBSET Switches, t.dirty \/ ~t.open
  PROVE  LogInv(t)
  <1>1. LogNow(t) = LogNow(s)
    BY DEF LogNow
  <1>2. LogBase(t)
    BY <1>1 DEF LogInv, LogBase
  <1>3. LogStored(s) => LogStored(t)
    BY <1>1 DEF LogStored
  <1>4. LogQuery(t) = LogQuery(s) /\ \A d : LogPage(t, d) <=> LogPage(s, d)
    BY DEF LogPage, LogQuery, LogKeepsList
  <1>5. LogListing(s) => LogListing(t)
    BY <1>4 DEF LogListing, LogKeepsList
  <1>6. LogSetting(s) => LogSetting(t)
    BY DEF LogSetting, LogKeepsList
  <1>7. LogIdle(s) => LogIdle(t)
    BY <1>4 DEF LogIdle, LogList, LogKeepsList
  <1> QED
    BY <1>2, <1>3, <1>5, <1>6, <1>7 DEF LogInv

LEMMA LogEdits ==
  ASSUME LogInv(st), ServerLog!Edit
  PROVE  LogInv(st')
  <1>0. LogBase(st)
    BY DEF LogInv
  <1>1. ASSUME NEW sw \in Switches PROVE LogInv(ServerLog!onSwitch(st, sw))
    <2> DEFINE on == IF ~ServerLog!isSwitchOn(st, sw) THEN st.on \union {sw} ELSE st.on \ {sw}
               u == [st EXCEPT !.on = on]
               t == [u EXCEPT !.dirty = TRUE]
    <2>1. on \in SUBSET Switches
      BY <1>0 DEF LogBase
    <2> HIDE DEF on
    <2>2. LogFields \subseteq DOMAIN t /\ t.net = st.net /\ LogKeepsList(t, st) /\ t.field = st.field
          /\ t.server = st.server /\ t.changed = st.changed /\ t.missed = st.missed /\ t.known = st.known
          /\ t.on = on /\ t.dirty
      BY <1>0 DEF LogBase, LogFields, LogKeepsList
    <2> HIDE DEF t
    <2>3. LogInv(t)
      BY <2>1, <2>2, LogDialog
    <2> QED
      BY <2>3 DEF t, u, on, ServerLog!onSwitch, ServerLog!setSwitch
  <1>2. ASSUME NEW d PROVE LogInv([st EXCEPT !.days = d, !.dirty = TRUE])
    <2> DEFINE t == [st EXCEPT !.days = d, !.dirty = TRUE]
    <2>2. LogFields \subseteq DOMAIN t /\ t.net = st.net /\ LogKeepsList(t, st) /\ t.field = st.field
          /\ t.server = st.server /\ t.changed = st.changed /\ t.missed = st.missed /\ t.known = st.known
          /\ t.on = st.on /\ t.dirty
      BY <1>0 DEF LogBase, LogFields, LogKeepsList
    <2> HIDE DEF t
    <2>3. LogInv(t)
      BY <1>0, <2>2, LogDialog DEF LogBase
    <2> QED
      BY <2>3 DEF t
  <1> QED
    BY <1>1, <1>2, LogMoved DEF ServerLog!Edit

LEMMA LogCloses ==
  ASSUME LogInv(st)
  PROVE  LogInv(ServerLog!closeLogSettingsDialog(st))
  <1> DEFINE t == ServerLog!closeLogSettingsDialog(st)
  <1>2. LogFields \subseteq DOMAIN t /\ t.net = st.net /\ LogKeepsList(t, st) /\ t.field = st.field
        /\ t.server = st.server /\ t.changed = st.changed /\ t.missed = st.missed /\ t.known = st.known
        /\ t.on = st.on /\ ~t.open
    BY DEF LogInv, LogBase, LogFields, LogKeepsList, ServerLog!closeLogSettingsDialog
  <1> HIDE DEF t
  <1>3. LogInv(t)
    BY <1>2, LogDialog DEF LogInv, LogBase
  <1> QED
    BY <1>3 DEF t

(* The settings are sent, and the list will be asked for with the field. *)
LEMMA LogSaves ==
  ASSUME LogInv(st), ServerLog!Save
  PROVE  LogInv(st')
  <1>1. st.net = {} /\ LogBase(st) /\ st.dirty
    BY LogReady DEF ServerLog!Save
  <1> DEFINE days == ServerLog!numOr(st.days, ServerLog!currentVal(st, ServerLog!Junk))
             body == [on |-> st.on, days |-> days]
             s == ServerLog!putLogSettings(st, body)
             m == [what |-> "put", arg |-> body, out |-> "", data |-> None]
             t == ServerLog!WithField(s)
  <1>2. CASE ServerLog!validateLogSettings(days)
    <2>1. days \in 1 .. 1825
      BY <1>2 DEF ServerLog!validateLogSettings, ServerLog!isValidLogDays, ServerLog!MinDays, ServerLog!MaxDays
    <2> HIDE DEF days
    <2>2. body \in LogSettings
      BY <1>1, <2>1 DEF LogSettings, LogBase
    <2> HIDE DEF body
    <2>3. LogFields \subseteq DOMAIN s /\ s.net = {m} /\ LogKeeps(s, st) /\ LogKeepsList(s, st) /\ s.field = st.field
      BY <1>1 DEF LogBase, LogFields, LogKeeps, LogKeepsList, ServerLog!putLogSettings, ServerLog!Send
    <2>4. m.what = "put" /\ m.arg = body /\ m.out = LogUnserved /\ {"what", "arg", "out", "data"} \subseteq DOMAIN m
      BY DEF LogUnserved
    <2> HIDE DEF s, m
    <2>5. /\ LogFields \subseteq DOMAIN t /\ t.net = {m} /\ LogKeeps(t, s) /\ t.filters = s.filters /\ t.field = s.field
          /\ t.asked = [s.asked EXCEPT !["level"] = s.field]
      BY <2>3 DEF LogFields, LogKeeps, ServerLog!WithField, ServerLog!Asked
    <2> HIDE DEF t
    <2>6. LogMsg(m)
      BY <2>2, <2>4, LogUnservedIs DEF LogMsg
    <2>7. LogKeeps(t, st)
      BY <2>3, <2>5 DEF LogKeeps
    <2>8. LogBase(t)
      BY <1>1, <2>5, <2>6, <2>7, LogBased
    <2>9. ASSUME ~st.missed PROVE LogStored(t) /\ LogSetting(t)
      <3>1. st.asked = st.filters
        BY <1>1, <2>9, LogRests
      <3>2. LogSetting(t)
        BY <2>3, <2>4, <2>5, <3>1 DEF LogSetting, LogThen, LogKeepsList
      <3>3. t.dirty
        BY <1>1, <2>7 DEF LogKeeps
      <3>4. LogStored(t)
        BY <2>4, <2>5, <3>3, LogUnservedIs DEF LogStored, LogOfSettings
      <3> QED
        BY <3>2, <3>4
    <2>10. LogInv(t)
      BY <2>7, <2>8, <2>9 DEF LogInv, LogKeeps
    <2>11. ServerLog!saveLogSettings(st) = s /\ s # st
      BY <1>1, <1>2, <2>3 DEF ServerLog!saveLogSettings, s, body, days
    <2> QED
      BY <2>10, <2>11, LogMoved DEF t, ServerLog!Save
  <1>3. CASE ~ServerLog!validateLogSettings(days)
    <2>1. ServerLog!saveLogSettings(st) = st
      BY <1>3 DEF ServerLog!saveLogSettings
    <2> QED
      BY <2>1, LogMoved DEF ServerLog!Save
  <1> QED
    BY <1>2, <1>3

LEMMA LogGrows ==
  ASSUME LogInv(st), ServerLog!LogChanges
  PROVE  LogInv(st')
  <1>1. PICK l : st' = ServerLog!Move([st EXCEPT !.server.log = l, !.changed = TRUE])
    BY DEF ServerLog!LogChanges
  <1> DEFINE t == [st EXCEPT !.server.log = l, !.changed = TRUE]
  <1>2. /\ LogFields \subseteq DOMAIN t /\ {"log", "on", "days"} \subseteq DOMAIN t.server
        /\ t.server.on = st.server.on /\ t.server.days = st.server.days
        /\ t.net = st.net /\ t.missed = st.missed /\ t.changed /\ LogKeepsList(t, st) /\ t.field = st.field
        /\ t.on = st.on /\ t.days = st.days /\ t.known = st.known /\ t.open = st.open /\ t.dirty = st.dirty
    BY DEF LogInv, LogBase, LogFields, LogKeepsList
  <1> HIDE DEF t
  <1>3. LogNow(t) = LogNow(st)
    BY <1>2 DEF LogNow
  <1>4. LogBase(t)
    BY <1>2, <1>3 DEF LogInv, LogBase
  <1>5. LogStored(st) => LogStored(t)
    BY <1>2, <1>3 DEF LogStored
  <1>6. LogQuery(t) = LogQuery(st) /\ \A d : LogPage(st, d) => LogPage(t, d)
    BY <1>2 DEF LogPage, LogQuery, LogKeepsList
  <1>7. LogListing(st) => LogListing(t)
    BY <1>2, <1>6 DEF LogListing, LogKeepsList
  <1>8. LogSetting(st) => LogSetting(t)
    BY <1>2 DEF LogSetting, LogKeepsList
  <1>9. LogIdle(st) => LogIdle(t)
    BY <1>2 DEF LogIdle, LogList, LogKeepsList
  <1>10. LogInv(t)
    BY <1>2, <1>4, <1>5, <1>7, <1>8, <1>9 DEF LogInv
  <1> QED
    BY <1>1, <1>10, LogMoved DEF t

LogFilled(t, s, d) ==
    /\ t.known = d /\ t.on = d.on /\ t.days = d.days
    /\ t.server = s.server /\ t.changed = s.changed /\ t.missed = s.missed /\ t.net = s.net
    /\ t.open = s.open /\ t.dirty = s.dirty /\ t.field = s.field /\ LogKeepsList(t, s)

(* The settings are put in the form. *)
LEMMA LogRendered ==
  ASSUME NEW s, LogBase(s), NEW d, d \in LogSettings, NEW t, t = ServerLog!renderLogSettings(s, d)
  PROVE  LogBase(t) /\ LogFilled(t, s, d)
  <1>0. d # None
    BY NoSettings DEF LogSettings
  <1> DEFINE u == [s EXCEPT !.known = d]
             v == [u EXCEPT !.on = d.on, !.days = d.days]
  <1>1. t = v
    BY <1>0 DEF ServerLog!renderLogSettings, ServerLog!setSettingsInputs
  <1>2. LogFields \subseteq DOMAIN v /\ v.known = d /\ v.on = d.on /\ v.days = d.days
        /\ v.server = s.server /\ v.changed = s.changed /\ v.missed = s.missed /\ v.net = s.net
        /\ v.open = s.open /\ v.dirty = s.dirty /\ v.field = s.field /\ LogKeepsList(v, s)
    BY DEF LogBase, LogFields, LogKeepsList
  <1> HIDE DEF v
  <1>3. LogNow(v) = LogNow(s) /\ d.on \in SUBSET Switches
    BY <1>2 DEF LogNow, LogSettings
  <1>4. LogBase(v)
    BY <1>2, <1>3 DEF LogBase
  <1> QED
    BY <1>1, <1>2, <1>4 DEF LogFilled

LEMMA LogTaken ==
  ASSUME NEW s, LogBase(s), NEW m, NEW t, t = [s EXCEPT !.net = @ \ {m}]
  PROVE  LogBase(t) /\ LogKeeps(t, s) /\ LogKeepsList(t, s) /\ t.field = s.field /\ t.net = s.net \ {m}
  <1>1. LogFields \subseteq DOMAIN t /\ LogKeeps(t, s) /\ LogKeepsList(t, s) /\ t.field = s.field /\ t.net = s.net \ {m}
    BY DEF LogBase, LogFields, LogKeeps, LogKeepsList
  <1>2. \A n \in t.net : LogMsg(n)
    BY <1>1 DEF LogBase
  <1> QED
    BY <1>1, <1>2, LogBased

(* The phases, by what is answered. *)
LEMMA LogPhases ==
  ASSUME LogInv(st), ~st.missed, NEW m \in st.net
  PROVE  /\ LogOfList(m) => /\ st.filters = st.asked /\ m.arg = LogQuery(st)
                            /\ m.what = "logs" /\ m.out = "ok" => LogPage(st, m.data)
                            /\ \A n \in st.net : n # m => LogView(n)
         /\ LogThen(m) => LogSetting(st) /\ st.net = {m}
         /\ LogView(m) => LogListing(st) \/ LogIdle(st)
  <1>1. ~(LogOfList(m) /\ LogView(m)) /\ ~(LogOfList(m) /\ LogThen(m)) /\ ~(LogView(m) /\ LogThen(m))
    BY DEF LogOfList, LogView, LogThen
  <1> QED
    BY <1>1 DEF LogInv, LogListing, LogSetting, LogIdle

LEMMA LogGotList ==
  ASSUME LogInv(st), NEW m \in st.net, m.what = "logs", m.out = "ok",
         NEW s, s = [st EXCEPT !.net = @ \ {m}]
  PROVE  LogInv(ServerLog!LoadedLogs(s, m))
  <1>1. LogBase(s) /\ LogKeeps(s, st) /\ LogKeepsList(s, st) /\ s.net = st.net \ {m}
    BY LogTaken DEF LogInv
  <1> DEFINE data == m.data
             u == [s EXCEPT !.rows = data.items, !.page = data.page,
                            !.prev = data.page > 1, !.next = data.page < ServerLog!totalPagesOf(data)]
             t == ServerLog!renderActiveLogFilters(u)
  <1>2. ServerLog!LoadedLogs(s, m) = t
    BY DEF ServerLog!LoadedLogs, ServerLog!renderLogs
  <1> DEFINE total == ServerLog!totalPagesOf(data)
  <1> HIDE DEF total
  <1>3. /\ LogFields \subseteq DOMAIN u /\ LogKeeps(u, s) /\ u.filters = s.filters /\ u.asked = s.asked /\ u.net = s.net
        /\ u.rows = data.items /\ u.page = data.page /\ u.prev = (data.page > 1) /\ u.next = (data.page < total)
    BY <1>1 DEF LogBase, LogFields, LogKeeps, total
  <1> HIDE DEF u
  <1>4. /\ LogFields \subseteq DOMAIN t /\ LogKeeps(t, u) /\ t.filters = u.filters /\ t.asked = u.asked /\ t.net = u.net
        /\ t.rows = u.rows /\ t.page = u.page /\ t.prev = u.prev /\ t.next = u.next /\ t.pills = u.filters
    BY <1>3 DEF LogFields, LogKeeps, ServerLog!renderActiveLogFilters
  <1> HIDE DEF t
  <1>5. LogKeeps(t, st)
    BY <1>1, <1>3, <1>4 DEF LogKeeps
  <1>6. LogBase(t)
    <2>1. \A n \in t.net : LogMsg(n)
      BY <1>1, <1>3, <1>4 DEF LogBase
    <2> QED
      BY <1>1, <1>4, <1>5, <2>1, LogBased DEF LogInv
  <1>7. ASSUME ~st.missed PROVE LogStored(t) /\ LogIdle(t)
    <2>0. LogOfList(m) /\ ~LogOfSettings(m) /\ m.what # "put"
      BY DEF LogOfList, LogOfSettings
    <2>1. /\ st.filters = st.asked /\ m.arg = LogQuery(st) /\ LogPage(st, data)
          /\ \A n \in st.net : n # m => LogView(n)
      BY <1>7, <2>0, LogPhases
    <2>2. LogNow(t) = LogNow(st)
      BY <1>5 DEF LogNow, LogKeeps
    <2>3. LogStored(st)
      BY <1>7 DEF LogInv
    <2>4. LogStored(t)
      BY <1>1, <1>3, <1>4, <1>5, <2>0, <2>2, <2>3 DEF LogStored, LogKeeps
    <2>5. data.page = st.page
      BY <2>1 DEF LogPage
    <2>6. LogQuery(t) = LogQuery(st) /\ t.page = st.page /\ t.asked = st.asked
      BY <1>1, <1>3, <1>4, <2>5 DEF LogQuery, LogKeepsList
    <2>7. t.pills = t.asked /\ t.filters = t.asked
      BY <1>1, <1>3, <1>4, <2>1 DEF LogKeepsList
    <2>8. \A r \in t.rows : ServerLog!Passes(r.row, t.pills)
      BY <1>3, <1>4, <2>1, <2>6, <2>7 DEF LogPage
    <2>9. ASSUME ~t.changed
          PROVE  LET d == ServerLog!PageOf(t.server.log, LogQuery(t))
                 IN t.rows = d.items /\ t.next = (t.page < ServerLog!totalPagesOf(d)) /\ t.prev = (t.page > 1)
      <3> DEFINE d == ServerLog!PageOf(t.server.log, LogQuery(t))
      <3>1. ~st.changed /\ t.server = st.server
        BY <1>5, <2>9 DEF LogKeeps
      <3>2. data.items = d.items /\ data.total = d.total
        BY <2>1, <2>6, <3>1 DEF LogPage
      <3> HIDE DEF d
      <3>3. total = ServerLog!totalPagesOf(d)
        BY <3>2 DEF total, ServerLog!totalPagesOf
      <3>4. t.rows = d.items /\ t.next = (t.page < ServerLog!totalPagesOf(d)) /\ t.prev = (t.page > 1)
        BY <1>3, <1>4, <3>2, <3>3
      <3> QED
        BY <3>4 DEF d
    <2>10. LogList(t)
      BY <2>7, <2>8, <2>9 DEF LogList
    <2>11. \A n \in t.net : LogView(n)
      BY <1>1, <1>3, <1>4, <2>1
    <2> QED
      BY <2>4, <2>7, <2>10, <2>11 DEF LogIdle
  <1>8. LogInv(t)
    BY <1>5, <1>6, <1>7 DEF LogInv, LogKeeps
  <1> QED
    BY <1>2, <1>8

LEMMA LogGotNames ==
  ASSUME LogInv(st), NEW m \in st.net, m.what = "names",
         NEW s, s = [st EXCEPT !.net = @ \ {m}]
  PROVE  LogInv(ServerLog!GotNames(s, m))
  <1>1. LogBase(s) /\ LogKeeps(s, st) /\ LogKeepsList(s, st) /\ s.net = st.net \ {m}
    BY LogTaken DEF LogInv
  <1> DEFINE known == s.names \/ m.out = "ok"
             u == [s EXCEPT !.names = known]
             arg == m.arg
             t == ServerLog!GotNames(s, m)
  <1>2. t = ServerLog!Send(u, "logs", arg)
    BY DEF ServerLog!GotNames
  <1> HIDE DEF known, t
  <1>3. LogFields \subseteq DOMAIN u /\ LogKeeps(u, s) /\ LogKeepsList(u, s) /\ u.net = s.net
    BY <1>1 DEF LogBase, LogFields, LogKeeps, LogKeepsList
  <1> HIDE DEF u
  <1>4. LogBase(u)
    BY <1>1, <1>3, LogBased DEF LogBase
  <1>5. "logs" \in {"logs", "names", "settings"}
    OBVIOUS
  <1> HIDE DEF arg
  <1>6. LogBase(t) /\ LogKeeps(t, u) /\ LogKeepsList(t, u)
        /\ \E n : t.net = u.net \union {n} /\ LogMsg(n) /\ n.what = "logs" /\ n.arg = arg /\ n.out = LogUnserved
    BY <1>2, <1>4, <1>5, LogSend
  <1>7. PICK n : t.net = u.net \union {n} /\ n.what = "logs" /\ n.arg = arg /\ n.out = LogUnserved
    BY <1>6
  <1>8. LogKeeps(t, st) /\ LogKeepsList(t, st)
    BY <1>1, <1>3, <1>6 DEF LogKeeps, LogKeepsList
  <1>9. ASSUME ~st.missed PROVE LogStored(t) /\ LogListing(t)
    <2>0. LogOfList(m) /\ ~LogOfSettings(m) /\ m.what # "put" /\ LogOfList(n) /\ ~LogOfSettings(n) /\ n.what # "put"
      BY <1>7 DEF LogOfList, LogOfSettings
    <2>1. st.filters = st.asked /\ arg = LogQuery(st) /\ \A x \in st.net : x # m => LogView(x)
      BY <1>9, <2>0, LogPhases DEF arg
    <2>2. LogNow(t) = LogNow(st) /\ LogQuery(t) = LogQuery(st) /\ t.filters = t.asked
      BY <1>8, <2>1 DEF LogNow, LogQuery, LogKeeps, LogKeepsList
    <2>3. LogStored(st)
      BY <1>9 DEF LogInv
    <2>4. t.net = (st.net \ {m}) \union {n}
      BY <1>1, <1>3, <1>7
    <2>5. LogStored(t)
      BY <1>8, <2>0, <2>2, <2>3, <2>4 DEF LogStored, LogKeeps
    <2>6. ~(n.out = "ok")
      BY <1>7, LogUnservedIs
    <2>7. LogListing(t)
      BY <1>7, <2>0, <2>1, <2>2, <2>4, <2>6 DEF LogListing
    <2> QED
      BY <2>5, <2>7
  <1>10. LogInv(t)
    BY <1>6, <1>8, <1>9 DEF LogInv, LogKeeps
  <1> QED
    BY <1>10 DEF t

LEMMA LogGotSettings ==
  ASSUME LogInv(st), NEW m \in st.net, m.what = "settings", m.out = "ok",
         NEW s, s = [st EXCEPT !.net = @ \ {m}]
  PROVE  LogInv(ServerLog!LoadedSettings(s, m))
  <1>1. LogBase(s) /\ LogKeeps(s, st) /\ LogKeepsList(s, st) /\ s.field = st.field /\ s.net = st.net \ {m}
    BY LogTaken DEF LogInv
  <1> DEFINE d == m.data
             r == ServerLog!renderLogSettings(s, d)
  <1>2. LogOfSettings(m) /\ d \in LogSettings
    BY DEF LogInv, LogBase, LogMsg, LogOfSettings
  <1>r. r = ServerLog!renderLogSettings(s, d)
    OBVIOUS
  <1> HIDE DEF d, r
  <1>x. LogBase(s)
    BY <1>1
  <1>y. d \in LogSettings
    BY <1>2
  <1>z. LogBase(r) /\ LogFilled(r, s, d)
    BY <1>x, <1>y, <1>r, LogRendered
  <1>3. /\ LogBase(r) /\ r.known = d /\ r.on = d.on /\ r.days = d.days
        /\ r.server = s.server /\ r.changed = s.changed /\ r.missed = s.missed /\ r.net = s.net
        /\ r.open = s.open /\ r.dirty = s.dirty /\ r.field = s.field /\ LogKeepsList(r, s)
    BY <1>z, Zenon DEF LogFilled
  <1>4. LogKeepsList(r, st) /\ LogNow(r) = LogNow(st) /\ r.field = st.field /\ r.missed = st.missed
    BY <1>1, <1>3 DEF LogKeeps, LogKeepsList, LogNow
  <1>5. ASSUME ~st.missed PROVE LogStored(r)
    <2>1. LogStored(st)
      BY <1>5 DEF LogInv
    <2>2. d = LogNow(st)
      BY <1>2, <2>1 DEF LogStored, d
    <2>3. r.on = r.server.on /\ r.days = r.server.days
      BY <1>3, <1>4, <2>2 DEF LogNow
    <2>4. \A n \in r.net : n.what # "put"
      <3>1. LogView(m) \/ LogThen(m)
        BY DEF LogView, LogThen
      <3>2. CASE LogThen(m)
        BY <1>1, <1>3, <1>5, <3>2, LogPhases
      <3>3. CASE LogView(m)
        <4>1. LogListing(st) \/ LogIdle(st)
          BY <1>5, <3>3, LogPhases
        <4>2. \A n \in st.net : LogView(n) \/ LogOfList(n)
          BY <4>1 DEF LogListing, LogIdle
        <4> QED
          BY <1>1, <1>3, <4>2 DEF LogView, LogOfList
      <3> QED
        BY <3>1, <3>2, <3>3
    <2> QED
      BY <1>1, <1>3, <1>4, <2>1, <2>2, <2>3, <2>4 DEF LogStored
  <1>6. CASE m.arg # "logs"
    <2>1. ServerLog!LoadedSettings(s, m) = r
      BY <1>6 DEF ServerLog!LoadedSettings, r, d
    <2>2. LogView(m)
      BY <1>6 DEF LogView
    <2>3. ASSUME ~st.missed PROVE LogListing(r) \/ LogIdle(r)
      <3>1. LogListing(st) \/ LogIdle(st)
        BY <2>2, <2>3, LogPhases
      <3>2. LogQuery(r) = LogQuery(st) /\ \A x : LogPage(st, x) => LogPage(r, x)
        BY <1>1, <1>3, <1>4 DEF LogPage, LogQuery, LogKeeps, LogKeepsList
      <3>3. CASE LogIdle(st)
        <4>1. LogList(r)
          BY <1>1, <1>3, <1>4, <3>2, <3>3 DEF LogIdle, LogList, LogKeeps, LogKeepsList
        <4> QED
          BY <1>1, <1>3, <1>4, <3>3, <4>1 DEF LogIdle, LogKeepsList
      <3>4. CASE LogListing(st)
        <4>1. PICK n \in st.net : /\ LogOfList(n) /\ n.arg = LogQuery(st)
                                  /\ n.what = "logs" /\ n.out = "ok" => LogPage(st, n.data)
                                  /\ \A x \in st.net : x # n => LogView(x)
          BY <3>4 DEF LogListing
        <4>2. n # m
          BY <4>1 DEF LogOfList
        <4>3. st.filters = st.asked
          BY <3>4 DEF LogListing
        <4> QED
          BY <1>1, <1>3, <1>4, <3>2, <4>1, <4>2, <4>3 DEF LogListing, LogKeepsList
      <3> QED
        BY <3>1, <3>3, <3>4
    <2>4. LogInv(r)
      BY <1>3, <1>4, <1>5, <2>3 DEF LogInv
    <2> QED
      BY <2>1, <2>4
  <1>7. CASE m.arg = "logs"
    <2> DEFINE t == ServerLog!loadLogs(r, 1)
    <2>1. ServerLog!LoadedSettings(s, m) = t
      BY <1>7 DEF ServerLog!LoadedSettings, r, d
    <2>t. t = ServerLog!loadLogs(r, 1)
      OBVIOUS
    <2> HIDE DEF t
    <2>2. /\ LogBase(t) /\ LogKeeps(t, r) /\ t.asked = r.asked /\ t.field = r.field
          /\ t.filters = [r.filters EXCEPT !["level"] = r.field]
          /\ \E n : /\ t.net = r.net \union {n} /\ LogMsg(n) /\ LogOfList(n) /\ n.out = LogUnserved
                    /\ n.arg = [filters |-> t.filters, page |-> t.page]
      BY <1>3, <2>t, LogLoads
    <2>3. PICK n : /\ t.net = r.net \union {n} /\ LogOfList(n) /\ n.out = LogUnserved
                   /\ n.arg = [filters |-> t.filters, page |-> t.page]
      BY <2>2
    <2>4. CASE st.missed
      <3>1. t.missed
        BY <1>4, <2>2, <2>4 DEF LogKeeps
      <3> QED
        BY <2>1, <2>2, <3>1 DEF LogInv
    <2>5. CASE ~st.missed
      <3>1. LogThen(m)
        BY <1>7 DEF LogThen
      <3>2. LogSetting(st) /\ st.net = {m}
        BY <2>5, <3>1, LogPhases
      <3>3. t.asked = t.filters
        BY <1>4, <2>2, <3>2 DEF LogSetting, LogKeepsList
      <3>4. LogStored(r) /\ \A x \in r.net : LogView(x)
        BY <1>1, <1>3, <1>5, <2>5, <3>2
      <3> QED
        BY <2>1, <2>2, <2>3, <3>3, <3>4, LogAsks
    <2> QED
      BY <2>4, <2>5
  <1> QED
    BY <1>6, <1>7

LEMMA LogPutDone ==
  ASSUME LogInv(st), NEW m \in st.net, m.what = "put", m.out = "ok",
         NEW s, s = [st EXCEPT !.net = @ \ {m}]
  PROVE  LogInv(ServerLog!PutAnswered(s, m))
  <1>1. LogBase(s) /\ LogKeeps(s, st) /\ LogKeepsList(s, st) /\ s.field = st.field /\ s.net = st.net \ {m}
    BY LogTaken DEF LogInv
  <1> DEFINE d == m.data
             r == ServerLog!renderLogSettings(s, d)
             u == [r EXCEPT !.dirty = FALSE]
             v == ServerLog!closeLogSettingsDialog(u)
             t == ServerLog!loadLogSettings(v, "logs")
  <1>0. ServerLog!PutAnswered(s, m) = t
    BY DEF ServerLog!PutAnswered
  <1>2. LogOfSettings(m) /\ d \in LogSettings
    BY DEF LogInv, LogBase, LogMsg, LogOfSettings
  <1>t. t = ServerLog!Send(v, "settings", "logs")
    BY DEF ServerLog!loadLogSettings
  <1>s. r = ServerLog!renderLogSettings(s, d)
    OBVIOUS
  <1> HIDE DEF d, r, t
  <1>x. LogBase(s)
    BY <1>1
  <1>y. d \in LogSettings
    BY <1>2
  <1>z. LogBase(r) /\ LogFilled(r, s, d)
    BY <1>x, <1>y, <1>s, LogRendered
  <1>3. /\ LogBase(r) /\ r.known = d /\ r.on = d.on /\ r.days = d.days
        /\ r.server = s.server /\ r.changed = s.changed /\ r.missed = s.missed /\ r.net = s.net
        /\ r.open = s.open /\ r.dirty = s.dirty /\ r.field = s.field /\ LogKeepsList(r, s)
    BY <1>z, Zenon DEF LogFilled
  <1>4. /\ LogFields \subseteq DOMAIN v /\ v.known = d /\ v.on = d.on /\ v.days = d.days
        /\ v.server = s.server /\ v.changed = s.changed /\ v.missed = s.missed /\ v.net = s.net
        /\ ~v.open /\ v.field = s.field /\ LogKeepsList(v, s)
    BY <1>3 DEF LogBase, LogFields, LogKeepsList, ServerLog!closeLogSettingsDialog
  <1> HIDE DEF v
  <1>5. LogBase(v)
    BY <1>2, <1>3, <1>4 DEF LogBase, LogNow
  <1>6. "settings" \in {"logs", "names", "settings"}
    OBVIOUS
  <1>7. LogBase(t) /\ LogKeeps(t, v) /\ LogKeepsList(t, v) /\ t.field = v.field
        /\ \E n : t.net = v.net \union {n} /\ LogMsg(n) /\ n.what = "settings" /\ n.arg = "logs" /\ n.out = LogUnserved
    BY <1>t, <1>5, <1>6, LogSend
  <1>8. ASSUME ~st.missed PROVE LogStored(t) /\ LogSetting(t)
    <2>1. PICK n : t.net = v.net \union {n} /\ n.what = "settings" /\ n.arg = "logs" /\ n.out = LogUnserved
      BY <1>7
    <2>2. LogThen(m) /\ LogThen(n) /\ LogOfSettings(n) /\ n.what # "put" /\ ~(n.out = "ok")
      BY <2>1, LogUnservedIs DEF LogThen, LogOfSettings
    <2>3. LogSetting(st) /\ st.net = {m}
      BY <1>8, <2>2, LogPhases
    <2>4. t.net = {n}
      BY <1>1, <1>4, <2>1, <2>3
    <2>5. ~t.open
      BY <1>4, <1>7 DEF LogKeeps
    <2>6. LogStored(t)
      BY <2>2, <2>4, <2>5 DEF LogStored
    <2>7. t.asked = [t.filters EXCEPT !["level"] = t.field]
      BY <1>1, <1>4, <1>7, <2>3 DEF LogSetting, LogKeepsList
    <2> QED
      BY <2>2, <2>4, <2>6, <2>7 DEF LogSetting
  <1>9. t.missed = st.missed
    BY <1>1, <1>4, <1>7 DEF LogKeeps
  <1>10. LogInv(t)
    BY <1>7, <1>8, <1>9 DEF LogInv
  <1> QED
    BY <1>0, <1>10

LEMMA LogAnswers ==
  ASSUME LogInv(st), ServerLog!Answer
  PROVE  LogInv(st')
  <1>1. PICK m \in st.net : m.out # LogUnserved /\ st' = ServerLog!Answered([st EXCEPT !.net = @ \ {m}], m)
    BY DEF ServerLog!Answer, LogUnserved
  <1> DEFINE s == [st EXCEPT !.net = @ \ {m}]
  <1>2. m.what \in {"logs", "names", "settings", "put"} /\ m.out = "ok"
    BY <1>1 DEF LogInv, LogBase, LogMsg
  <1>3. /\ m.what = "logs" => ServerLog!Answered(s, m) = ServerLog!LoadedLogs(s, m)
        /\ m.what = "settings" => ServerLog!Answered(s, m) = ServerLog!LoadedSettings(s, m)
        /\ m.what = "put" => ServerLog!Answered(s, m) = ServerLog!PutAnswered(s, m)
        /\ m.what = "names" => ServerLog!Answered(s, m) = ServerLog!GotNames(s, m)
    BY DEF ServerLog!Answered
  <1>4. s = [st EXCEPT !.net = @ \ {m}]
    OBVIOUS
  <1>5. st' = ServerLog!Answered(s, m)
    BY <1>1
  <1> HIDE DEF s
  <1> QED
    BY <1>2, <1>3, <1>4, <1>5, LogGotList, LogGotNames, LogGotSettings, LogPutDone

LEMMA LogLoses ==
  ASSUME LogInv(st), ServerLog!Lost
  PROVE  LogInv(st')
  <1>1. PICK m \in st.net :
          st' = ServerLog!Move(ServerLog!Answered([st EXCEPT !.net = @ \ {m}, !.missed = TRUE],
                                                  [m EXCEPT !.out = "lost", !.data = None]))
    BY DEF ServerLog!Lost
  <1> DEFINE s == [st EXCEPT !.net = @ \ {m}, !.missed = TRUE]
             n == [m EXCEPT !.out = "lost", !.data = None]
  <1>2. {"what", "arg", "out", "data"} \subseteq DOMAIN m /\ m.what \in {"logs", "names", "settings", "put"}
    BY DEF LogInv, LogBase, LogMsg
  <1>3. n.what = m.what /\ n.out = "lost" /\ n.arg = m.arg
    BY <1>2
  <1>4. LogFields \subseteq DOMAIN s /\ s.net = st.net \ {m} /\ s.missed
        /\ s.server = st.server /\ s.on = st.on /\ s.known = st.known
    BY DEF LogInv, LogBase, LogFields
  <1> HIDE DEF s, n
  <1>5. LogNow(s) = LogNow(st)
    BY <1>4 DEF LogNow
  <1>6. LogBase(s)
    BY <1>4, <1>5 DEF LogInv, LogBase
  <1> DEFINE u == [s EXCEPT !.names = @ \/ n.out = "ok"]
             arg == n.arg
             t == ServerLog!Send(u, "logs", arg)
  <1>7. ServerLog!Answered(s, n) \in {s, t}
    <2>1. /\ n.what = "logs" => ServerLog!Answered(s, n) = ServerLog!LoadedLogs(s, n)
          /\ n.what = "settings" => ServerLog!Answered(s, n) = ServerLog!LoadedSettings(s, n)
          /\ n.what = "put" => ServerLog!Answered(s, n) = ServerLog!PutAnswered(s, n)
          /\ n.what = "names" => ServerLog!Answered(s, n) = ServerLog!GotNames(s, n)
      BY DEF ServerLog!Answered
    <2>2. ServerLog!LoadedLogs(s, n) = s /\ ServerLog!LoadedSettings(s, n) = s /\ ServerLog!PutAnswered(s, n) = s
      BY <1>3 DEF ServerLog!LoadedLogs, ServerLog!LoadedSettings, ServerLog!PutAnswered
    <2>3. ServerLog!GotNames(s, n) = t
      BY DEF ServerLog!GotNames
    <2> HIDE DEF t
    <2> QED
      BY <1>2, <1>3, <2>1, <2>2, <2>3
  <1>8. LogFields \subseteq DOMAIN u /\ LogKeeps(u, s) /\ u.net = s.net
    BY <1>4 DEF LogFields, LogKeeps
  <1>9. t = ServerLog!Send(u, "logs", arg) /\ "logs" \in {"logs", "names", "settings"}
    OBVIOUS
  <1> HIDE DEF u, t, arg
  <1>10. LogBase(u)
    BY <1>6, <1>8, LogBased DEF LogBase
  <1>11. LogBase(t) /\ LogKeeps(t, u)
    BY <1>9, <1>10, LogSend
  <1>12. LogInv(s) /\ LogInv(t)
    BY <1>4, <1>6, <1>8, <1>11 DEF LogInv, LogKeeps
  <1> QED
    BY <1>1, <1>7, <1>12, LogMoved DEF s, n

(* A page the server gives is of rows that pass. *)
LEMMA LogPageIs ==
  ASSUME NEW log, NEW q
  PROVE  LET data == ServerLog!PageOf(log, q)
         IN data.page = q.page /\ \A r \in data.items : ServerLog!Passes(r.row, q.filters)
  <1> DEFINE hits == {i \in DOMAIN log : ServerLog!Passes(log[i], q.filters)}
             place(i) == ServerLog!Cardinality({j \in hits : j >= i})
             past == (q.page - 1) * PER_PAGE
             shown == {h \in hits : place(h) \in past + 1 .. past + PER_PAGE}
             items == {[place |-> place(i), row |-> log[i]] : i \in shown}
             total == ServerLog!Cardinality(hits)
  <1>1. ServerLog!PageOf(log, q) = [items |-> items, page |-> q.page, total |-> total]
    BY DEF ServerLog!PageOf
  <1>2. \A i \in shown : ServerLog!Passes(log[i], q.filters)
    <2> HIDE DEF place, past
    <2> QED
      OBVIOUS
  <1> HIDE DEF shown, place, total
  <1>3. \A r \in items : ServerLog!Passes(r.row, q.filters)
    BY <1>2
  <1> HIDE DEF items
  <1> QED
    BY <1>1, <1>3

LEMMA LogServes ==
  ASSUME LogInv(st), ServerLog!Serve
  PROVE  LogInv(st')
  <1> DEFINE now == LogNow(st)
             Data(m) == CASE m.what = "logs"     -> ServerLog!PageOf(st.server.log, m.arg)
                          [] m.what = "settings" -> now
                          [] m.what = "put"      -> m.arg
                          [] m.what = "names"    -> None
  <1>1. PICK m \in st.net :
          st' = [st EXCEPT !.server = IF m.what = "put" THEN [@ EXCEPT !.on = Data(m).on, !.days = Data(m).days] ELSE @,
                           !.changed = @ /\ m.what # "logs",
                           !.net = (@ \ {m}) \union {[m EXCEPT !.out = "ok", !.data = Data(m)]}]
    BY DEF ServerLog!Serve, LogNow
  <1>2. /\ m.what = "logs" => Data(m) = ServerLog!PageOf(st.server.log, m.arg)
        /\ m.what = "settings" => Data(m) = now
        /\ m.what = "put" => Data(m) = m.arg
    OBVIOUS
  <1> DEFINE data == Data(m)
             n == [m EXCEPT !.out = "ok", !.data = data]
             server == IF m.what = "put" THEN [st.server EXCEPT !.on = data.on, !.days = data.days] ELSE st.server
  <1>3. LogMsg(m) /\ LogBase(st)
    BY DEF LogInv, LogBase
  <1> HIDE DEF Data, now
  <1>4. {"what", "arg", "out", "data"} \subseteq DOMAIN n /\ n.what = m.what /\ n.arg = m.arg /\ n.out = "ok" /\ n.data = data
    BY <1>3 DEF LogMsg
  <1>5. /\ LogFields \subseteq DOMAIN st' /\ st'.net = (st.net \ {m}) \union {n} /\ st'.server = server
        /\ st'.changed <=> (st.changed /\ m.what # "logs")
        /\ st'.missed = st.missed /\ LogKeepsList(st', st) /\ st'.field = st.field
        /\ st'.on = st.on /\ st'.days = st.days /\ st'.known = st.known /\ st'.open = st.open /\ st'.dirty = st.dirty
    BY <1>1, <1>3 DEF LogBase, LogFields, LogKeepsList
  <1> HIDE DEF n, data
  <1>6. /\ {"log", "on", "days"} \subseteq DOMAIN server /\ server.log = st.server.log
        /\ m.what = "put" => server.on = data.on /\ server.days = data.days
        /\ m.what # "put" => server = st.server
    BY <1>3 DEF LogBase
  <1> HIDE DEF server
  <1>7. /\ m.what = "put" => LogNow(st') = data
        /\ m.what # "put" => LogNow(st') = LogNow(st)
    <2>1. ASSUME m.what = "put" PROVE data = [on |-> data.on, days |-> data.days]
      BY <1>2, <1>3, <2>1 DEF LogMsg, LogSettings, data
    <2> QED
      BY <1>5, <1>6, <2>1 DEF LogNow
  <1>8. LogNow(st') \in LogSettings /\ (LogOfSettings(m) => data = LogNow(st'))
    BY <1>2, <1>3, <1>7 DEF LogMsg, LogBase, LogOfSettings, data, now
  <1>9. LogMsg(n) /\ (LogOfSettings(n) <=> LogOfSettings(m))
        /\ (LogOfList(n) <=> LogOfList(m)) /\ (LogView(n) <=> LogView(m)) /\ (LogThen(n) <=> LogThen(m))
    BY <1>3, <1>4, <1>8 DEF LogMsg, LogOfSettings, LogOfList, LogView, LogThen
  <1>10. LogBase(st')
    BY <1>3, <1>5, <1>6, <1>8, <1>9 DEF LogBase
  <1>11. ASSUME ~st.missed PROVE LogStored(st')
    <2>1. LogStored(st)
      BY <1>11 DEF LogInv
    <2>2. CASE m.what = "put"
      <3>1. st.net = {m} /\ LogOfSettings(m)
        BY <1>11, <2>2, LogPhases DEF LogThen, LogOfSettings
      <3>2. ~st'.open \/ st'.dirty
        BY <1>5, <2>1, <2>2 DEF LogStored
      <3> QED
        BY <1>4, <1>5, <1>8, <1>9, <3>1, <3>2 DEF LogStored
    <2>3. CASE m.what # "put"
      <3>1. st'.server = st.server /\ LogNow(st') = LogNow(st)
        BY <1>5, <1>6, <1>7, <2>3
      <3> QED
        BY <1>4, <1>5, <1>8, <1>9, <2>1, <2>3, <3>1 DEF LogStored
    <2> QED
      BY <2>2, <2>3
  <1>12. LogQuery(st') = LogQuery(st) /\ st'.server.log = st.server.log
    BY <1>5, <1>6 DEF LogQuery, LogKeepsList
  <1>13. ASSUME ~st.missed PROVE LogListing(st') \/ LogSetting(st') \/ LogIdle(st')
    <2>1. LogOfList(m) \/ LogThen(m) \/ LogView(m)
      BY <1>3 DEF LogMsg, LogOfList, LogThen, LogView
    <2>2. CASE LogOfList(m)
      <3>1. /\ st.filters = st.asked /\ m.arg = LogQuery(st)
            /\ \A x \in st.net : x # m => LogView(x)
        BY <1>13, <2>2, LogPhases
      <3>2. ASSUME n.what = "logs" PROVE LogPage(st', n.data)
        <4>1. n.data = ServerLog!PageOf(st'.server.log, LogQuery(st'))
          BY <1>2, <1>4, <1>12, <3>1, <3>2 DEF data
        <4>2. LogQuery(st').page = st'.page /\ LogQuery(st').filters = st'.asked
          BY DEF LogQuery
        <4>3. n.data.page = st'.page /\ \A r \in n.data.items : ServerLog!Passes(r.row, st'.asked)
          BY <4>1, <4>2, LogPageIs
        <4> QED
          BY <4>1, <4>3 DEF LogPage
      <3>3. st'.filters = st'.asked
        BY <1>5, <3>1 DEF LogKeepsList
      <3>4. LogListing(st')
        BY <1>4, <1>5, <1>9, <1>12, <2>2, <3>1, <3>2, <3>3 DEF LogListing
      <3> QED
        BY <3>4
    <2>3. CASE LogThen(m)
      <3>1. LogSetting(st) /\ st.net = {m}
        BY <1>13, <2>3, LogPhases
      <3>2. st'.net = {n} /\ LogThen(n)
        BY <1>5, <1>9, <2>3, <3>1
      <3>3. LogSetting(st')
        BY <1>5, <3>1, <3>2 DEF LogSetting, LogKeepsList
      <3> QED
        BY <3>3
    <2>4. CASE LogView(m)
      <3>0. m.what = "settings" /\ LogView(n)
        BY <1>9, <2>4 DEF LogView
      <3>1. LogListing(st) \/ LogIdle(st)
        BY <1>13, <2>4, LogPhases
      <3>2. st'.server = st.server /\ (st'.changed <=> st.changed)
        BY <1>5, <1>6, <3>0
      <3>3. \A d : LogPage(st, d) => LogPage(st', d)
        BY <1>5, <1>12, <3>2 DEF LogPage, LogKeepsList
      <3>4. CASE LogIdle(st)
        <4>1. LogList(st')
          BY <1>5, <1>12, <3>2, <3>4 DEF LogIdle, LogList, LogKeepsList
        <4>2. LogIdle(st')
          BY <1>5, <3>0, <3>4, <4>1 DEF LogIdle, LogKeepsList
        <4> QED
          BY <4>2
      <3>5. CASE LogListing(st)
        <4>1. PICK x \in st.net : /\ LogOfList(x) /\ x.arg = LogQuery(st)
                                  /\ x.what = "logs" /\ x.out = "ok" => LogPage(st, x.data)
                                  /\ \A y \in st.net : y # x => LogView(y)
          BY <3>5 DEF LogListing
        <4>2. x # m
          BY <3>0, <4>1 DEF LogOfList
        <4>3. st'.filters = st'.asked
          BY <1>5, <3>5 DEF LogListing, LogKeepsList
        <4>4. x \in st'.net
          BY <1>5, <4>2
        <4>5. \A y \in st'.net : y # x => LogView(y)
          BY <1>5, <3>0, <4>1
        <4>6. LogListing(st')
          BY <1>12, <3>3, <4>1, <4>3, <4>4, <4>5 DEF LogListing
        <4> QED
          BY <4>6
      <3> QED
        BY <3>1, <3>4, <3>5
    <2> QED
      BY <2>1, <2>2, <2>3, <2>4
  <1> QED
    BY <1>5, <1>10, <1>11, <1>13 DEF LogInv

LEMMA LogStep == ASSUME LogInv(st), ServerLog!Next PROVE LogInv(st')
  <1>1. CASE ServerLog!ChooseLevel
    <2>1. PICK v : st' = ServerLog!Move([st EXCEPT !.field = v])
      BY <1>1 DEF ServerLog!ChooseLevel
    <2>2. st.net = {} /\ LogBase(st)
      BY <1>1, LogReady DEF ServerLog!ChooseLevel, ServerLog!Listing
    <2> DEFINE t == [st EXCEPT !.field = v]
    <2>3. LogFields \subseteq DOMAIN t /\ t.net = st.net /\ LogKeeps(t, st) /\ LogKeepsList(t, st)
      BY <2>2 DEF LogBase, LogFields, LogKeeps, LogKeepsList
    <2> HIDE DEF t
    <2>4. LogInv(t)
      BY <2>2, <2>3, LogSame
    <2> QED
      BY <2>1, <2>4, LogMoved DEF t
  <1>2. CASE ServerLog!Submit
    BY <1>2, LogReady, LogForm DEF ServerLog!Submit, ServerLog!Listing, ServerLog!filterLogs
  <1>3. CASE ServerLog!TurnPage
    BY <1>3, LogReady, LogForm
    DEF ServerLog!TurnPage, ServerLog!Listing, ServerLog!pageLogs, ServerLog!refreshLogs
  <1>4. CASE ServerLog!Cancel
    BY <1>4, LogCloses DEF ServerLog!Cancel
  <1> QED
    BY <1>1, <1>2, <1>3, <1>4, LogChips, LogPills, LogOpens, LogEdits, LogSaves, LogGrows, LogServes, LogAnswers, LogLoses
    DEF ServerLog!Next

(* The two properties. *)
LEMMA LogHolds == ASSUME LogInv(st) PROVE ServerLog!LogsShown /\ ServerLog!SettingsShown
  <1> SUFFICES ASSUME st.net = {}, ~st.missed
               PROVE  ServerLog!LogsShown /\ ServerLog!SettingsShown
    BY DEF ServerLog!LogsShown, ServerLog!SettingsShown, ServerLog!AtRest
  <1>1. LogIdle(st) /\ LogStored(st)
    BY LogRests DEF LogInv
  <1>2. ServerLog!LogsShown
    BY <1>1 DEF LogIdle, LogList, LogQuery, ServerLog!LogsShown
  <1>3. ServerLog!SettingsShown
    BY <1>1 DEF LogStored, ServerLog!SettingsShown
  <1> QED
    BY <1>2, <1>3

-----------------------------------------------------------------------------
(* All panels. *)

LEMMA RuleHolds == ASSUME RuleInv PROVE Rule!RowsValid /\ Rule!BuilderAgrees
  BY DEF RuleInv, RowsOk, RowOk, HasOp, Agrees, Rule!RowsValid, Rule!BuilderAgrees

LEMMA FormHolds == ASSUME FormInv PROVE Form!DefaultOfType
  BY DEF FormInv, FlagTyped, Form!DefaultOfType

PanelsInv ==
    /\ panel = "backups"  => BkInv(st)
    /\ panel = "schedule" => SchInv(st)
    /\ panel = "rule"     => RuleInv
    /\ panel = "form"     => FormInv
    /\ panel = "limits"   => LimInv(st)
    /\ panel = "keys"     => KeyInv(st)
    /\ panel = "log"      => LogInv(st)

LEMMA PanelsInit == Init => PanelsInv
  BY BkInit, SchInit, RuleInit, FormInit, LimInit, KeyInit, LogInit
  DEF Init, InitPanel, PanelsInv

LEMMA PanelsStep == PanelsInv /\ [Next]_<<panel, st, accountVars>> => PanelsInv'
  <1> SUFFICES ASSUME PanelsInv, [Next]_<<panel, st, accountVars>> PROVE PanelsInv'
    OBVIOUS
  <1>1. panel' = panel
    BY DEF Next
  <1>2. CASE st' = st
    <2>1. RuleInv => RuleInv'
      BY <1>2 DEF RuleInv, RuleHas, RowsOk, Agrees
    <2>2. FormInv => FormInv'
      BY <1>2 DEF FormInv, FormHas, FlagTyped
    <2> QED
      BY <1>1, <1>2, <2>1, <2>2 DEF PanelsInv
  <1>3. CASE NextPanel
    BY <1>1, <1>3, BkStep, SchStep, RuleStep, FormStep, LimStep, KeyStep, LogStep
    DEF NextPanel, PanelsInv
  <1> QED
    BY <1>2, <1>3 DEF Next

(* The cards of a page at rest say what the server has, whatever was       *)
(* clicked, edited and lost before and in whatever order the answers came, *)
(* and the page gives back what passes through it: SettledPages, for any      *)
(* number of moves, buckets, schedules, rules, ranges, keys and log rows.  *)
THEOREM PagesSettle == Spec => []SettledPages
  <1>1. PanelsInv => SettledPages
    BY BkHolds, SchShows, SchTrips, RuleHolds, LimHolds, KeyShows, LogHolds DEF PanelsInv, SettledPages
  <1> QED
    BY <1>1, PanelsInit, PanelsStep, PTL DEF Spec

(* What a patient admin makes a panel write and send is what the server    *)
(* takes: OnlyValid, for any flags, rules, buckets and limits.  It covers  *)
(* the default a flag's dialog gives, not one typed over it; limits of any *)
(* length, repetition and family, with any plan, are refused for a rate    *)
(* above its ceiling or an entry that is no address alone; and settings    *)
(* are saved over fields that were checked, as no click comes between.     *)
THEOREM OnlyValidIsSent == Spec => []OnlyValid
  <1>1. PanelsInv => OnlyValid
    BY BkHolds, RuleHolds, FormHolds, LimHolds DEF PanelsInv, OnlyValid
  <1> QED
    BY <1>1, PanelsInit, PanelsStep, PTL DEF Spec
=============================================================================
