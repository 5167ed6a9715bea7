------------------------------ MODULE FlagForms ------------------------------
(***************************************************************************)
(* The dialogs that edit a flag (flags.js) and an experiment               *)
(* (experiments.js).  One of them is open at a time.                       *)
(*                                                                         *)
(* The default of a flag is JSON in a text input, next to a type that can  *)
(* be changed.  The variants of an experiment are rows of name, weight and *)
(* values; weights are percents on the page and hundredths of them, bps,   *)
(* in the record, and the last one is what the others leave.               *)
(*                                                                         *)
(* A text is a pair of the type of JSON it is and its print; the type is   *)
(* "null" for an empty one and "bad" for one that cannot be read.  A       *)
(* weight is in thousandths of a percent, one digit more than is kept; an  *)
(* input that holds no number is Junk.                                     *)
(***************************************************************************)
EXTENDS Integers, Sequences, SequencesExt

CONSTANTS
    Flags,       \* stored flags: id -> key, type, default
    Experiments, \* stored experiments: id -> flag, variants
    Defaults,    \* texts typed as a default
    Keys,        \* texts typed as a key, ValidKeys those that are well-formed
    ValidKeys,
    VariantNames,\* texts typed as a name of a variant; "" is an empty one
    Weights,     \* weights typed
    Values,      \* texts typed as the values of a variant
    MAX_VARIANT_ROWS,
    NoId,
    MaxMoves     \* bound: edits and clicks

VARIABLE form

Types == {"bool", "number", "string", "json"}
VARIANTS_TOTAL == 10000
Junk == -1
Full == 100000       \* 100 %

-----------------------------------------------------------------------------
(* The flag dialog. *)

FLAG_TYPE_DEFAULTS ==
    [bool |-> <<"bool", "false">>, number |-> <<"number", "0">>, string |-> <<"string", "">>, json |-> <<"json", "{}">>]

flagDefaultMatchesType(text, type) == text[1] \in {"null", type}

parseJSONInput(text) == text[1] # "bad"
validFlagKey(key) == key \in ValidKeys

syncFlagDefaultForType(s, reset) ==
    IF ~reset /\ flagDefaultMatchesType(s.default, s.type) THEN s
    ELSE [s EXCEPT !.default = FLAG_TYPE_DEFAULTS[s.type]]

resetFlagForm(s) ==
    syncFlagDefaultForType(
        [s EXCEPT !.id = NoId, !.key = "", !.type = "bool", !.default = FLAG_TYPE_DEFAULTS["bool"], !.dirty = FALSE], TRUE)

openFlagDialog(s, id) ==
    LET filled == IF id = NoId THEN resetFlagForm(s)
                  ELSE syncFlagDefaultForType(
                         [s EXCEPT !.id = id, !.key = Flags[id].key, !.type = Flags[id].type,
                                   !.default = Flags[id].default], FALSE)
    IN [filled EXCEPT !.open = "flag", !.dirty = FALSE, !.typed = FALSE]

closeFlagDialog(s) == [s EXCEPT !.open = "none"]

saveFlag(s) ==
    IF ~parseJSONInput(s.default) \/ ~validFlagKey(s.key) THEN s
    ELSE closeFlagDialog([s EXCEPT !.dirty = FALSE,
              !.staged = [id |-> s.id, flag |-> NoId, variants |-> <<[name |-> s.key, weightBps |-> 0, values |-> s.default]>>]])

-----------------------------------------------------------------------------
(* Weights. *)

round2(m) == 10 * ((m + 5) \div 10)

bpsToPercent(bps) == 10 * bps
percentToBps(m) == (m + 5) \div 10

clampWeightInputDecimals(m) == IF m = Junk THEN m ELSE 10 * (m \div 10)
weightRawHasTooManyDecimals(m) == m % 10 # 0

SumTo(rows, n, W(_)) == FoldLeft(LAMBDA sum, row : sum + W(row), 0, SubSeq(rows, 1, n))
Number(row) == IF row.weight = Junk THEN 0 ELSE row.weight
Bps(row) == percentToBps(row.weight)

-----------------------------------------------------------------------------
(* The rows of variants. *)

addVariantRow(rows, name, weight, values) ==
    IF Len(rows) >= MAX_VARIANT_ROWS THEN rows
    ELSE Append(rows, [name |-> name, weight |-> weight, values |-> values])

(* The last weight cannot be typed. *)
refreshLastRowLock(rows) == {i \in DOMAIN rows : i # Len(rows)}

recalcLastVariantWeight(rows) ==
    LET n == Len(rows)
        clamped == [i \in DOMAIN rows |->
                       IF i < n THEN [rows[i] EXCEPT !.weight = clampWeightInputDecimals(@)] ELSE rows[i]]
        rest == Full - SumTo(clamped, n - 1, Number)
    IN IF n = 0 THEN rows ELSE [clamped EXCEPT ![n].weight = IF rest < 0 THEN 0 ELSE round2(rest)]

valuesTextFor(values) == values

(* One set of rules for the hint and for saving. *)
readAndValidateVariantRows(rows) ==
    /\ rows # <<>>
    /\ \A i \in DOMAIN rows :
          /\ rows[i].name # ""
          /\ rows[i].weight \in 0..Full /\ ~weightRawHasTooManyDecimals(rows[i].weight)
          /\ rows[i].values[1] # "bad"
          /\ \A j \in DOMAIN rows : i # j => rows[i].name # rows[j].name
    /\ SumTo(rows, Len(rows) - 1, Number) <= Full

updateExpVariantsHint(s) == [s EXCEPT !.hint = readAndValidateVariantRows(s.rows)]

(* The last row takes what the others leave, also of rounding. *)
applyVariantsBuilderToVariants(s) ==
    LET n == Len(s.rows)
        rest == Full - SumTo(s.rows, n - 1, Number)
        rows == [s.rows EXCEPT ![n].weight = rest]
        missing == VARIANTS_TOTAL - SumTo(rows, n, Bps)
        bps(i) == percentToBps(rows[i].weight) + (IF i = n THEN missing ELSE 0)
    IN IF ~readAndValidateVariantRows(s.rows) THEN [s EXCEPT !.hint = FALSE]
       ELSE updateExpVariantsHint(
              [s EXCEPT !.rows = rows,
                        !.variants = [i \in 1..n |-> [name |-> rows[i].name, weightBps |-> bps(i),
                                                      values |-> rows[i].values]]])

syncVariantsBuilderFromInput(s) ==
    [s EXCEPT !.rows = FoldLeft(LAMBDA rows, v :
                            addVariantRow(rows, v.name, bpsToPercent(v.weightBps), valuesTextFor(v.values)),
                        <<>>, s.variants)]

prefillValuesText(key, default) == IF key = "" THEN <<"null", "">> ELSE <<"json", key, default>>

resetVariantsBuilder(s, target) ==
    LET prefill == IF target = NoId THEN prefillValuesText("", <<>>)
                   ELSE prefillValuesText(Flags[target].key, Flags[target].default)
    IN [s EXCEPT !.rows = recalcLastVariantWeight(
            addVariantRow(addVariantRow(<<>>, "control", 50000, prefill), "treatment", 50000, prefill))]

balanceVariantsBuilder(rows) ==
    LET n == Len(rows)
        each == 10 * ((2 * (Full \div 10) + n) \div (2 * n))
        last == Full - each * (n - 1)
    IN IF n = 0 THEN rows ELSE [i \in 1..n |-> [rows[i] EXCEPT !.weight = IF i = n THEN last ELSE each]]

-----------------------------------------------------------------------------
(* The experiment dialog. *)

validateVariants(v) ==
    /\ v # <<>>
    /\ \A i \in DOMAIN v : v[i].name # "" /\ v[i].weightBps >= 0
    /\ \A i, j \in DOMAIN v : i # j => v[i].name # v[j].name
    /\ FoldLeft(LAMBDA sum, x : sum + x.weightBps, 0, v) = VARIANTS_TOTAL

(* The flag a new experiment is for: given, or the one still selected. *)
resolveTargetFlag(s, preset) == IF preset # NoId THEN preset ELSE s.flag

generateExperimentSeed(s) == [s EXCEPT !.seed = TRUE]

resetExperimentForm(s) ==
    updateExpVariantsHint(
        resetVariantsBuilder(generateExperimentSeed([s EXCEPT !.id = NoId, !.dirty = FALSE]),
                             resolveTargetFlag(s, NoId)))

fillExperimentForm(s, id) ==
    updateExpVariantsHint(syncVariantsBuilderFromInput(
        [s EXCEPT !.id = id, !.flag = Experiments[id].flag, !.seed = TRUE, !.variants = Experiments[id].variants]))

openExperimentDialog(s, id, preset) ==
    LET filled == IF id = NoId THEN resetExperimentForm([s EXCEPT !.flag = resolveTargetFlag(s, preset)])
                  ELSE fillExperimentForm(s, id)
    IN [filled EXCEPT !.open = "experiment", !.dirty = FALSE, !.typed = FALSE]

closeExperimentDialog(s) == [s EXCEPT !.open = "none"]

(* The rows are applied again before they are read. *)
saveExperiment(s) ==
    LET applied == applyVariantsBuilderToVariants(s)
    IN IF ~readAndValidateVariantRows(s.rows) \/ ~s.seed \/ s.flag = NoId THEN applied
       ELSE closeExperimentDialog([applied EXCEPT !.dirty = FALSE,
                !.staged = [id |-> s.id, flag |-> s.flag, variants |-> applied.variants]])

-----------------------------------------------------------------------------
Init ==
    form = [open |-> "none", id |-> NoId, key |-> "", type |-> "bool", default |-> FLAG_TYPE_DEFAULTS["bool"],
            flag |-> NoId, seed |-> FALSE, rows |-> <<>>, variants |-> <<>>, hint |-> TRUE,
            dirty |-> FALSE, typed |-> FALSE, staged |-> [id |-> NoId, flag |-> NoId, variants |-> <<>>], moves |-> 0]

Ready(open) == form.moves < MaxMoves /\ form.open = open
Edited(s) == [s EXCEPT !.moves = @ + 1, !.dirty = TRUE, !.typed = TRUE]
Move(s) == [s EXCEPT !.moves = @ + 1]

OpenFlag ==
    Ready("none") /\ \E id \in DOMAIN Flags \union {NoId} : form' = Move(openFlagDialog(form, id))

TypeKey == Ready("flag") /\ \E k \in Keys : form' = [Edited(form) EXCEPT !.key = k, !.typed = form.typed]

TypeDefault == Ready("flag") /\ \E d \in Defaults : form' = [Edited(form) EXCEPT !.default = d]

ChangeType ==
    /\ Ready("flag")
    /\ \E t \in Types \ {form.type} :
          form' = [syncFlagDefaultForType([Edited(form) EXCEPT !.type = t], FALSE) EXCEPT !.typed = FALSE]

ClearFlag == Ready("flag") /\ form' = Move(resetFlagForm([form EXCEPT !.typed = FALSE]))

SaveFlag == Ready("flag") /\ (form.dirty \/ form.id = NoId) /\ form' = Move(saveFlag(form))

CloseFlag == form.open = "flag" /\ form' = closeFlagDialog(form)

OpenExperiment ==
    /\ Ready("none")
    /\ \/ \E id \in DOMAIN Experiments : form' = Move(openExperimentDialog(form, id, NoId))
       \/ \E f \in DOMAIN Flags \union {NoId} : form' = Move(openExperimentDialog(form, NoId, f))

TypeVariant ==
    /\ Ready("experiment")
    /\ \E i \in DOMAIN form.rows :
          \/ \E n \in VariantNames \ {form.rows[i].name} :
                form' = updateExpVariantsHint([Edited(form) EXCEPT !.rows[i].name = n])
          \/ \E v \in Values : form' = updateExpVariantsHint([Edited(form) EXCEPT !.rows[i].values = v])
          \/ /\ i \in refreshLastRowLock(form.rows)
             /\ \E w \in Weights :
                   form' = updateExpVariantsHint(
                       [Edited(form) EXCEPT !.rows = recalcLastVariantWeight([form.rows EXCEPT ![i].weight = w])])

AddVariant ==
    /\ Ready("experiment")
    /\ form' = updateExpVariantsHint(
           [Edited(form) EXCEPT !.rows = recalcLastVariantWeight(addVariantRow(@, "", 0, <<"null", "">>))])

RemoveVariant ==
    /\ Ready("experiment")
    /\ \E i \in DOMAIN form.rows :
          form' = updateExpVariantsHint(
              [Edited(form) EXCEPT !.rows = recalcLastVariantWeight(RemoveAt(@, i))])

Balance ==
    /\ Ready("experiment") /\ form.rows # <<>>
    /\ form' = applyVariantsBuilderToVariants([Edited(form) EXCEPT !.rows = balanceVariantsBuilder(@)])

SelectFlag ==
    Ready("experiment") /\ \E f \in DOMAIN Flags \ {form.flag} : form' = [Edited(form) EXCEPT !.flag = f]

SaveExperiment ==
    Ready("experiment") /\ (form.dirty \/ form.id = NoId) /\ form' = Move(saveExperiment(form))

CloseExperiment == form.open = "experiment" /\ form' = closeExperimentDialog(form)

Next ==
    \/ OpenFlag \/ TypeKey \/ TypeDefault \/ ChangeType \/ ClearFlag \/ SaveFlag \/ CloseFlag
    \/ OpenExperiment \/ TypeVariant \/ AddVariant \/ RemoveVariant \/ Balance \/ SelectFlag
    \/ SaveExperiment \/ CloseExperiment

Spec == Init /\ [][Next]_form

-----------------------------------------------------------------------------
(* The flag dialog never opens with, and never switches to, a type its     *)
(* default is not of, which publishing would refuse; only what is typed    *)
(* after that can be.                                                      *)
DefaultOfType ==
    form.open = "flag" /\ ~form.typed => flagDefaultMatchesType(form.default, form.type)

(* Whatever was typed, added, removed and balanced, an experiment that is  *)
(* staged has variants the server takes: named, each once, with weights    *)
(* that are not negative and make up the whole.                            *)
StagedVariantsValid ==
    form.staged.flag # NoId => validateVariants(form.staged.variants)

(* An experiment of more variants than there are rows opens without those  *)
(* that are too many.                                                      *)
Cut(id) == id # NoId /\ Len(Experiments[id].variants) > MAX_VARIANT_ROWS

(* The weights that are shown are those that are saved, the last one too;  *)
(* and an experiment that was opened and not touched would be saved as it  *)
(* is stored.  Both unless it was cut: then the rows are the first of its  *)
(* variants, saving drops the others, and the last row takes their weight  *)
(* although it does not show it.                                           *)
WeightsShown ==
    form.open = "experiment" /\ readAndValidateVariantRows(form.rows) =>
        LET saved == applyVariantsBuilderToVariants(form).variants
        IN /\ ~Cut(form.id) =>
                 /\ \A i \in DOMAIN form.rows : saved[i].weightBps = percentToBps(form.rows[i].weight)
                 /\ ~form.typed /\ form.id # NoId => saved = Experiments[form.id].variants
           /\ ~form.typed /\ Cut(form.id) =>
                 LET stored == Experiments[form.id].variants
                     n == MAX_VARIANT_ROWS
                 IN /\ Front(saved) = SubSeq(stored, 1, n - 1)
                    /\ saved[n].weightBps = VARIANTS_TOTAL - FoldLeft(LAMBDA sum, v : sum + v.weightBps, 0, Front(saved))
=============================================================================
