------------------------------ MODULE Retention ------------------------------
(***************************************************************************)
(* The retention windows of one process (retention/retention.go and        *)
(* retention/api.go): how many days raw events live and how many days the  *)
(* daily rollups live. The process serves them from memory (current); one  *)
(* row of the collection retention_settings keeps them over a restart.     *)
(*                                                                         *)
(* A PUT reads the windows in memory, merges its body into them, writes    *)
(* the row and then installs the result, without a lock over the three.    *)
(* A superuser can also edit the row itself, where nothing validates it.   *)
(***************************************************************************)
EXTENDS Integers

CONSTANTS
    Putters,      \* PUT requests that can be in flight at once
    Bodies,       \* bodies a PUT may carry: a window is days, or Absent
    Absent,
    RowEdits,     \* what a superuser may write into the row
    Defaults,     \* the windows of the code
    EnvDefaults,  \* the same with the environment variables over them
    MinDays, MaxDays,
    CeilingDays,  \* the plan ceiling, MaxDays without one
    MaxChanges    \* bound: PUTs and edits of the row

ASSUME RetentionAssumption ==
    /\ MinDays \in Nat \ {0} /\ MaxDays \in Nat /\ MinDays <= MaxDays
    /\ CeilingDays \in Nat /\ MaxChanges \in Nat
    /\ Defaults.raw \in MinDays..MaxDays
    /\ Defaults.rollup \in Defaults.raw..MaxDays

VARIABLES
    current,   \* the windows in memory
    row,       \* the settings row
    put,       \* per PUT request: where it is, and the windows it installs
    changes    \* PUTs and edits so far

retentionVars == <<current, row, put, changes>>

Change == changes < MaxChanges /\ changes' = changes + 1

Idle == [pc |-> "idle"]

ValidateConfig(c) ==
    /\ c.raw    \in MinDays..MaxDays /\ c.raw    <= CeilingDays
    /\ c.rollup \in MinDays..MaxDays /\ c.rollup <= CeilingDays
    /\ c.rollup >= c.raw

ClampDays(v, default) ==
    CASE v \notin MinDays..MaxDays -> default
      [] v \in MinDays..MaxDays /\ v > CeilingDays ->
            IF CeilingDays < MinDays THEN default ELSE CeilingDays
      [] OTHER -> v

(* Mutant: the repair of rollup < raw is missing. *)
ClampEach(c) == [raw    |-> ClampDays(c.raw, Defaults.raw),
                 rollup |-> ClampDays(c.rollup, Defaults.rollup)]

ClampConfig(c) ==
    LET raw    == ClampDays(c.raw, Defaults.raw)
        rollup == ClampDays(c.rollup, Defaults.rollup)
    IN  [raw |-> raw, rollup |-> IF rollup < raw THEN raw ELSE rollup]

Loaded(r) ==
    ClampConfig([raw    |-> IF r.raw > 0 THEN r.raw ELSE EnvDefaults.raw,
                 rollup |-> IF r.rollup > 0 THEN r.rollup ELSE EnvDefaults.rollup])

\* The first start finds no row and seeds it with the unclamped defaults.
RetentionInit ==
    /\ current = ClampConfig(EnvDefaults)
    /\ row = EnvDefaults
    /\ put = [p \in Putters |-> Idle]
    /\ changes = 0

Merge(stored, body) == IF body = Absent THEN stored ELSE body

PutRead(p) ==
    /\ put[p].pc = "idle" /\ Change
    /\ \E b \in Bodies :
         LET next == [raw    |-> Merge(current.raw, b.raw),
                      rollup |-> Merge(current.rollup, b.rollup)]
         IN  /\ ValidateConfig(next)          \* otherwise 400
             /\ put' = [put EXCEPT ![p] = [pc |-> "save", next |-> next]]
    /\ UNCHANGED <<current, row>>

PutSave(p) ==
    /\ put[p].pc = "save"
    /\ row' = put[p].next
    /\ put' = [put EXCEPT ![p].pc = "apply"]
    /\ UNCHANGED <<current, changes>>

PutSaveFails(p) ==
    /\ put[p].pc = "save"
    /\ put' = [put EXCEPT ![p] = Idle]
    /\ UNCHANGED <<current, row, changes>>

PutApply(p) ==
    /\ put[p].pc = "apply"
    /\ current' = put[p].next
    /\ put' = [put EXCEPT ![p] = Idle]
    /\ UNCHANGED <<row, changes>>

\* The data API lets a superuser edit the row; memory does not follow.
RowEdit ==
    /\ Change
    /\ \E r \in RowEdits : row' = r
    /\ UNCHANGED <<current, put>>

Configure ==
    \/ \E p \in Putters : PutRead(p) \/ PutSave(p) \/ PutSaveFails(p) \/ PutApply(p)
    \/ RowEdit

Restart ==
    /\ current' = Loaded(row)
    /\ put' = [p \in Putters |-> Idle]
    /\ UNCHANGED <<row, changes>>

-----------------------------------------------------------------------------
WithinPlan(days) == days <= CeilingDays

(* Whatever mixture of partial PUTs, edits of the row and restarts came    *)
(* before, the windows the process works with are in range, rollups        *)
(* outlive the raw rows they were made from, and a window above the plan   *)
(* ceiling is there for one reason only: what stood in the row was out of  *)
(* range and the default of the code replaced it, which clampConfig does   *)
(* not narrow to the ceiling (or rollups had to follow such a default).    *)
RollupsOutliveRaw ==
    /\ current.raw \in MinDays..MaxDays
    /\ current.rollup \in current.raw..MaxDays
    /\ WithinPlan(current.raw) \/ current.raw = Defaults.raw
    /\ WithinPlan(current.rollup) \/ current.rollup \in {Defaults.rollup, current.raw}
=============================================================================
