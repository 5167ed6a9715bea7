------------------------------- MODULE MCStats -------------------------------
EXTENDS Stats

MCKeyOf == [e \in Events |-> e]
MCDefaults == [raw |-> 4, rollup |-> 4]
MCEnvDefaults == [raw |-> 1, rollup |-> 3]
MCBodies == {[raw |-> Absent, rollup |-> 2]}

\* rollups shorter than raw rows, given or by the default that replaces raw = 5
MCRowEdits == {[raw |-> 2, rollup |-> 1], [raw |-> 5, rollup |-> 3]}
=============================================================================
