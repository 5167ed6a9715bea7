------------------------------- MODULE MCPurge -------------------------------
EXTENDS Purge

MCKeyOf == [e \in Events |-> e]
MCDefaults == [raw |-> 2, rollup |-> 3]
MCRowEdits == {[raw |-> 2, rollup |-> 1]}
=============================================================================
