---------------------------- MODULE MCFlagCache -----------------------------
(***************************************************************************)
(* Small instances: the cache of one process, flags edited by two.        *)
(***************************************************************************)
EXTENDS FlagCache, TLC

Symmetry == Permutations(Ids) \union Permutations(Names)
              \union Permutations(Lookups)
=============================================================================
