----------------------------- MODULE MCReleases -----------------------------
(***************************************************************************)
(* Releases on a small instance: one project with two environments whose   *)
(* database already holds a release an older server wrote.                 *)
(***************************************************************************)
EXTENDS Releases, TLC

CONSTANTS dev, prod, pA, any

MCSlugOf == (dev :> "dev") @@ (prod :> "prod")
MCProjectOf == [e \in Envs |-> pA]
MCBootConfig == pA :> Empty

(* dev was released once; what prod holds is refused by today's validation. *)
MCSeed == {ReleaseRow(dev, 1, [flags |-> 1, rules |-> 0], "old server"),
           ReleaseRow(prod, 1, [flags |-> 1, rules |-> 2], "old server")}

Symmetry == Permutations(Reqs) \union Permutations(Procs)
=============================================================================
