-------------------------- MODULE MCReleaseStream ---------------------------
(***************************************************************************)
(* One server process, two admin requests and the SDK connections of one   *)
(* environment, each with a key and with a channel of one update.          *)
(***************************************************************************)
EXTENDS ReleaseStream, TLC

CONSTANTS dev, pA, any

MCSlugOf == dev :> "dev"
MCProjectOf == dev :> pA
MCKeyOf == [c \in Streams |-> c]
MCEnvOf == [c \in Streams \union Clients |-> dev]
MCBootConfig == pA :> [flags |-> 1, rules |-> 0]
MCSeed == {ReleaseRow(dev, 1, [flags |-> 1, rules |-> 0], "old server")}

Symmetry == Permutations(Reqs) \union Permutations(Streams)
=============================================================================
