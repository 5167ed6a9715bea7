--------------------------- MODULE MCPublishFlow ----------------------------
(***************************************************************************)
(* One group, a flag in it, a rule and an experiment on the flag, and two  *)
(* environments to publish them in.                                        *)
(***************************************************************************)
EXTENDS PublishFlow

CONSTANTS dev, prod

MCEnvs == {dev, prod}
MCSymmetry == Permutations(MCEnvs)

MCSeed ==
    LET g == Live("group", 1) f == Live("flag", 2)
    IN [group |-> g :> [name |-> "old"],
        flag |-> f :> [key |-> "a", group |-> g, value |-> 0],
        rule |-> Live("rule", 3) :> [flag |-> f, value |-> 0],
        experiment |-> Live("experiment", 4) :> [flag |-> f, status |-> "draft"]]
=============================================================================
