---------------------------- MODULE MCUserHistory ----------------------------
(* A small team. *)
EXTENDS UserHistory, TLC

CONSTANTS u1, u2, w1, l1, l2, l3
MCUser == {u1, u2}
MCWho == {w1}
MCLevel == {l1, l2, l3}
LevelSymmetry == Permutations(MCLevel)

\* Either nobody re-evaluates a payload, or it is done for two rows in a shorter time.
VARIABLE part
MCInit == part \in {"tabs", "reads"} /\ Init
MCNext ==
    /\ Next /\ UNCHANGED part
    /\ part = "tabs" => reads' = {}
    /\ part = "reads" => now' <= 1 /\ Cardinality(rows') <= 2
MCSpec == MCInit /\ [][MCNext]_<<vars, part>>

=============================================================================
