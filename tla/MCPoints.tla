------------------------------ MODULE MCPoints ------------------------------
(* The points of the hour and one use of them that share no state: the accounting of every     *)
(* query, and the analysis of a run, which is paid for once. One run checks both, each from    *)
(* its own initial states.                                                                      *)
EXTENDS MCWclBudget, MCDeepDive

VARIABLE part

MCInit ==
    /\ part \in {"budget", "dive"}
    /\ Init /\ DiveInit
    /\ part = "budget" =>
          /\ fight = CHOOSE f \in Fight : TRUE
          /\ \A m \in Diver, s \in Spell : table[m][s] = Unlisted
MCNext ==
    /\ UNCHANGED part
    /\ \/ part = "budget" /\ Next /\ UNCHANGED diveVars
       \/ part = "dive" /\ DiveNext /\ UNCHANGED vars
MCSpec == MCInit /\ [][MCNext]_<<vars, diveVars, part>>
=============================================================================
