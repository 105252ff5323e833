------------------------------ MODULE MCMember ------------------------------
(* What a member does at two pages that share no state: he links Battle.net, or he looks at    *)
(* profiles. One run checks both, each from its own initial states.                            *)
EXTENDS MCBnetLink, MCShownProfile

VARIABLE part

MCInit ==
    /\ part \in {"link", "profile"}
    /\ Init /\ ProfileInit
    /\ part = "link" => history = {}
MCNext ==
    /\ UNCHANGED part
    /\ \/ part = "link" /\ Next /\ UNCHANGED profileVars
       \/ part = "profile" /\ ProfileNext /\ UNCHANGED vars
MCSpec == MCInit /\ [][MCNext]_<<vars, profileVars, part>>
MCSymmetry == Symmetries \union ProfileSymmetry
=============================================================================
