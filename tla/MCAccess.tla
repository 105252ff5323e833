------------------------------ MODULE MCAccess ------------------------------
(* The members' side of the hosted server: five machines that share no state, so each behaviour is *)
(* one of theirs.  Of the rate limiter: two keys, and a window that is no whole number of seconds, *)
(* so that rounding matters.                                                                       *)
EXTENDS Access, OwnClient, OAuthStates, Defensives, RateLimiter, TLC

CONSTANTS b1, b2, r1, r2, k1, k2
MCSymmetry == Permutations({b1, b2}) \union Permutations({r1, r2}) \union Permutations({k1, k2})

VARIABLE part

all == <<part, accessVars, clientVars, oauthVars, defensivesVars, vars>>

MCInit ==
    /\ part \in {"access", "client", "oauth", "defensives", "limiter"}
    /\ IF part = "access" THEN AccessInit ELSE AccessInit /\ config = [open |-> FALSE, guild |-> FALSE]
    /\ IF part = "client" THEN ClientInit ELSE ClientInit /\ takes = {}
    /\ OAuthInit /\ Init
    /\ IF part = "defensives" THEN DefensivesInit
       ELSE DefensivesInit /\ \A k \in TableKey, s \in Spell : shipped[k][s] = None

MCNext ==
    /\ UNCHANGED part
    /\ \/ part = "access" /\ AccessNext /\ UNCHANGED <<clientVars, oauthVars, defensivesVars, vars>>
       \/ part = "client" /\ ClientNext /\ UNCHANGED <<accessVars, oauthVars, defensivesVars, vars>>
       \/ part = "oauth" /\ OAuthNext /\ UNCHANGED <<accessVars, clientVars, defensivesVars, vars>>
       \/ part = "defensives" /\ DefensivesNext /\ UNCHANGED <<accessVars, clientVars, oauthVars, vars>>
       \/ part = "limiter" /\ Next /\ UNCHANGED <<accessVars, clientVars, oauthVars, defensivesVars>>

MCSpec == MCInit /\ [][MCNext]_all
=============================================================================
