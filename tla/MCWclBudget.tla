----------------------------- MODULE MCWclBudget -----------------------------
(* Two request slots of two users, one of them an admin. *)
EXTENDS WclBudget, TLC

CONSTANTS alice, root, r1, r2

MCUserOf == (r1 :> alice) @@ (r2 :> root)
=============================================================================
