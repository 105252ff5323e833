----------------------------- MODULE MCBnetLink -----------------------------
(* Two members, two accounts. *)
EXTENDS BnetLink, TLC

CONSTANTS alice, bob, acc1, acc2, x, y, t1, t2

MCAccountOf == (x :> acc1) @@ (y :> acc2)
Symmetries == Permutations(User) \union Permutations(Tab)
=============================================================================
