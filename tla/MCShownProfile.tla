--------------------------- MODULE MCShownProfile ---------------------------
(* One page, two profiles, two calls at a time. *)
EXTENDS ShownProfile, TLC

CONSTANTS k1, k2, c1, c2

MCKey == {k1, k2}
MCSlot == {c1, c2}
ProfileSymmetry == Permutations(MCKey) \union Permutations(MCSlot)
=============================================================================
