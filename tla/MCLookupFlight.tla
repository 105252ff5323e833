--------------------------- MODULE MCLookupFlight ---------------------------
(* Three lookups of one key by two members. *)
EXTENDS LookupFlight, TLC

CONSTANTS alice, bob, c1, c2, c3

MCUserOf == (c1 :> alice) @@ (c2 :> bob) @@ (c3 :> bob)
=============================================================================
