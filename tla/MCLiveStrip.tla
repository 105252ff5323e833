----------------------------- MODULE MCLiveStrip -----------------------------
(* Instances of LiveStrip: rosters of one and two frames, and one that is    *)
(* too large to be drawn.                                                     *)
EXTENDS LiveStrip
MCText == {"solo", "pair", "crowd"}
MCChunks == [t \in MCText |-> CASE t = "solo" -> 1 [] t = "crowd" -> 3 [] OTHER -> 2]
=============================================================================
