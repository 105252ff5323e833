--------------------------- MODULE SlidingWindow ----------------------------
(***************************************************************************)
(* What a rate limiter of src/hosted/ratelimit.ts promises the callers of  *)
(* hit: a request is accepted exactly when fewer than Limit requests of    *)
(* its key were accepted in the last Window, and a burst of refusals is    *)
(* reported as first once.  Nothing is ever forgotten here; the limiter    *)
(* prunes and sweeps, and must not be told apart from this.                *)
(***************************************************************************)
EXTENDS Integers, Sequences

CONSTANTS Key, Limit, Window

VARIABLES
    now,        \* the clock the caller passes
    accepted,   \* [Key -> Seq(Nat)]: when each accepted request came
    bursting,   \* keys refused since they were last accepted
    verdict     \* what the last call of hit returned

avars == <<now, accepted, bursting, verdict>>

Silent == [key |-> "none", ok |-> TRUE, first |-> FALSE]

AInit ==
    /\ now = 0 /\ bursting = {} /\ verdict = Silent
    /\ accepted = [k \in Key |-> <<>>]

\* Fewer than Limit accepted requests are younger than Window: the Limit-th youngest
\* is old enough, or there is none.
HasRoom(k) ==
    LET n == Len(accepted[k])
    IN  n < Limit \/ accepted[k][n - Limit + 1] + Window <= now

AAccept(k) ==
    /\ HasRoom(k)
    /\ accepted' = [accepted EXCEPT ![k] = Append(@, now)]
    /\ bursting' = bursting \ {k}
    /\ verdict' = [key |-> k, ok |-> TRUE, first |-> FALSE]
    /\ UNCHANGED now

ARefuse(k) ==
    /\ ~HasRoom(k)
    /\ bursting' = bursting \union {k}
    /\ verdict' = [key |-> k, ok |-> FALSE, first |-> k \notin bursting]
    /\ UNCHANGED <<now, accepted>>

ATick == now' > now /\ UNCHANGED <<accepted, bursting, verdict>>

ANext == ATick \/ \E k \in Key : AAccept(k) \/ ARefuse(k)

ASpec == AInit /\ [][ANext]_avars
=============================================================================
