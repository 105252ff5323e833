----------------------------- MODULE RateLimiter -----------------------------
(***************************************************************************)
(* The in-memory rate limiter of the hosted service: RateLimiter.hit and   *)
(* RateLimiter.sweep (src/hosted/ratelimit.ts).  One limiter serves a      *)
(* surface (/auth per IP, lookups per user, ...); keys do not share state. *)
(***************************************************************************)
EXTENDS Integers, Sequences

CONSTANTS
    Key,        \* IPs or user ids
    Limit,      \* rule.limit
    Window,     \* rule.windowMs
    Second,     \* a second, in the units of the clock: retryAfterS is in seconds
    MaxTime,    \* bound: the clock
    MaxHits     \* bound: accepted hits per key

ASSUME LimiterConstants ==
    /\ Limit \in Nat \ {0} /\ Window \in Nat \ {0} /\ Second \in Nat \ {0}
    /\ MaxTime \in Nat /\ MaxHits \in Nat

VARIABLES
    now,        \* the clock
    hits,       \* the Map: accepted hit timestamps of the keys it holds
    keys,       \* the keys the Map holds
    refusing,   \* keys whose last verdict was a refusal
    verdict,    \* what the last hit returned, and when
    accepted,   \* ghost: every accepted hit of each key, never pruned
    bursting    \* ghost: keys refused since they were last accepted, never swept

vars == <<now, hits, keys, refusing, verdict, accepted, bursting>>

Silent == [key |-> "none", ok |-> TRUE, first |-> FALSE, retryAfter |-> 0, at |-> 0]

\* A refusal always asks to wait: retryAfterS is at least a second.
Verdicts ==
    [key: Key \union {"none"}, ok: {TRUE}, first: {FALSE}, retryAfter: {0}, at: Nat]
      \union [key: Key, ok: {FALSE}, first: BOOLEAN, retryAfter: Nat \ {0}, at: Nat]

TypeOK ==
    /\ now \in Nat
    /\ hits \in [Key -> Seq(Nat)] /\ accepted \in [Key -> Seq(Nat)]
    /\ keys \subseteq Key /\ refusing \subseteq Key /\ bursting \subseteq Key
    /\ verdict \in Verdicts

Init ==
    /\ now = 0
    /\ hits = [k \in Key |-> <<>>] /\ accepted = hits
    /\ keys = {} /\ refusing = {} /\ bursting = {}
    /\ verdict = Silent

-----------------------------------------------------------------------------

\* t has left the window: t <= now - windowMs.
ExpiredEarly(t) == t + Window <= now + 1                    \* mutant of Expired
Expired(t) == t + Window <= now

\* What hit's while loop drops: the longest prefix of expired timestamps.
Drops(list, drop) ==
    /\ \A i \in 1..drop : Expired(list[i])
    /\ drop < Len(list) => ~Expired(list[drop + 1])

Rest(list, drop) == SubSeq(list, drop + 1, Len(list))

Ceil(n, d) == (n + d - 1) \div d

\* Math.max(1, Math.ceil((oldest + windowMs - now) / 1000)), in seconds.
RetryAfterFloor(oldest) == (oldest + Window - now) \div Second    \* mutant of RetryAfter
RetryAfter(oldest) ==
    LET s == Ceil(oldest + Window - now, Second)
    IN  IF s < 1 THEN 1 ELSE s

Refuse(k, list) ==
    /\ Len(list) >= Limit
    /\ hits' = [hits EXCEPT ![k] = list]
    /\ keys' = keys \union {k}
    /\ verdict' = [key |-> k, ok |-> FALSE, first |-> k \notin refusing,
                   retryAfter |-> RetryAfter(list[1]), at |-> now]
    /\ refusing' = refusing \union {k}
    /\ bursting' = bursting \union {k}
    /\ UNCHANGED <<now, accepted>>

Accept(k, list) ==
    /\ Len(list) < Limit
    /\ Len(accepted[k]) < MaxHits
    /\ hits' = [hits EXCEPT ![k] = Append(list, now)]
    /\ keys' = keys \union {k}
    /\ verdict' = [key |-> k, ok |-> TRUE, first |-> FALSE, retryAfter |-> 0, at |-> now]
    /\ refusing' = refusing \ {k}
    /\ bursting' = bursting \ {k}
    /\ accepted' = [accepted EXCEPT ![k] = Append(@, now)]
    /\ UNCHANGED now

Hit(k) ==
    \E drop \in 0..Len(hits[k]) :
        /\ Drops(hits[k], drop)
        /\ Refuse(k, Rest(hits[k], drop)) \/ Accept(k, Rest(hits[k], drop))

\* The keys the hourly sweep forgets: no hit inside the window.
StaleAll(k) == k \in keys                                   \* mutant of Stale
Stale(k) == k \in keys /\ (hits[k] = <<>> \/ Expired(hits[k][Len(hits[k])]))

Sweep ==
    /\ hits' = [k \in Key |-> IF Stale(k) THEN <<>> ELSE hits[k]]
    /\ keys' = {k \in keys : ~Stale(k)}
    /\ refusing' = {k \in refusing : ~Stale(k)}
    /\ UNCHANGED <<now, verdict, accepted, bursting>>

Tick ==
    /\ now < MaxTime
    /\ now' = now + 1
    /\ UNCHANGED <<hits, keys, refusing, verdict, accepted, bursting>>

Next == Tick \/ Sweep \/ \E k \in Key : Hit(k)

Spec == Init /\ [][Next]_vars

-----------------------------------------------------------------------------
(* What the limiter promises.                                               *)

\* No window of length Window holds more than Limit accepted hits of a key, wherever
\* it starts and whatever the prunes and sweeps inside it (hit, ratelimit.ts:38-59).
WindowBound ==
    \A k \in Key : \A i \in 1..Len(accepted[k]) :
        i + Limit <= Len(accepted[k]) => accepted[k][i] + Window <= accepted[k][i + Limit]

\* A refused caller who waits retryAfterS, and no second less, finds room, if nobody
\* else hits the key meanwhile (ratelimit.ts:54).
RetryHonest ==
    ~verdict.ok =>
        LET log == accepted[verdict.key]
            freeAt == log[Len(log) - Limit + 1] + Window
            waited == verdict.at + verdict.retryAfter * Second
        IN  waited >= freeAt /\ waited - Second < freeAt

\* The limiter cannot be told apart from one that never prunes or sweeps: the same
\* verdicts, and `first` once per burst, so that a flood of refusals writes one audit
\* row (ratelimit.ts:5-6, 61-70).
W == INSTANCE SlidingWindow WITH
        verdict <- [key |-> verdict.key, ok |-> verdict.ok, first |-> verdict.first]
ImplementsWindow == W!ASpec

=============================================================================
