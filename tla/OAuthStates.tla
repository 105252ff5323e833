---------------------------- MODULE OAuthStates ----------------------------
(***************************************************************************)
(* The pending sign-ins (hosted/oauth-state.ts): a state goes to Discord   *)
(* and back in the URL, its nonce stays in a cookie of the browser, which  *)
(* keeps the newest one only.  A callback may bring any state, in any      *)
(* browser, any number of times (the URL is in its history).  One that     *)
(* passes then awaits Discord, and its answer clears the cookie, whatever  *)
(* the cookie holds by then (routes-auth.ts:54).  Linking Battle.net uses  *)
(* the same class, its nonces bound to the member, and clears its cookie   *)
(* on a refusal too (routes-bnet.ts:51-58).                                *)
(***************************************************************************)
EXTENDS Integers, Sequences, FiniteSets

CONSTANTS
    Player,     \* browsers
    MaxPending, \* MAX_PENDING_STATES
    Ttl,        \* OAUTH_STATE_TTL_MS
    MaxIssued,  \* bound: states issued
    MaxNow      \* bound: time

ASSUME OAuthConstants ==
    MaxPending \in Nat \ {0} /\ Ttl \in Nat \ {0} /\ MaxIssued \in Nat /\ MaxNow \in Nat

VARIABLES
    clock,
    pending,  \* the Map: [state, expires]; it keeps them as they were issued, by their numbers
    issued,   \* issued[n]: the browser and the time of state n, and of its nonce
    nonce,    \* the nonce in each browser's cookie; 0: none
    passed,   \* the callbacks that passed: [state, player, answered]
    disturbed \* ghost: the browser's last sign-in began while one of its callbacks awaited its
              \* answer, or the player has said no since

oauthVars == <<clock, pending, issued, nonce, passed, disturbed>>

OAuthTypeOK ==
    /\ clock \in 0..MaxNow
    /\ pending \subseteq [state: 1..MaxIssued, expires: Nat]
    /\ issued \in Seq([player: Player, at: 0..MaxNow])
    /\ nonce \in [Player -> 0..MaxIssued]
    /\ passed \in Seq([state: 1..MaxIssued, player: Player, answered: BOOLEAN])
    /\ disturbed \in [Player -> BOOLEAN]

OAuthInit ==
    /\ clock = 0 /\ pending = {} /\ issued = <<>> /\ passed = <<>>
    /\ nonce = [p \in Player |-> 0]
    /\ disturbed = [p \in Player |-> FALSE]

\* The states that have not expired, and of those the newest MaxPending - 1.
Live(q) == {e \in q : e.expires > clock}
Newer(q, e) == {f \in q : f.state > e.state}
EvictedNewest(q) == {e \in q : Cardinality({f \in q : f.state < e.state}) < MaxPending - 1} \* mutant
Evicted(q) == {e \in q : Cardinality(Newer(q, e)) < MaxPending - 1}

\* A callback of the browser's has passed, and awaits Discord.
UnderWay(p) == \E i \in DOMAIN passed : passed[i].player = p /\ ~passed[i].answered

\* GET /auth/discord: a state, and its nonce over the one the cookie held.
Issue(p) ==
    LET n == Len(issued) + 1 IN
    /\ n <= MaxIssued
    /\ pending' = Evicted(Live(pending)) \union {[state |-> n, expires |-> clock + Ttl]}
    /\ issued' = Append(issued, [player |-> p, at |-> clock])
    /\ nonce' = [nonce EXCEPT ![p] = n]
    /\ disturbed' = [disturbed EXCEPT ![p] = UnderWay(p)]
    /\ UNCHANGED <<clock, passed>>

EntryOf(n) == {e \in pending : e.state = n}
Dropped(n) == pending \ EntryOf(n)

Passes(p, n) == nonce[p] = n /\ \E e \in EntryOf(n) : e.expires > clock

\* A callback whose state passes: the state is dropped before the first await, the cookie stays.
Consume(p, n) ==
    /\ Passes(p, n)
    /\ pending' = Dropped(n)
    /\ passed' = Append(passed, [state |-> n, player |-> p, answered |-> FALSE])
    /\ UNCHANGED <<clock, issued, nonce, disturbed>>

\* Its answer, after the awaits, whatever they gave: it clears the cookie.
Answer(i) ==
    /\ ~passed[i].answered
    /\ passed' = [passed EXCEPT ![i].answered = TRUE]
    /\ nonce' = [nonce EXCEPT ![passed[i].player] = 0]
    /\ UNCHANGED <<clock, pending, issued, disturbed>>

\* A refused one: an expired state is dropped; another browser's, or an older one's, is kept.
TurnAway(p, n) ==
    /\ nonce[p] # 0 /\ \E e \in EntryOf(n) : e.expires <= clock
    /\ pending' = Dropped(n)
    /\ UNCHANGED <<clock, issued, nonce, passed, disturbed>>

\* The player says no at Discord: the cookie is cleared, the state stays.
Cancel(p) ==
    /\ nonce[p] # 0
    /\ nonce' = [nonce EXCEPT ![p] = 0]
    /\ disturbed' = [disturbed EXCEPT ![p] = TRUE]
    /\ UNCHANGED <<clock, pending, issued, passed>>

Advance ==
    /\ clock < MaxNow /\ clock' = clock + 1
    /\ UNCHANGED <<pending, issued, nonce, passed, disturbed>>

OAuthNext ==
    \/ \E p \in Player :
        \/ Issue(p) \/ Cancel(p)
        \/ \E n \in 1..Len(issued) : Consume(p, n) \/ TurnAway(p, n)
    \/ \E i \in DOMAIN passed : Answer(i)
    \/ Advance

OAuthSpec == OAuthInit /\ [][OAuthNext]_oauthVars

-----------------------------------------------------------------------------
LastOf(p, n) == issued[n].player = p /\ \A m \in DOMAIN issued : issued[m].player = p => m <= n
HasPassed(n) == \E i \in DOMAIN passed : passed[i].state = n

\* A sign-in passes once, in the browser that began it and in its time (oauth-state.ts:25); and
\* the one a browser began last has passed or will, when it comes back in time, whatever the others
\* begin meanwhile and whatever older callbacks the browser brings, unless they begin so many that
\* the cap evicts it (oauth-state.ts:16).  It is lost when the browser began it with a callback
\* under way, whose answer clears the new nonce, or when the player has said no since.
LatestPasses ==
    /\ \A i \in DOMAIN passed :
        /\ passed[i].player = issued[passed[i].state].player
        /\ \A j \in DOMAIN passed : passed[j].state = passed[i].state => i = j
    /\ \A p \in Player, n \in DOMAIN issued :
        (LastOf(p, n) /\ ~disturbed[p] /\ clock < issued[n].at + Ttl /\ Len(issued) - n < MaxPending)
        => Passes(p, n) \/ HasPassed(n)
=============================================================================
