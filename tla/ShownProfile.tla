---------------------------- MODULE ShownProfile ----------------------------
(***************************************************************************)
(* The profile the candidate page shows (web/src/App.tsx): the tabs, the   *)
(* active one, the payloads kept for them, the address, and the calls to   *)
(* the history that are on their way.  Every handler and every answer of a *)
(* call is one step; what an answer leads to is noted in the call.         *)
(*                                                                         *)
(* The history is the set of its keys: which of them comes first, and what *)
(* a payload holds, are left out, and so are the other pages, where no     *)
(* profile is active.  A click is rendered at once, an answer later, and   *)
(* the effects of a render have run before the next one.                   *)
(***************************************************************************)
EXTENDS Naturals, FiniteSets

CONSTANTS
    Key,   \* keys of the history
    None,  \* no key
    Slot,  \* bound: calls at a time
    MaxDone \* bound: what the member and the world do

ASSUME ProfileConstants == None \notin Key /\ MaxDone \in Nat

VARIABLES
    history, \* the server's
    page,
    call,
    done     \* how much was done

profileVars == <<history, page, call, done>>

\* ref: the active key of the last render (activeKeyRef); tick: touched since; due: the effect of
\* that render has not run.  Ghosts: failed, a request for the active payload failed since the key
\* is active; dropped, the payload went since the last touch; lagged, the address follows an
\* older render than the active key.
Pages == [tabs: SUBSET Key, active: Key \union {None}, ref: Key \union {None}, url: Key \union {None},
          cache: SUBSET Key, tick: BOOLEAN, due: BOOLEAN,
          failed: BOOLEAN, dropped: BOOLEAN, lagged: BOOLEAN]

\* key: what is asked for, or the tab a re-evaluation replaces; flag: the closed tab was active
\* (then close), the result came from the cache (then result); seen: the answer.
Calls == [kind: {"none", "history", "entry", "lookup", "remove", "clear"}, key: Key \union {None},
          then: {"none", "boot", "show", "fallback", "heal", "reload", "close", "result", "reevaluate"},
          flag: BOOLEAN, served: BOOLEAN, seen: SUBSET Key]
Request(kind, key, then, flag) ==
    [kind |-> kind, key |-> key, then |-> then, flag |-> flag, served |-> FALSE, seen |-> {}]
NoCall == Request("none", None, "none", FALSE)

ProfileTypeOK == history \subseteq Key /\ page \in Pages /\ call \in [Slot -> Calls] /\ done \in 0..MaxDone

ProfileInit ==
    /\ history \in SUBSET Key
    /\ page = [tabs |-> {}, active |-> None, ref |-> None, url |-> None, cache |-> {},
               tick |-> FALSE, due |-> FALSE, failed |-> FALSE, dropped |-> FALSE, lagged |-> FALSE]
    /\ \E s \in Slot : call = [r \in Slot |-> IF r = s THEN Request("history", None, "boot", FALSE) ELSE NoCall]
    /\ done = 0

-----------------------------------------------------------------------------
(* What a handler does to the page.                                        *)

Touch(p) == [p EXCEPT !.tick = TRUE, !.dropped = FALSE]

Activate(p, k) ==
    IF k = p.active THEN p ELSE [p EXCEPT !.active = k, !.failed = FALSE, !.dropped = FALSE]

\* setActiveKey, and the address that names the profile.
Shows(p, k) == [Activate(p, k) EXCEPT !.url = k, !.lagged = FALSE]

Caches(p, k) == [Touch(p) EXCEPT !.cache = @ \union {k}, !.failed = @ /\ k # p.active]
Forgets(p, K) == [p EXCEPT !.cache = @ \ K, !.dropped = @ \/ p.active \in p.cache \intersect K]
Lists(p, K) == Forgets([p EXCEPT !.tabs = K], p.cache \ K)

\* The render, and whether the self-heal effect runs after it.
HealsOnKey(p) == p.active # p.ref \* mutant: not after a touch
HealsOn(p) == p.active # p.ref \/ p.tick
Rendered(p) == [p EXCEPT !.ref = p.active, !.tick = FALSE, !.due = HealsOn(p)]

\* fetchPayload: the cached payload, or a call.
Fetched(p, k, then) == IF k \in p.cache \union {None} THEN NoCall ELSE Request("entry", k, then, FALSE)

\* The address leaves the missing key if the last render showed it; so does the active key.
LandsAlways(p, k) == TRUE \* mutant
Lands(p, k) == p.ref = k
LandOn(p, from, to) ==
    LET landed == [p EXCEPT !.url = IF Lands(p, from) THEN to ELSE @,
                            !.lagged = @ \/ (p.ref = from) # (p.active = from)]
    IN  IF p.active = from THEN Activate(landed, to) ELSE landed

-----------------------------------------------------------------------------
(* The member.                                                             *)

Free(s) == call[s].kind = "none"
Sends(s, request) == call' = [call EXCEPT ![s] = request]

OpenProfile(s, k) ==
    /\ Free(s) /\ k \in page.tabs /\ ~page.due
    /\ page' = Rendered(Shows(page, k))
    /\ Sends(s, Fetched(page, k, "show"))
    /\ UNCHANGED history

\* A lookup or a Refresh; the server finds the key.
LookUp(s) ==
    /\ Free(s) /\ Sends(s, Request("lookup", None, "none", FALSE))
    /\ UNCHANGED <<history, page>>

\* The profile of the last render again, for the member's own level, which may be "auto".
Reevaluate(s) ==
    /\ Free(s) /\ page.ref \in page.tabs \intersect page.cache
    /\ Sends(s, Request("lookup", page.ref, "reevaluate", FALSE))
    /\ UNCHANGED <<history, page>>

CloseTab(s, k) ==
    /\ Free(s) /\ k \in page.tabs
    /\ Sends(s, Request("remove", k, "close", k = page.ref))
    /\ UNCHANGED <<history, page>>

ClearAll(s) ==
    /\ Free(s) /\ page.tabs # {}
    /\ Sends(s, Request("clear", None, "none", FALSE))
    /\ UNCHANGED <<history, page>>

\* An analysis or a table edit has ended: every other payload goes, the active one is asked for.
ReloadActive(s) ==
    /\ Free(s)
    /\ LET p == Forgets(page, page.cache \ {page.ref}) IN
       IF page.ref = None THEN page' = Touch(p) /\ UNCHANGED call
       ELSE page' = p /\ Sends(s, Request("entry", page.ref, "reload", FALSE))
    /\ UNCHANGED history

\* The clipboard watcher has looked a character up (the `result` event).
Watched(s, k, fromCache) ==
    /\ Free(s) /\ history' = history \union {k}
    /\ Sends(s, Request("history", k, "result", fromCache))
    /\ UNCHANGED page

Render ==
    /\ page.tick \/ page.active # page.ref
    /\ ~page.due
    /\ page' = Rendered(page)
    /\ UNCHANGED <<history, call>>

SelfHeal(s) ==
    /\ page.due /\ Free(s)
    /\ page' = [page EXCEPT !.due = FALSE, !.dropped = FALSE]
    /\ Sends(s, Fetched(page, page.ref, "heal"))
    /\ UNCHANGED history

-----------------------------------------------------------------------------
(* The server.                                                             *)

Serves(s, h, seen) ==
    /\ ~Free(s) /\ ~call[s].served
    /\ history' = h
    /\ call' = [call EXCEPT ![s].served = TRUE, ![s].seen = seen]
    /\ UNCHANGED page

Serve(s) ==
    \/ call[s].kind = "history" /\ Serves(s, history, history)
    \/ call[s].kind = "entry" /\ Serves(s, history, history \intersect {call[s].key})
    \/ call[s].kind = "lookup" /\ \E k \in Key : Serves(s, history \union {k}, {k})
    \/ call[s].kind = "remove" /\ Serves(s, history \ {call[s].key}, {})
    \/ call[s].kind = "clear" /\ Serves(s, {}, {})

\* The cap, another window of the member, a restart of the local server.
Evict(k) ==
    /\ k \in history /\ history' = history \ {k}
    /\ UNCHANGED <<page, call>>

-----------------------------------------------------------------------------
(* The answers.                                                            *)

Goes(s, p, request) == page' = p /\ Sends(s, request) /\ UNCHANGED history
First(K) == IF K = {} THEN {None} ELSE K

\* GET /api/history (fetchHistory), and what its caller goes on with.
ListArrives(s, p, items) ==
    LET c == call[s] IN
    CASE c.then = "none" -> Goes(s, p, NoCall)
      [] c.then = "reload" -> Goes(s, Touch(p), NoCall)
      [] c.then = "boot" \/ (c.then = "close" /\ c.flag) ->
            \E k \in First(items) :
                IF k = None /\ c.then = "boot" THEN Goes(s, p, NoCall)
                ELSE Goes(s, Shows(p, k), Fetched(p, k, "show"))
      [] c.then = "close" /\ ~c.flag -> Goes(s, p, NoCall)
      [] c.then = "show" ->
            \E k \in First(items) : Goes(s, LandOn(p, c.key, k), Fetched(p, k, "fallback"))
      [] c.then = "fallback" -> Goes(s, LandOn(p, c.key, None), NoCall)
      [] c.then = "result" ->
            LET q == IF c.flag THEN p ELSE Forgets(p, {c.key}) IN
            Goes(s, Shows(q, c.key), Fetched(q, c.key, "show"))
      [] c.then = "reevaluate" -> Goes(s, p, Request("remove", c.key, "reevaluate", FALSE))

HistoryArrives(s, ok) ==
    /\ call[s].kind = "history"
    /\ IF ok THEN ListArrives(s, Lists(page, call[s].seen), call[s].seen) ELSE ListArrives(s, page, {})

\* GET /api/history/:key; a missing entry is answered by the history.
EntryArrives(s, ok) ==
    LET c == call[s] IN
    /\ c.kind = "entry"
    /\ IF ok /\ c.seen # {} THEN Goes(s, Caches(page, c.key), NoCall)
       ELSE Goes(s, [page EXCEPT !.failed = @ \/ page.active = c.key],
                 Request("history", c.key, IF c.then = "heal" THEN "none" ELSE c.then, FALSE))

\* POST /api/lookup: the result is shown before the history is read again.
LookupArrives(s, ok) ==
    LET c == call[s] IN
    /\ c.kind = "lookup"
    /\ IF ok THEN \E k \in c.seen : Goes(s, Shows(Caches(page, k), k), Request("history", c.key, c.then, FALSE))
       ELSE Goes(s, page, NoCall)

\* DELETE: whether it succeeded is not looked at.
RemoveArrives(s) ==
    LET c == call[s] IN
    \/ /\ c.kind = "remove"
       /\ Goes(s, Forgets(page, {c.key}),
               IF c.then = "close" THEN Request("history", c.key, "close", c.flag) ELSE Request("history", None, "none", FALSE))
    \/ /\ c.kind = "clear"
       /\ Goes(s, Shows(Forgets(page, page.cache), None), Request("history", None, "none", FALSE))

\* A call that fails may or may not have been served.
Arrives(s, ok) ==
    /\ ok => call[s].served
    /\ HistoryArrives(s, ok) \/ EntryArrives(s, ok) \/ LookupArrives(s, ok) \/ RemoveArrives(s)

\* What nobody has to do, and what follows.
Does ==
    \/ \E s \in Slot :
        \/ LookUp(s) \/ Reevaluate(s) \/ ClearAll(s) \/ ReloadActive(s) \/ Arrives(s, FALSE)
        \/ \E k \in Key : OpenProfile(s, k) \/ CloseTab(s, k) \/ \E cached \in BOOLEAN : Watched(s, k, cached)
    \/ \E k \in Key : Evict(k)
Proceeds == Render \/ \E s \in Slot : SelfHeal(s) \/ Serve(s) \/ Arrives(s, TRUE)

ProfileNext ==
    \/ Does /\ done < MaxDone /\ done' = done + 1
    \/ Proceeds /\ UNCHANGED done

ProfileSpec == ProfileInit /\ [][ProfileNext]_profileVars

-----------------------------------------------------------------------------
\* When nothing is on its way, the active profile is there, unless its own request failed, which
\* the member was told: a payload that went (a reload, a closed tab, a history read before it) is
\* asked for again at the next change of the key or of the payloads (App.tsx:340-344).
AtRest == (\A s \in Slot : Free(s)) /\ ~page.due /\ ~page.tick /\ page.active = page.ref
Heals == AtRest /\ page.active \notin page.cache \union {None} => page.failed \/ page.dropped

\* The address names the profile that is shown, not the evicted one it asked for (App.tsx:268),
\* whatever the member opened while the answers were on their way; only a landing that comes
\* before the render of another one's may leave it behind.
UrlShown == page.url = page.active \/ page.lagged

\* App.tsx:448, "runLookup activated the new key; the old entry is redundant now": what a
\* re-evaluation removes from the history is not the profile the page shows.
OldIsRedundant ==
    \A s \in Slot : call[s].kind = "remove" /\ call[s].then = "reevaluate" => call[s].key # page.active
=============================================================================
