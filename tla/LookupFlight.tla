---------------------------- MODULE LookupFlight ----------------------------
(***************************************************************************)
(* Overlapping identical lookups: runLookupWithCache                       *)
(* (src/server/lookup.ts) and the steps of performLookup (src/lookup.ts).  *)
(*                                                                         *)
(* All calls here ask for the same character, level, spec and metric after *)
(* a miss of the history (UserHistory): they share one key of the map of   *)
(* flights, plus its "|control" twin for the lookups that also fetch crowd *)
(* control.  A flight is a running performLookup, named after the call     *)
(* that started it.  What the quota gate answers is WclBudget's subject:   *)
(* here it may refuse any reservation.                                     *)
(***************************************************************************)
EXTENDS Naturals, FiniteSets

CONSTANTS
    User,       \* members
    Call,       \* slots of concurrently running lookups
    UserOf,     \* [Call -> User]
    Mine,       \* the members whose own characters include this one
    Refreshers, \* bound: the slots that may be a Refresh
    NoCall      \* no flight

ASSUME FlightConstants ==
    /\ UserOf \in [Call -> User] /\ NoCall \notin Call
    /\ Mine \subseteq User /\ Refreshers \subseteq Call

VARIABLES
    call,       \* the HTTP requests
    flight,     \* the flights, by the call that started them
    inflight,   \* the map: for plain (FALSE) and control (TRUE) lookups
    kept,       \* RecentRankings holds the rankings of this character
    stored,     \* the store holds the shown runs
    storedControl \* the store holds their crowd control

vars == <<call, flight, inflight, kept, stored, storedControl>>

\* failed: no such character, spec or runs, a WCL error or any other.
Outcomes == {"none", "ok", "refused", "failed"}

\* on: the flight awaited.  outcome: what the member was told; quotaOf: whose numbers
\* a refusal carried; gotControl: the answering lookup was asked for crowd control.
Calls == [phase: {"idle", "waiting", "retrying", "done"}, control: BOOLEAN, on: Call,
          outcome: Outcomes, quotaOf: User, gotControl: BOOLEAN]

\* control: asked for; fetchControl: still wanted after the reservations.
Flights == [phase: {"none", "start", "rankings", "enrich", "settled", "gone"},
            control: BOOLEAN, fetchControl: BOOLEAN, refresh: BOOLEAN, outcome: Outcomes]

TypeOK ==
    /\ call \in [Call -> Calls]
    /\ flight \in [Call -> Flights]
    /\ inflight \in [BOOLEAN -> Call \union {NoCall}]
    /\ {kept, stored, storedControl} \subseteq BOOLEAN

IdleCall(c) == [phase |-> "idle", control |-> FALSE, on |-> c, outcome |-> "none",
                quotaOf |-> UserOf[c], gotControl |-> FALSE]
NoFlight == [phase |-> "none", control |-> FALSE, fetchControl |-> FALSE,
             refresh |-> FALSE, outcome |-> "none"]

Init ==
    /\ call = [c \in Call |-> IdleCall(c)]
    /\ flight = [c \in Call |-> NoFlight]
    /\ inflight = [control \in BOOLEAN |-> NoCall]
    /\ kept = FALSE
    /\ stored = FALSE /\ storedControl = FALSE

-----------------------------------------------------------------------------
(* The caller's side: runLookupWithCache.                                   *)

\* The flight a lookup joins: its own kind, or for a plain one the control twin.
JoinableAny(control) ==                             \* mutant of Joinable
    IF inflight[control] # NoCall THEN inflight[control] ELSE inflight[~control]
Joinable(control) ==
    IF inflight[control] # NoCall \/ control THEN inflight[control] ELSE inflight[TRUE]

NewFlight(control, refresh) ==
    [phase |-> "start", control |-> control, fetchControl |-> control, refresh |-> refresh,
     outcome |-> "none"]

Asking(c, phase, control, on) ==
    [phase |-> phase, control |-> control, on |-> on, outcome |-> "none",
     quotaOf |-> UserOf[c], gotControl |-> FALSE]

\* A history miss, or a Refresh: join a flight, or start one and register it unless
\* the key is taken.
Start(c, control, refresh) ==
    LET joined == IF refresh THEN NoCall ELSE Joinable(control)
    IN  /\ call[c].phase = "idle" /\ (control => UserOf[c] \in Mine)
        /\ refresh => c \in Refreshers
        /\ IF joined # NoCall
           THEN /\ call' = [call EXCEPT ![c] = Asking(c, "waiting", control, joined)]
                /\ UNCHANGED <<flight, inflight>>
           ELSE /\ call' = [call EXCEPT ![c] = Asking(c, "waiting", control, c)]
                /\ flight' = [flight EXCEPT ![c] = NewFlight(control, refresh)]
                /\ inflight' = [inflight EXCEPT ![control] = IF @ = NoCall THEN c ELSE @]
        /\ UNCHANGED <<kept, stored, storedControl>>

Settled(f) == flight[f].phase \in {"settled", "gone"}

RetriesNever(c) == FALSE                            \* mutant of Retries
Retries(c) ==
    /\ call[c].phase = "waiting" /\ call[c].on # c
    /\ flight[call[c].on].outcome = "refused"

\* Mutant of RetriesOn: the retry looks at the map again.
RetriesOnMap(c) ==
    IF Joinable(call[c].control) # NoCall THEN Joinable(call[c].control) ELSE c
\* The flight that answers a joiner whose starter was refused.
RetriesOn(c) == c

\* A joiner of a refused flight runs his own lookup, once and outside the map.
Retry(c) ==
    /\ Retries(c) /\ Settled(call[c].on)
    /\ call' = [call EXCEPT ![c] =
         Asking(c, IF RetriesOn(c) = c THEN "retrying" ELSE "waiting", @.control, RetriesOn(c))]
    /\ flight' = IF RetriesOn(c) # c THEN flight
         ELSE [flight EXCEPT ![c] = NewFlight(call[c].control, FALSE)]
    /\ UNCHANGED <<inflight, kept, stored, storedControl>>

\* The awaited flight's outcome reaches the member (and, when ok, his history).
Answer(c) ==
    LET f == flight[call[c].on]
    IN  /\ call[c].phase \in {"waiting", "retrying"}
        /\ Settled(call[c].on) /\ ~Retries(c)
        /\ call' = [call EXCEPT ![c] =
             [phase |-> "done", control |-> @.control, on |-> c, outcome |-> f.outcome,
              quotaOf |-> UserOf[@.on], gotControl |-> f.control]]
        /\ UNCHANGED <<flight, inflight, kept, stored, storedControl>>

\* The slot serves another request once nothing refers to its flight.
Leave(c) ==
    /\ call[c].phase = "done" /\ flight[c].phase \in {"none", "gone"}
    /\ \A control \in BOOLEAN : inflight[control] # c
    /\ \A d \in Call \ {c} : call[d].phase \in {"waiting", "retrying"} => call[d].on # c
    /\ call' = [call EXCEPT ![c] = IdleCall(c)]
    /\ flight' = [flight EXCEPT ![c] = NoFlight]
    /\ UNCHANGED <<inflight, kept, stored, storedControl>>

-----------------------------------------------------------------------------
(* The flight's side: performLookup, and the map's cleanup when it settles. *)

Settle(f, outcome) ==
    flight' = [flight EXCEPT ![f] = [phase |-> "settled", control |-> @.control,
                fetchControl |-> FALSE, refresh |-> FALSE, outcome |-> outcome]]

\* On to the next fetch, with or without crowd control.
GoOn(f, phase, fetchControl) ==
    flight' = [flight EXCEPT ![f] = [phase |-> phase, control |-> @.control,
                fetchControl |-> fetchControl, refresh |-> @.refresh, outcome |-> "none"]]

\* A reservation of the runs not stored, then one without crowd control; accepted when
\* nothing is to be fetched.
Enrichment(f) ==
    LET noControl == flight[f].fetchControl /\ ~storedControl
    IN  \/ /\ kept' = FALSE
           /\ \E control \in IF noControl THEN {TRUE, FALSE} ELSE {flight[f].fetchControl} :
                GoOn(f, "enrich", control)
        \/ ~stored /\ kept' = TRUE /\ Settle(f, "refused")

\* The rankings are there: no run of that spec or season, or on to the runs.
Analyse(f) ==
    \/ Settle(f, "failed") /\ UNCHANGED kept
    \/ Enrichment(f)

\* The first reservation, skipped when the rankings are kept (never on a Refresh).
Begin(f) ==
    /\ flight[f].phase = "start"
    /\ IF kept /\ ~flight[f].refresh
       THEN Analyse(f)
       ELSE /\ \/ Settle(f, "refused")
               \/ GoOn(f, "rankings", flight[f].fetchControl)
            /\ UNCHANGED kept
    /\ UNCHANGED <<call, inflight, stored, storedControl>>

\* WCL answers the rankings query, or it fails.
Rankings(f) ==
    /\ flight[f].phase = "rankings"
    /\ Analyse(f) \/ (Settle(f, "failed") /\ UNCHANGED kept)
    /\ UNCHANGED <<call, inflight, stored, storedControl>>

\* enrichRuns stores what it gets and never fails; what follows it may.
Enrich(f) ==
    /\ flight[f].phase = "enrich"
    /\ stored' \in {stored, TRUE}
    /\ storedControl' \in {storedControl} \union
         {got \in {TRUE} : stored' /\ flight[f].fetchControl}
    /\ \E outcome \in {"ok", "failed"} : Settle(f, outcome)
    /\ UNCHANGED <<call, inflight, kept>>

KeepExpires ==
    /\ kept /\ kept' = FALSE
    /\ UNCHANGED <<call, flight, inflight, stored, storedControl>>

\* Mutants of Freed: any flight's end frees the key; only a success does.
FreedAny(f, control) == TRUE
FreedOnSuccess(f, control) == inflight[control] = f /\ flight[f].outcome = "ok"
Freed(f, control) == inflight[control] = f

\* The settled flight's finally.
Cleanup(f) ==
    LET key == flight[f].control
    IN  /\ flight[f].phase = "settled"
        /\ flight' = [flight EXCEPT ![f] = [@ EXCEPT !.phase = "gone"]]
        /\ inflight' = [inflight EXCEPT ![key] = IF Freed(f, key) THEN NoCall ELSE @]
        /\ UNCHANGED <<call, kept, stored, storedControl>>

Next ==
    \/ KeepExpires
    \/ \E c \in Call :
         \/ Retry(c) \/ Answer(c) \/ Leave(c)
         \/ Begin(c) \/ Rankings(c) \/ Enrich(c) \/ Cleanup(c)
         \/ \E control, refresh \in BOOLEAN : Start(c, control, refresh)

\* A continuation runs once its promise settles, and WCL answers or fails.
Fairness == \A c \in Call :
    /\ WF_vars(Retry(c)) /\ WF_vars(Answer(c))
    /\ WF_vars(Begin(c)) /\ WF_vars(Rankings(c)) /\ WF_vars(Enrich(c)) /\ WF_vars(Cleanup(c))

Spec == Init /\ [][Next]_vars
FairSpec == Spec /\ Fairness

-----------------------------------------------------------------------------
(* What overlapping lookups may rely on.                                    *)

Running(f) == flight[f].phase \in {"start", "rankings", "enrich"}

\* Started by a plain join-or-start, not by a Refresh nor by a retry.
Registered(f) == Running(f) /\ call[f].phase = "waiting" /\ ~flight[f].refresh

\* Of the lookups of one key that are neither a Refresh nor the retry of a refused
\* joiner, one at most fetches at a time, whatever Refreshes start and settle around
\* it (lookup.ts:132-138).
OneFetch ==
    \A f, g \in Call :
        Registered(f) /\ Registered(g) /\ flight[f].control = flight[g].control => f = g

\* A refused member is told his own quota numbers, never those of the member whose
\* flight he joined (lookup.ts:141-147).
OwnRefusal ==
    \A c \in Call : call[c].outcome = "refused" => call[c].quotaOf = UserOf[c]

\* A lookup of the member's own character is answered by a flight that was asked for
\* crowd control (server/lookup.ts:128-132).  The flight may still drop it, when its own
\* member's quota does not cover it (lookup.ts:189-193) or its fetch fails (signals/enrich.ts:111).
ControlServed ==
    \A c \in Call : call[c].phase = "done" /\ call[c].control => call[c].gotControl

\* A flight that ends, however it ends, leaves the map: no later lookup is answered by
\* an old failure (the finally of lookup.ts:138).
KeyFreed ==
    \A control \in BOOLEAN :
        inflight[control] # NoCall => flight[inflight[control]].phase # "gone"

\* Every lookup is answered, whoever else keeps asking and being refused.
Answered == \A c \in Call : (call[c].phase \in {"waiting", "retrying"}) ~> (call[c].phase = "done")

=============================================================================
