----------------------------- MODULE SeasonSync -----------------------------
(***************************************************************************)
(* The season sync of one character: the loop of the page (useSeason.ts),  *)
(* one batch per request (src/self/sync.ts), the season rows and cached    *)
(* reports of the store (src/signals/store.ts).                            *)
(*                                                                         *)
(* A run is its rank by start time: the highest number is the newest.      *)
(* WCL ranks the runs 1..listed, may have nothing for the Private ones     *)
(* whenever it is asked (a log is hidden or deleted), and fails on the     *)
(* Cursed ones every time; it may fail on any other.  Whether the client   *)
(* has points left is WclBudget's subject: here a sync may be refused at   *)
(* each check.                                                             *)
(***************************************************************************)
EXTENDS Integers, FiniteSets

CONSTANTS
    Front,        \* open pages that show the character
    MaxRuns,      \* bound: runs WCL ranks in the end
    Batch,        \* SYNC_BATCH
    Retry,        \* SYNC_RETRY_MS, in steps of the clock
    Private, Cursed, \* what WCL answers of a run
    MaxTime,      \* bound: of the clock
    MaxReloads    \* bound: loads on their way before the page asks for another

Run == 1..MaxRuns
Never == -1

ASSUME SyncConstants ==
    /\ IsFiniteSet(Front) /\ MaxRuns \in Nat \ {0} /\ Batch \in Nat \ {0} /\ Retry \in Nat \ {0}
    /\ MaxTime \in Nat /\ MaxReloads \in Nat
    /\ Private \subseteq Run /\ Cursed \subseteq Run

VARIABLES
    listed,     \* how many runs WCL ranks
    rows,       \* character_runs: the runs a rankings fetch has listed
    raw,        \* wcl_run_raw: the runs whose report is stored
    control,    \* wcl_run_control at the current table version
    failedAt,   \* character_runs.failed_at
    now,        \* the clock, in steps
    sync,       \* the loop and the request of each page
    view,       \* the analysed runs each page shows
    loads,      \* GET /api/season of each page on their way
    paid        \* history: the reports of each run that WCL has answered the syncs with

vars == <<listed, rows, raw, control, failedAt, now, sync, view, loads, paid>>
stored == <<rows, raw, control, failedAt, paid>>

\* A loop awaits its request (asked: the first PING and the rankings; checking: the PING
\* before the batch; work; spent: the last PING), then its load.  at: the time of the
\* request; moved: the batch fetched or failed a run; more: the answer asks for another.
Works == {"none", "raw", "control", "controlAfterRaw", "ok", "missing", "threw"}
Syncs == [phase: {"idle", "asked", "checking", "work", "spent", "loading"}, stop: BOOLEAN,
          refresh: BOOLEAN, at: 0..MaxTime, batch: SUBSET Run, work: [Run -> Works],
          moved: BOOLEAN, more: BOOLEAN]

\* What a page shows, and GET /api/season on its way.  seen: what the server read, once it
\* has; stale: a newer request of the page was sent since; mine: the loop awaits it.
Views == [analysed: SUBSET Run, pending: BOOLEAN]
Loads == [read: BOOLEAN, seen: Views, stale: BOOLEAN, mine: BOOLEAN]

NoWork == [r \in Run |-> "none"]
Idle == [phase |-> "idle", stop |-> FALSE, refresh |-> FALSE, at |-> 0, batch |-> {},
         work |-> NoWork, moved |-> FALSE, more |-> FALSE]
NoView == [analysed |-> {}, pending |-> FALSE]

TypeOK ==
    /\ listed \in 0..MaxRuns /\ now \in 0..MaxTime
    /\ rows \subseteq 1..listed /\ raw \subseteq Run /\ control \subseteq Run
    /\ failedAt \in [Run -> 0..MaxTime \union {Never}]
    /\ sync \in [Front -> Syncs]
    /\ view \in [Front -> Views]
    /\ loads \in [Front -> SUBSET Loads]
    /\ paid \in [Run -> Nat]

Init ==
    /\ listed = 1 /\ rows = {} /\ raw = {} /\ control = {}
    /\ failedAt = [r \in Run |-> Never] /\ now = 0
    /\ sync = [f \in Front |-> Idle]
    /\ view = [f \in Front |-> NoView] /\ loads = [f \in Front |-> {}]
    /\ paid = [r \in Run |-> 0]

-----------------------------------------------------------------------------
(* The season rows.                                                        *)

RecentlyFailed(r, t) == failedAt[r] # Never /\ t - failedAt[r] < Retry
NeedsRaw(r) == r \notin raw
NeedsControl(r) == r \notin control

\* Mutant: a run WCL had nothing for stays among the pending ones.
PendingAll(S, t) == {r \in S : NeedsRaw(r) \/ NeedsControl(r)}

\* What a sync at time t still has to fetch of the known runs S, and its batch.
Pending(S, t) ==
    {r \in S : (NeedsRaw(r) \/ NeedsControl(r)) /\ ~RecentlyFailed(r, t)}
Picked(S) == {r \in S : Cardinality({q \in S : q > r}) < Batch}

-----------------------------------------------------------------------------
(* The loop of a page.                                                     *)

Requested(f, refresh) ==
    [Idle EXCEPT !.phase = "asked", !.stop = sync[f].stop, !.refresh = refresh, !.at = now]
Ends(f) == sync' = [sync EXCEPT ![f] = Idle]

\* The button is there when the season shown has something to fetch.
Start(f) ==
    /\ sync[f].phase = "idle" /\ view[f].pending
    /\ sync' = [sync EXCEPT ![f] = Requested(f, TRUE)]
    /\ UNCHANGED <<listed, stored, now, view, loads>>

\* Cancel, or the page is left: the request in flight goes on.
Stop(f) ==
    /\ sync[f].phase # "idle" /\ ~sync[f].stop
    /\ sync' = [sync EXCEPT ![f].stop = TRUE]
    /\ UNCHANGED <<listed, stored, now, view, loads>>

\* runSeasonSync and the start of syncBatch: the rankings when asked for or when no run is
\* known, then the batch, picked before the points are checked.
Known(f) == IF sync[f].refresh \/ rows = {} THEN 1..listed ELSE rows

Pick(f) ==
    /\ sync[f].phase = "asked"
    /\ rows' = Known(f)
    /\ LET batch == Picked(Pending(Known(f), sync[f].at)) IN
       sync' = [sync EXCEPT ![f].phase = IF batch = {} THEN "spent" ELSE "checking",
                            ![f].batch = batch]
    /\ UNCHANGED <<listed, raw, control, failedAt, now, view, loads, paid>>

\* Where the work on a run starts, once the points are checked.
FirstWorkBlind(r) == "raw" \* mutant: the report of every picked run
FirstWork(r) == IF NeedsRaw(r) THEN "raw" ELSE IF NeedsControl(r) THEN "control" ELSE "ok"

Fetch(f) ==
    /\ sync[f].phase = "checking"
    /\ sync' = [sync EXCEPT
           ![f].phase = "work",
           ![f].work = [r \in Run |-> IF r \in sync[f].batch THEN FirstWork(r) ELSE "none"]]
    /\ UNCHANGED <<listed, stored, now, view, loads>>

\* A PING refuses the sync for want of points, or a call outside the batch fails: the loop
\* ends with the error.  What was stored stays.
Refuse(f) ==
    /\ sync[f].phase \in {"asked", "checking", "spent"}
    /\ Ends(f)
    /\ UNCHANGED <<listed, stored, now, view, loads>>

-----------------------------------------------------------------------------
(* The work on one run of the batch; the runs of a batch overlap.          *)

Working(f, r) == sync[f].phase = "work" /\ sync[f].work[r] \in {"raw", "control", "controlAfterRaw"}
WorkGoes(f, r, w) == sync' = [sync EXCEPT ![f].work[r] = w]

\* WCL answers with the report: it is stored at once, and the crowd control comes next.
GotRaw(f, r) ==
    /\ Working(f, r) /\ sync[f].work[r] = "raw" /\ r \notin Cursed
    /\ raw' = raw \union {r} /\ paid' = [paid EXCEPT ![r] = @ + 1]
    /\ WorkGoes(f, r, IF NeedsControl(r) THEN "controlAfterRaw" ELSE "ok")
    /\ UNCHANGED <<listed, rows, control, failedAt, now, view, loads>>

GotControl(f, r) ==
    /\ Working(f, r) /\ sync[f].work[r] # "raw" /\ r \notin Cursed
    /\ control' = control \union {r}
    /\ WorkGoes(f, r, "ok")
    /\ UNCHANGED <<listed, rows, raw, failedAt, now, view, loads, paid>>

\* WCL has no report for the run, or none for its crowd control.
GotNothing(f, r) ==
    /\ Working(f, r) /\ r \in Private
    /\ WorkGoes(f, r, "missing")
    /\ UNCHANGED <<listed, stored, now, view, loads>>

\* The call fails.  A report stored just before is progress: the run stays pending.
Threw(w) == IF w = "controlAfterRaw" THEN "ok" ELSE "threw"

Throw(f, r) ==
    /\ Working(f, r)
    /\ WorkGoes(f, r, Threw(sync[f].work[r]))
    /\ UNCHANGED <<listed, stored, now, view, loads>>

\* All the runs of the batch are settled: the missing ones are marked.  A batch whose calls
\* all failed fails the request.
Ended(f, w) == {r \in sync[f].batch : sync[f].work[r] = w}
MarkedNone(f) == {} \* mutant
Marked(f) == Ended(f, "missing")
MarkTime(f) == sync[f].at
Moved(f) == Ended(f, "ok") \union Ended(f, "missing") # {}

Settle(f) ==
    /\ sync[f].phase = "work" /\ \A r \in sync[f].batch : ~Working(f, r)
    /\ failedAt' = [r \in Run |-> IF r \in Marked(f) THEN MarkTime(f) ELSE failedAt[r]]
    /\ IF Moved(f)
       THEN sync' = [sync EXCEPT ![f] = [Idle EXCEPT !.phase = "spent", !.stop = sync[f].stop,
                                                     !.at = sync[f].at, !.moved = TRUE]]
       ELSE Ends(f)
    /\ UNCHANGED <<listed, rows, raw, control, now, view, loads, paid>>

-----------------------------------------------------------------------------
(* What a page shows.                                                      *)

\* A request for the season: every one sent before is stale from now on.
Sent(f, mine) ==
    loads' = [loads EXCEPT ![f] = {[l EXCEPT !.stale = TRUE] : l \in @}
        \union {[read |-> FALSE, seen |-> NoView, stale |-> FALSE, mine |-> mine]}]

\* The answer carries what is pending; a loop that goes on reloads the season first.
GoesOn(f) == sync[f].moved /\ Pending(rows, sync[f].at) # {}

Answer(f) ==
    /\ sync[f].phase = "spent"
    /\ IF sync[f].stop THEN Ends(f) /\ UNCHANGED loads
       ELSE /\ sync' = [sync EXCEPT ![f] = [Idle EXCEPT !.phase = "loading",
                                                        !.more = GoesOn(f)]]
            /\ Sent(f, TRUE)
    /\ UNCHANGED <<listed, stored, now, view>>

\* The page is opened, or its payload replaced.
Reload(f) ==
    /\ Cardinality(loads[f]) < MaxReloads
    /\ Sent(f, FALSE)
    /\ UNCHANGED <<listed, stored, now, sync, view>>

\* handleSeasonGet reads the rows and the reports.
Read(f, l) ==
    /\ ~l.read
    /\ LET seen == [analysed |-> rows \intersect raw, pending |-> Pending(rows, now) # {}] IN
       loads' = [loads EXCEPT ![f] = (@ \ {l}) \union {[l EXCEPT !.read = TRUE, !.seen = seen]}]
    /\ UNCHANGED <<listed, stored, now, sync, view>>

\* An answer arrives: a stale one is dropped, a failed one shows nothing.  The loop that
\* awaited it goes on or ends.
ShownAny(f, l) == IF l.read THEN l.seen ELSE view[f] \* mutant: no seq
Shown(f, l) == IF l.read /\ ~l.stale THEN l.seen ELSE view[f]

Arrive(f, l) ==
    /\ view' = [view EXCEPT ![f] = Shown(f, l)]
    /\ loads' = [loads EXCEPT ![f] = @ \ {l}]
    /\ IF ~l.mine THEN UNCHANGED sync
       ELSE IF sync[f].more /\ ~sync[f].stop
            THEN sync' = [sync EXCEPT ![f] = Requested(f, FALSE)]
            ELSE Ends(f)
    /\ UNCHANGED <<listed, stored, now>>

-----------------------------------------------------------------------------
(* Everybody else.                                                         *)

\* The character plays a run that WCL ranks.
Play ==
    /\ listed < MaxRuns /\ listed' = listed + 1
    /\ UNCHANGED <<stored, now, sync, view, loads>>

\* A lookup of the character records its rankings and caches one more report it shows.
Lookup ==
    /\ rows' = 1..listed
    /\ \/ \E r \in 1..listed \ Cursed : raw' = raw \union {r}
       \/ UNCHANGED raw
    /\ UNCHANGED <<listed, control, failedAt, now, sync, view, loads, paid>>

Tick ==
    /\ now < MaxTime /\ now' = now + 1
    /\ UNCHANGED <<listed, stored, sync, view, loads>>

\* The process restarts: the requests fail, the database stays.
Crash ==
    /\ sync' = [f \in Front |-> IF sync[f].phase = "loading" THEN sync[f] ELSE Idle]
    /\ UNCHANGED <<listed, stored, now, view, loads>>

\* What a request does for itself, and the loads a page waits for.
Work(f) ==
    \/ Pick(f) \/ Fetch(f) \/ Settle(f) \/ Answer(f)
    \/ \E r \in Run : GotRaw(f, r) \/ GotControl(f, r) \/ GotNothing(f, r)
    \/ \E r \in Cursed : Throw(f, r)

Load(f, mine) ==
    \E l \in loads[f] : l.mine = mine /\ (Read(f, l) \/ (l.read /\ Arrive(f, l)))

\* Whatever may go wrong with any run, or is done by hand.
Trouble ==
    \/ Crash
    \/ \E f \in Front :
        \/ Refuse(f) \/ Stop(f) \/ Reload(f)
        \/ \E r \in Run \ Cursed : Throw(f, r)
        \/ \E l \in loads[f] : ~l.read /\ Arrive(f, l)

Next ==
    \/ \E f \in Front : Start(f) \/ Work(f) \/ \E mine \in BOOLEAN : Load(f, mine)
    \/ Play \/ Lookup \/ Tick \/ Trouble

\* Requests and loads are answered in the end.
Spec ==
    /\ Init /\ [][Next]_vars
    /\ \A f \in Front : WF_vars(Work(f)) /\ \A mine \in BOOLEAN : WF_vars(Load(f, mine))

-----------------------------------------------------------------------------
(* What the sync promises.                                                 *)

\* However the syncs of a character overlap with one another and with lookups, and however often
\* they are cancelled, refused or cut off by a restart, WCL answers them with a report at most once
\* for each page (one that was left counts while its request goes on): what is stored is not paid
\* for again, and a sync that had asked when another stored the report pays for it a last time
\* (needsRaw, syncBatch).
PaidPerPage == \A r \in Run : paid[r] <= Cardinality(Front)

\* A page never goes back to fewer analysed runs, in whatever order the seasons it asked
\* for were read and arrive (useSeason's seq).
ViewForward == [][\A f \in Front : view[f].analysed \subseteq view'[f].analysed]_vars

\* Every loop ends (useSeason's start): what WCL will not give is not asked for in circles.
LoopEnds == \A f \in Front : sync[f].phase # "idle" ~> sync[f].phase = "idle"

\* A member who presses the button whenever it is offered gets everything, once nothing
\* else goes wrong: what is left is what WCL fails on every time.  That holds while fewer
\* runs than a batch are of that kind: such runs are never marked, and they are picked
\* again before every older one.
Reaches ==
    (<>[][~Trouble]_vars /\ \A f \in Front : WF_vars(Start(f)))
        => <>[](\A f \in Front : view[f].pending => Pending(rows, now) \subseteq Cursed)
=============================================================================
