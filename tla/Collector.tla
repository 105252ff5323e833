----------------------------- MODULE Collector -----------------------------
(***************************************************************************)
(* The hourly collector of the recalibration (calibration/collect.ts): a   *)
(* process of its own that spends what the members leave of the instance's *)
(* WCL points.  It asks WCL for its counter, reads the marker the server   *)
(* touches for the members' requests (marker.ts), lets the governor decide *)
(* (window.ts), and keeps what it has read in calibration.db (samples.ts), *)
(* which outlives it.  The members, the server's restarts, WCL's counter   *)
(* and its hours are around it.                                            *)
(*                                                                         *)
(* One season.  The order of the candidates within a cell, what a page or  *)
(* a lookup returns, the reports and the gap's length are left out.  A page *)
(* is paid for when WCL serves it, before its answer arrives; what a lookup *)
(* costs lands when it ends or is cut off.                                 *)
(***************************************************************************)
EXTENDS Integers, Sequences, FiniteSets, FiniteSetsExt

CONSTANTS
    Page,         \* the rankings pages of a discovery, in their order: a set of integers
    Candidate,    \* the candidates of the pool: integers, none a page
    Cells,        \* the number of cells: candidate c is in cell c % Cells
    Limit, Reserve, QuietReserve, Headroom,   \* points an hour, kept for the members, of a lookup
    Pause, Touch, Pace, Backoff, MaxBackoff,  \* MEMBER_PAUSE_MS, TOUCH_EVERY_MS, PACE_MS, BACKOFF_MS
    Hour, RunTime, Day, Window, Cycle,        \* the timer, endAt, DAY_MS, WINDOW_MS, CYCLE_MS
    Quiet,        \* the times of the Wednesday window
    Target,       \* DAILY_TARGET
    MaxNow,       \* bound: time
    MaxMember     \* bound: members' requests

ASSUME CollectorConstants ==
    /\ Page \subseteq Nat \ {0} /\ Candidate \subseteq Nat \ ({0} \union Page) /\ Headroom \in 1..Limit /\ QuietReserve <= Reserve
    /\ {Pause, Touch, Pace, Backoff, MaxBackoff, Hour, RunTime, Day, Window, Cycle, Target, Cells} \subseteq Nat \ {0}
    /\ {Limit, Reserve, QuietReserve, MaxNow, MaxMember} \subseteq Nat
    /\ Touch <= Pause /\ RunTime < Hour /\ Day <= Window

Never == -Window  \* long ago: the epoch
NoJob == 0

VARIABLES
    now,
    due,      \* the timer has fired and its run has not started
    spent,    \* WCL's counter of the hour
    marker,   \* the marker: whether the file exists, its mtime, and when it was made (ghost)
    touched,  \* the server's last touch
    member,   \* the last answer to a member, and how many there were (ghost)
    db,       \* calibration.db: samples and failures with their times, pages and pool with their cycle
    run,      \* the run of the hour
    reads     \* in the cycle of the last run, how often each page was paid for, and how often the
              \* collector was killed before the answer arrived (ghost)

collectorVars == <<now, due, spent, marker, touched, member, db, run, reads>>

Times == {Never} \union 0..MaxNow
Rows == [key: Candidate, at: 0..MaxNow]

\* step: between two jobs, at the gate, waiting for the counter, for a page or a lookup, for the
\* answer of a page that WCL has served, asleep.
\* rl: the counter it decides on, -1: to be asked for; last: the last lookup's start.
\* Ghosts: others, what members have spent since that counter was read; kept, the reserve it decided on.
Runs == [step: {"off", "next", "gate", "counter", "work", "paid", "asleep"}, stage: {"discovery", "collection"},
         job: Page \union Candidate \union {NoJob}, rl: -1..Limit, wake: Nat, end: Nat, last: Times,
         backoff: Nat, day: Nat, queue: SUBSET Candidate, others: Nat, kept: Nat]
Off == [step |-> "off", stage |-> "discovery", job |-> NoJob, rl |-> -1, wake |-> 0, end |-> 0,
        last |-> Never, backoff |-> Backoff, day |-> 0, queue |-> {}, others |-> 0, kept |-> 0]

NoReads(cycle) == [cycle |-> cycle, of |-> [p \in Page |-> 0], cut |-> [p \in Page |-> 0]]

CollectorTypeOK ==
    /\ now \in 0..MaxNow /\ due \in BOOLEAN /\ spent \in 0..Limit /\ touched \in Times
    /\ marker \in [file: BOOLEAN, at: Times, made: Times]
    /\ member \in [at: Times, n: 0..MaxMember]
    /\ db.samples \subseteq Rows /\ db.failed \subseteq Rows
    /\ db.pages \subseteq Page \X Nat /\ db.pool \in -1..MaxNow
    /\ run \in Runs /\ reads \in [cycle: Nat, of: [Page -> Nat], cut: [Page -> Nat]]

CollectorInit ==
    /\ now = 0 /\ due = TRUE /\ spent = 0
    /\ marker \in {[file |-> f, at |-> Never, made |-> Never] : f \in BOOLEAN}
    /\ touched = Never
    /\ member = [at |-> Never, n |-> 0]
    /\ db = [samples |-> {}, failed |-> {}, pages |-> {}, pool |-> -1]
    /\ run = Off
    /\ reads = NoReads(0)

Least(a, b) == IF a < b THEN a ELSE b
Since(t) == now - t

RunStart == run.end - RunTime
InCycle == RunStart \div Cycle

\* Pages already read in this cycle come from the cache.
UncachedAll == Page \* mutant: an interrupted pass starts over
Uncached == {p \in Page : <<p, InCycle>> \notin db.pages}

-----------------------------------------------------------------------------
(* Around the collector.                                                   *)

\* Time passes, and WCL's hour with it.  A run sleeps until its time, and its other steps take none
\* but those that wait for WCL and the gap after a page.
InGap == run.step = "next" /\ run.stage = "discovery" /\ run.rl # -1 /\ Uncached # {}
Tick ==
    /\ now < MaxNow /\ (run.step \in {"next", "gate"} => InGap) /\ (run.step = "asleep" => now < run.wake)
    /\ now' = now + 1
    /\ due' = ((now + 1) % Hour = 0)
    /\ spent' = IF (now + 1) % Hour = 0 THEN 0 ELSE spent
    /\ UNCHANGED <<marker, touched, member, db, run, reads>>

\* WCL answers a member: the server touches the marker, if there is one, at most once in Touch.
Touches == now - touched >= Touch
Member ==
    \E cost \in 0..1 :
        /\ member.n < MaxMember /\ spent + cost <= Limit
        /\ spent' = spent + cost
        /\ member' = [at |-> now, n |-> member.n + 1]
        /\ run' = IF run.step = "off" THEN run ELSE [run EXCEPT !.others = @ + cost]
        /\ touched' = IF Touches THEN now ELSE touched
        /\ marker' = IF Touches /\ marker.file THEN [marker EXCEPT !.at = now] ELSE marker
        /\ UNCHANGED <<now, due, db, reads>>

\* The server starts again, with nothing in memory.
Restart ==
    /\ touched # Never /\ touched' = Never
    /\ UNCHANGED <<now, due, spent, marker, member, db, run, reads>>

\* What a lookup has spent by its end, or until it is cut off.
Spends == \E cost \in 0..Headroom : spent + cost <= Limit /\ spent' = spent + cost

\* The collector is killed, or WCL fails for a page or for the season: what it has written stays,
\* and what WCL has charged.
Crash ==
    /\ run.step \in {"counter", "work", "paid", "asleep"} \/ InGap
    /\ run' = Off
    /\ IF run.step = "work" /\ run.stage = "collection" THEN Spends ELSE UNCHANGED spent
    /\ reads' = IF run.step = "paid" THEN [reads EXCEPT !.cut[run.job] = @ + 1] ELSE reads
    /\ UNCHANGED <<now, due, marker, touched, member, db>>

-----------------------------------------------------------------------------
(* One run.                                                                *)

Pruned == [db EXCEPT !.samples = {s \in @ : s.at >= Since(Window)}, !.failed = {s \in @ : s.at >= Since(Window)}]
OfDay == Cardinality({s \in db.samples : s.at >= Since(Day)})
Counted == OfDay

\* The candidates that were neither sampled nor failed in the window.
Queue(since) == {c \in Candidate : ~\E s \in db.samples \union db.failed : s.key = c /\ s.at >= since}

\* The timer: the marker is made when missing, the window pruned, the day's samples counted.
Start ==
    /\ due /\ run.step = "off" /\ due' = FALSE
    /\ marker' = IF marker.file THEN marker ELSE [file |-> TRUE, at |-> Never, made |-> now]
    /\ db' = Pruned
    /\ run' = IF Counted >= Target THEN Off
              ELSE IF db.pool < now \div Cycle
              THEN [Off EXCEPT !.step = "next", !.end = now + RunTime, !.day = Counted]
              ELSE [Off EXCEPT !.step = "next", !.end = now + RunTime, !.day = Counted,
                               !.stage = "collection", !.queue = Queue(Since(Window))]
    /\ reads' = IF reads.cycle = now \div Cycle THEN reads
                ELSE NoReads(now \div Cycle)
    /\ UNCHANGED <<now, spent, touched, member>>

\* The next job comes to the gate, with the counter of the page before it or with none.
AtGate(job, rl) == [run EXCEPT !.step = "gate", !.job = job, !.rl = rl]
ToCollection == [run EXCEPT !.step = "next", !.stage = "collection", !.job = NoJob, !.rl = -1,
                            !.queue = Queue(RunStart - Window)]

\* When all of them are there, the pool is stored.
NextPage ==
    /\ run.step = "next" /\ run.stage = "discovery" /\ Uncached # {}
    /\ run' = AtGate(Min(Uncached), run.rl)
    /\ UNCHANGED <<now, due, spent, marker, touched, member, db, reads>>

PutPool ==
    /\ run.step = "next" /\ run.stage = "discovery" /\ Uncached = {}
    /\ db' = [db EXCEPT !.pool = InCycle, !.pages = {p \in @ : p[2] >= InCycle}]
    /\ run' = ToCollection
    /\ UNCHANGED <<now, due, spent, marker, touched, member, reads>>

\* The candidates of the emptiest cell that still has some.
Sampled(cell) == Cardinality({s \in db.samples : s.key % Cells = cell /\ s.at >= RunStart - Window})
Emptiest == {c \in run.queue : \A d \in run.queue : Sampled(c % Cells) <= Sampled(d % Cells)}

NextCandidate ==
    /\ run.step = "next" /\ run.stage = "collection"
    /\ IF run.queue = {} THEN run' = Off
       ELSE \E c \in Emptiest : run' = [AtGate(c, -1) EXCEPT !.queue = @ \ {c}]
    /\ UNCHANGED <<now, due, spent, marker, touched, member, db, reads>>

\* The hour or the budget is over: a discovery that has an older pool goes on with it.
Stopped == IF run.stage = "discovery" /\ db.pool # -1 THEN ToCollection ELSE Off

Over ==
    /\ run.step = "gate" /\ now >= run.end
    /\ run' = Stopped
    /\ UNCHANGED <<now, due, spent, marker, touched, member, db, reads>>

\* WCL is asked for its counter; the answer is on its way.
Ask ==
    /\ run.step = "gate" /\ now < run.end /\ run.rl = -1
    /\ run' = [run EXCEPT !.step = "counter", !.rl = spent, !.others = 0]
    /\ UNCHANGED <<now, due, spent, marker, touched, member, db, reads>>

Keep == IF now \in Quiet THEN Least(Reserve, QuietReserve) ELSE Reserve
LacksReserve(rl) == Limit - rl < Keep \* mutant: without the headroom of a lookup
Lacks(rl) == Limit - rl < Keep + Headroom
PausedNever == FALSE \* mutant: the marker is not read
Paused == now - marker.at < Pause
Paces == run.stage = "collection" /\ now - run.last < Pace

\* The governor decides, with the marker as it is now: stop, sleep and ask again, or start.
Decide ==
    /\ run.step = "counter" \/ (run.step = "gate" /\ now < run.end /\ run.rl # -1)
    /\ run' =
         IF Lacks(run.rl) THEN Stopped
         ELSE IF Paused THEN [run EXCEPT !.step = "asleep", !.rl = -1, !.wake = Least(marker.at + Pause, run.end)]
         ELSE IF Paces THEN [run EXCEPT !.step = "asleep", !.rl = -1, !.wake = Least(run.last + Pace, run.end)]
         ELSE [run EXCEPT !.step = "work", !.kept = Keep,
                          !.last = IF run.stage = "collection" THEN now ELSE @]
    /\ UNCHANGED <<now, due, spent, marker, touched, member, db, reads>>

Wake ==
    /\ run.step = "asleep" /\ now >= run.wake
    /\ run' = IF run.job = NoJob THEN [run EXCEPT !.step = "next"] ELSE AtGate(run.job, -1)
    /\ UNCHANGED <<now, due, spent, marker, touched, member, db, reads>>

\* WCL serves a page and charges it; the answer, with the counter after it, is on its way.
Serve ==
    /\ run.step = "work" /\ run.stage = "discovery" /\ spent < Limit
    /\ spent' = spent + 1
    /\ run' = [run EXCEPT !.step = "paid", !.rl = spent + 1, !.others = 0]
    /\ reads' = [reads EXCEPT !.of[run.job] = @ + 1]
    /\ UNCHANGED <<now, due, marker, touched, member, db>>

\* It arrives, and is cached.
PageRead ==
    /\ run.step = "paid"
    /\ db' = [db EXCEPT !.pages = @ \union {<<run.job, InCycle>>}]
    /\ run' = [run EXCEPT !.step = "next", !.job = NoJob]
    /\ UNCHANGED <<now, due, spent, marker, touched, member, reads>>

Put(rows) == {s \in rows : s.key # run.job} \union {[key |-> run.job, at |-> now]}
AfterJob == [run EXCEPT !.step = "next", !.job = NoJob, !.rl = -1]

\* A lookup ends with a sample; the day's last one ends the run.
PutSample ==
    /\ run.step = "work" /\ run.stage = "collection" /\ Spends
    /\ db' = [db EXCEPT !.samples = Put(@)]
    /\ run' = IF run.day + 1 >= Target THEN Off
              ELSE [AfterJob EXCEPT !.day = @ + 1, !.backoff = Backoff]
    /\ UNCHANGED <<now, due, marker, touched, member, reads>>

\* It ends without one, or fails: it is not tried again in the window.
Fail ==
    /\ run.step = "work" /\ run.stage = "collection" /\ Spends
    /\ db' = [db EXCEPT !.failed = Put(@)]
    /\ run' \in {AfterJob, [AfterJob EXCEPT !.backoff = Backoff]}
    /\ UNCHANGED <<now, due, marker, touched, member, reads>>

\* WCL limits the address: the candidate goes back, and the run sleeps longer each time.
TooMany ==
    /\ run.step = "work" /\ run.stage = "collection" /\ Spends
    /\ run' = [AfterJob EXCEPT !.step = "asleep", !.queue = @ \union {run.job},
                               !.wake = Least(now + run.backoff, IF run.end > now THEN run.end ELSE now),
                               !.backoff = Least(2 * @, MaxBackoff)]
    /\ UNCHANGED <<now, due, marker, touched, member, db, reads>>

CollectorNext ==
    \/ Tick \/ Member \/ Restart \/ Crash
    \/ Start \/ NextPage \/ PutPool \/ NextCandidate \/ Over \/ Ask \/ Decide \/ Wake
    \/ Serve \/ PageRead \/ PutSample \/ Fail \/ TooMany

CollectorSpec == CollectorInit /\ [][CollectorNext]_collectorVars

-----------------------------------------------------------------------------
\* Members come first.  The hour never goes past the reserve by the collector's doing
\* (window.ts:18-19): what a page or a lookup has spent when it ends or is cut off leaves the reserve free, but
\* for what members have spent since the counter it was decided on, which may be that of the page
\* before and the gap between the two old.  And
\* nothing starts within the pause of a member's request, less the minute the marker may be late
\* (marker.ts:14): whatever the server and the collector were restarted in between.  Only
\* requests about as old as the marker itself go unseen.
ReserveLeft ==
    run.step = "work" /\ run'.step # "work" /\ spent' > spent =>
        Limit - spent' + run.others >= run.kept
PauseKept ==
    run.step # "work" /\ run'.step = "work" =>
        \/ now - member.at > Pause - Touch
        \/ member.at < marker.made + Touch
MembersFirst == [][ReserveLeft /\ PauseKept]_collectorVars

\* However often it is killed and started again, a day has no more samples than its target
\* (collect.ts:26-31), and a page is paid for once in a cycle (collect.ts:112-134), and once more
\* only for each time it was killed between WCL's charge and the answer.
SpendsOnce ==
    /\ OfDay <= Target
    /\ \A p \in Page : reads.of[p] <= 1 + reads.cut[p]
=============================================================================
