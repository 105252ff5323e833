------------------------------ MODULE WclBudget ------------------------------
(***************************************************************************)
(* Points accounting for the shared WCL client of the hosted service:      *)
(* PointsMeter.observe (src/wcl/meter.ts), QuotaGate.reserve               *)
(* (src/hosted/quota.ts) and the usage_hourly bucket (src/hosted/db.ts).   *)
(*                                                                         *)
(* WCL counts the points of the client over an hourly window of its own    *)
(* and answers each query with the counter and the time left in the        *)
(* window.  The process learns of its spending only from those answers,    *)
(* which may arrive late, out of order or never, and charges the counter's *)
(* delta to whichever request observes it.  Points are integers (the code  *)
(* rounds to tenths: read a unit as a tenth).                              *)
(***************************************************************************)
EXTENDS Integers, FiniteSets

CONSTANTS
    User,           \* members and admins
    Admin,          \* the admins: no hourly limit
    Req,            \* slots of concurrently running HTTP requests
    UserOf,         \* [Req -> User]
    Cost,           \* what WCL may charge for one query
    Estimate,       \* what reserve() expects of one query
    Batch,          \* queries one reservation may cover
    UserLimit,      \* POINTS_PER_USER_HOUR
    WclLimit,       \* limitPerHour of the shared client
    PointsFloor,    \* POINTS_FLOOR
    MaxCharge,      \* MAX_CHARGE_PER_OBSERVATION
    Hour,           \* length of a WCL window and of a calendar hour, in ticks
    Truncation,     \* ticks that an integer pointsResetIn may drop
    StartCounter,   \* what the client may already have spent when the process starts
    MaxTime,        \* bound: ticks
    MaxServed,      \* bound: queries WCL answers
    MaxLost,        \* bound: answers that never reach the meter
    MaxRestarts     \* bound: restarts of the process

ASSUME BudgetConstants ==
    /\ Admin \subseteq User
    /\ UserOf \in [Req -> User]
    /\ IsFiniteSet(Req)
    /\ Cost \subseteq Nat /\ IsFiniteSet(Cost) /\ Cost # {}
    /\ StartCounter \subseteq Nat /\ IsFiniteSet(StartCounter)
    /\ Estimate \in Nat /\ Batch \in Nat \ {0}
    /\ {UserLimit, WclLimit, PointsFloor, MaxCharge, Truncation} \subseteq Nat
    /\ Hour \in Nat \ {0}
    /\ {MaxTime, MaxServed, MaxLost, MaxRestarts} \subseteq Nat

VARIABLES
    now,        \* the clock
    counter,    \* WCL: points of the client in its current window
    win,        \* WCL: which window this is
    winEnd,     \* WCL: when it ends
    hourEnd,    \* when the current calendar hour (usage_hourly bucket) ends
    last,       \* PointsMeter.last: the last rateLimitData, or NoSnapshot
    used,       \* usage_hourly: each user's points in the current calendar hour
    req,        \* the running requests
    cum,        \* ghost: every point WCL ever counted
    charged,    \* ghost: every point the meter ever charged
    flags,      \* ghost: what has disturbed the accounting so far
    counts      \* what the bounds MaxServed, MaxLost and MaxRestarts count

vars == <<now, counter, win, winEnd, hourEnd, last, used, req, cum, charged, flags, counts>>

\* What WCL reports; win and cum are ghosts, no code reads them.
Answers == [spent: Nat, resetIn: Nat, win: Nat, cum: Nat]
NoAnswer == [spent |-> 0, resetIn |-> 0, win |-> 0, cum |-> 0]

\* some = FALSE: null, before the first answer of this process.
Snapshots == [some: BOOLEAN, spent: Nat, windowEnd: Nat, win: Nat, cum: Nat]
NoSnapshot == [some |-> FALSE, spent |-> 0, windowEnd |-> 0, win |-> 0, cum |-> 0]

\* left: queries still covered by the reservation; spent: RequestCharge.spent;
\* answer: the response on its way.
Requests == [phase: {"idle", "running", "sent"}, left: Nat, spent: Nat, answer: Answers]

IdleRequest == [phase |-> "idle", left |-> 0, spent |-> 0, answer |-> NoAnswer]

\* late: an answer older than the baseline came when the code cannot tell it from the
\* first answer of a new window.  recharged: one of the baseline's own window was charged.
\* stretched: an answer took so long that its window is estimated to outlive WCL's.
Flags == {"late", "recharged", "stretched"}
Counts == [served: Nat, lost: Nat, restarts: Nat]

TypeOK ==
    /\ {now, counter, win, winEnd, hourEnd, cum} \subseteq Nat
    /\ charged \in Nat
    /\ last \in Snapshots
    /\ used \in [User -> Nat]
    /\ req \in [Req -> Requests]
    /\ flags \subseteq Flags
    /\ counts \in Counts

Init ==
    /\ now = 0 /\ win = 0
    /\ counter \in StartCounter
    /\ winEnd \in 1..Hour /\ hourEnd \in 1..Hour
    /\ last = NoSnapshot
    /\ used = [u \in User |-> 0]
    /\ req = [r \in Req |-> IdleRequest]
    /\ cum = counter /\ charged = 0
    /\ flags = {}
    /\ counts = [served |-> 0, lost |-> 0, restarts |-> 0]

-----------------------------------------------------------------------------
(* The clock: WCL opens a window of its own every hour, usage_hourly a      *)
(* bucket every calendar hour.                                              *)

Tick ==
    /\ now < MaxTime
    /\ now' = now + 1
    /\ IF now' = winEnd
       THEN win' = win + 1 /\ winEnd' = winEnd + Hour /\ counter' = 0
       ELSE UNCHANGED <<win, winEnd, counter>>
    /\ IF now' = hourEnd
       THEN hourEnd' = hourEnd + Hour /\ used' = [u \in User |-> 0]
       ELSE UNCHANGED <<hourEnd, used>>
    /\ UNCHANGED <<last, req, cum, charged, flags, counts>>

-----------------------------------------------------------------------------
(* QuotaGate.reserve: reads the bucket and the snapshot, writes nothing.    *)

\* Mutant of QuotaRefuses: what the member has already used is forgotten.
QuotaRefusesFresh(u, estimate) == u \notin Admin /\ estimate > UserLimit
QuotaRefuses(u, estimate) == u \notin Admin /\ used[u] + estimate > UserLimit

\* Mutant of BudgetRefuses: the estimate is not taken off what is left.
BudgetRefusesLate(estimate) ==
    last.some /\ now < last.windowEnd /\ WclLimit - last.spent < PointsFloor
BudgetRefuses(estimate) ==
    /\ last.some
    /\ now < last.windowEnd
    /\ WclLimit - last.spent - estimate < PointsFloor

Refused(u, estimate) == QuotaRefuses(u, estimate) \/ BudgetRefuses(estimate)

\* A step of the lookup: n queries reserved at once, then sent one by one.  The first
\* one opens the request's charge (meter.run, server.ts:195).
Reserve(r, n) ==
    /\ req[r].phase \in {"idle", "running"} /\ req[r].left = 0
    /\ ~Refused(UserOf[r], n * Estimate)
    /\ req' = [req EXCEPT ![r] = [@ EXCEPT !.left = n, !.phase = "running"]]
    /\ UNCHANGED <<now, counter, win, winEnd, hourEnd, last, used, cum, charged, flags, counts>>

\* The response is sent: refused, failed or complete.
End(r) ==
    /\ req[r].phase = "running"
    /\ req' = [req EXCEPT ![r] = IdleRequest]
    /\ UNCHANGED <<now, counter, win, winEnd, hourEnd, last, used, cum, charged, flags, counts>>

-----------------------------------------------------------------------------
(* WCL answers a query: it counts the points at once, the answer travels.   *)

\* pointsResetIn: whole seconds, possibly 0.
ResetIn(drop) == IF winEnd - now > drop THEN winEnd - now - drop ELSE 0

Serve(r, c, drop) ==
    /\ req[r].phase = "running" /\ req[r].left > 0
    /\ counts.served < MaxServed
    /\ counter' = counter + c /\ cum' = cum + c
    /\ req' = [req EXCEPT ![r] =
         [phase |-> "sent", left |-> @.left - 1, spent |-> @.spent,
          answer |-> [spent |-> counter', resetIn |-> ResetIn(drop),
                      win |-> win, cum |-> cum']]]
    /\ counts' = [counts EXCEPT !.served = @ + 1]
    /\ UNCHANGED <<now, win, winEnd, hourEnd, last, used, charged, flags>>

-----------------------------------------------------------------------------
(* PointsMeter.observe                                                      *)

Snapshot(a) == [some |-> TRUE, spent |-> a.spent, windowEnd |-> now + a.resetIn,
                win |-> a.win, cum |-> a.cum]

\* The estimated window has elapsed AND the counter dropped.
NewHour(a) == now >= last.windowEnd /\ a.spent < last.spent
\* A lower counter inside the window: the baseline stays.
LateInWindow(a) == now < last.windowEnd /\ a.spent < last.spent

Delta(a) ==
    IF NewHour(a) THEN a.spent
    ELSE IF a.spent > last.spent THEN a.spent - last.spent ELSE 0

\* What the observation charges: nothing when it primes, is late or is too big.
\* Mutant of Charge: the first answer is charged.
ChargePriming(a) ==
    IF LateInWindow(a) \/ Delta(a) > MaxCharge THEN 0 ELSE Delta(a)
Charge(a) ==
    IF ~last.some \/ LateInWindow(a) \/ Delta(a) > MaxCharge THEN 0 ELSE Delta(a)

Baseline(a) == IF last.some /\ LateInWindow(a) THEN last ELSE Snapshot(a)

\* Ghost: the answer is older than the baseline, yet the code may take it for newer.
Overtaken(a) == last.some /\ (a.cum < last.cum \/ a.win < last.win)
Misread(a) == Overtaken(a) /\ (a.win # last.win \/ now >= last.windowEnd)

\* Ghost: counted from now, the time the answer leaves its window is more than is left of it.
Stretches(a) == a.resetIn > IF a.win = win THEN winEnd - now ELSE 0

Observe(r) ==
    LET a == req[r].answer
    IN  /\ req[r].phase = "sent"
        /\ last' = Baseline(a)
        /\ used' = [used EXCEPT ![UserOf[r]] = @ + Charge(a)]
        /\ charged' = charged + Charge(a)
        /\ req' = [req EXCEPT ![r] =
             [phase |-> "running", left |-> @.left, spent |-> @.spent + Charge(a),
              answer |-> NoAnswer]]
        /\ flags' = flags \union {f \in Flags :
             \/ f = "late" /\ Misread(a)
             \/ f = "stretched" /\ Stretches(a)
             \/ f = "recharged" /\ Overtaken(a) /\ a.win = last.win /\ Charge(a) > 0}
        /\ UNCHANGED <<now, counter, win, winEnd, hourEnd, cum, counts>>

\* The answer never reaches the meter (network, HTTP or GraphQL error: gql throws
\* before observeRateLimit); the query fails, the request goes on or ends.
Lose(r) ==
    /\ req[r].phase = "sent"
    /\ counts.lost < MaxLost
    /\ req' = [req EXCEPT ![r] = [@ EXCEPT !.phase = "running", !.answer = NoAnswer]]
    /\ counts' = [counts EXCEPT !.lost = @ + 1]
    /\ UNCHANGED <<now, counter, win, winEnd, hourEnd, last, used, cum, charged, flags>>

\* A deploy or a crash: the meter is empty again, usage_hourly is on disk.
Restart ==
    /\ counts.restarts < MaxRestarts
    /\ last' = NoSnapshot
    /\ req' = [r \in Req |-> IdleRequest]
    /\ counts' = [counts EXCEPT !.restarts = @ + 1]
    /\ UNCHANGED <<now, counter, win, winEnd, hourEnd, used, cum, charged, flags>>

Next ==
    \/ Tick \/ Restart
    \/ \E r \in Req :
         \/ End(r) \/ Observe(r) \/ Lose(r)
         \/ \E n \in 1..Batch : Reserve(r, n)
         \/ \E c \in Cost, drop \in 0..Truncation : Serve(r, c, drop)

Spec == Init /\ [][Next]_vars

-----------------------------------------------------------------------------
(* What the meter and the gate promise.                                     *)

\* The members together are never charged more than WCL counted, as long as no
\* overtaken answer crosses the estimated end of a window: overlapping requests,
\* lost answers, a restart on a warm counter, and answers overtaken inside the
\* window only ever undercharge (observe, meter.ts:55-88).
NoOvercharge == "late" \notin flags => charged <= cum

MaxOf(S) == CHOOSE x \in S : \A y \in S : y <= x

\* A member's bucket passes the hourly quota by what his running requests may still
\* observe, at most MAX_CHARGE per reserved query: no lost, late or overtaken answer,
\* no window and no restart adds more (reserve, quota.ts:32-60; the cap, meter.ts:75-81).
QuotaOverrun ==
    \A u \in User \ Admin :
        LET n == Cardinality({r \in Req : UserOf[r] = u})
        IN  used[u] <= MaxOf({0, UserLimit - Estimate + n * Batch * MaxCharge})

\* The shared client may be driven below POINTS_FLOOR only by what the other requests
\* reserved on the same snapshot: one batch each (all of them, while no snapshot is
\* valid), whatever answer overtakes another inside a window (reserve, quota.ts:44-58).
\* A lost answer, a restart, the seconds pointsResetIn drops at the end of a window, an
\* answer that overtakes one of a later window and one so slow that its window is
\* estimated to outlive WCL's leave the gate without a valid snapshot once more.
Undisturbed ==
    /\ counts.lost = 0 /\ counts.restarts = 0
    /\ flags \intersect {"late", "stretched"} = {}
FloorOverrun ==
    LET batch == Batch * MaxOf(Cost)
        n == Cardinality(Req)
    IN  Undisturbed /\ winEnd - now > Truncation =>
        counter <= MaxOf({MaxOf(StartCounter) + n * batch,
                          WclLimit - PointsFloor - Estimate + n * batch})

\* meter.ts:8-10: an answer of the baseline's own window that lands late is not
\* charged as if the whole counter were new spend.
LateSameWindowFree == "recharged" \notin flags

=============================================================================
