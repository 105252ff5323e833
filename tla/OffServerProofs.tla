--------------------------- MODULE OffServerProofs ---------------------------
(***************************************************************************)
(* Theorems about the two programs beside the server.                      *)
(*                                                                         *)
(* The collector: a day's samples are counted from the database, so that a *)
(* run's own count never falls behind it (DayBounded); a page that was paid *)
(* for in the cycle was cut off, is cached or is on its way (ReadIsCached); *)
(* the counter a job was decided on is at most the members' spending behind *)
(* WCL's (CounterKnown); and the marker follows the members' answers by    *)
(* less than Touch (MarkerFollows).                                        *)
(*                                                                         *)
(* The live strip: what is painted is the roster the addon counts          *)
(* (PaintedIsCurrent), and what the browser holds under the painted        *)
(* frame's number comes from that frame's roster, unless the number was    *)
(* given out again meanwhile (OneText).                                    *)
(***************************************************************************)
EXTENDS Collector, LiveStrip, FiniteSetTheorems, WellFoundedInduction, TLAPS

-----------------------------------------------------------------------------
(* The collector: types                                                    *)

\* A set of numbers that is not empty has a least element, and Min is it.
LEMMA MinIsLeast ==
    ASSUME NEW S \in SUBSET Nat, S # {}
    PROVE  Min(S) \in S
<1>1. PICK m \in S : \A y \in S : ~(<<y, m>> \in OpToRel(<, Nat))
    BY WFMin, NatLessThanWellFounded, Zenon
<1>2. \A y \in S : m <= y
  <2>. SUFFICES ASSUME NEW y \in S PROVE m <= y
    OBVIOUS
  <2>1. y \in Nat /\ m \in Nat
    OBVIOUS
  <2>2. ~(y < m)
    BY <1>1, <2>1 DEF OpToRel
  <2>. QED
    BY <2>1, <2>2
<1>. QED
    BY <1>2 DEF Min

\* The cycle of a time is a natural number, and no more than the time.
LEMMA CycleBounds ==
    ASSUME NEW t \in Nat
    PROVE  t \div Cycle \in 0..t
<1>1. Cycle \in Nat \ {0}
    BY CollectorConstants DEF CollectorConstants
<1>. DEFINE q == t \div Cycle
<1>2. q \in Int /\ Cycle * q <= t /\ t < Cycle * (q + 1)
    BY <1>1
<1>. HIDE DEF q
<1>3. q >= 0
    BY <1>1, <1>2
<1>4. q <= Cycle * q
    BY <1>1, <1>2, <1>3
<1>5. q \in 0..t
  <2>. DEFINE m == Cycle * q
  <2>1. m \in Int /\ m <= t /\ q <= m
    BY <1>1, <1>2, <1>4
  <2>. HIDE DEF m
  <2>. QED
    BY <1>2, <1>3, <2>1
<1>. QED
    BY <1>5 DEF q

\* What a step of the run has: the gate, the counter and the work have a job that is to be done, and
\* the run reads the pages of the cycle that is counted.
Kinds ==
    /\ run.step \in {"gate", "counter", "work"} =>
         run.job \in (IF run.stage = "discovery" THEN Uncached ELSE Candidate)
    /\ run.step = "asleep" =>
         run.job \in (IF run.stage = "discovery" THEN Uncached ELSE Candidate \union {NoJob})
    /\ run.step = "paid" => run.stage = "discovery" /\ run.job \in Uncached /\ run.rl # -1
    /\ run.step # "off" => InCycle = reads.cycle
    /\ run.step = "next" /\ run.stage = "collection" => run.rl = -1
    /\ run.step = "asleep" => run.rl = -1
    /\ run.step \in {"counter", "work"} => run.rl # -1
    /\ reads.cycle \in 0..MaxNow

\* The constants' types, as the proofs use them.
Constants ==
    /\ Window \in Nat \ {0} /\ Limit \in Nat /\ MaxNow \in Nat /\ MaxMember \in Nat /\ RunTime \in Nat \ {0}
    /\ Backoff \in Nat /\ Headroom \in 1..Limit /\ Pause \in Nat /\ Touch \in Nat \ {0} /\ Pace \in Nat /\ Day \in Nat
    /\ Hour \in Nat \ {0}
    /\ MaxBackoff \in Nat /\ Target \in Nat \ {0} /\ Page \subseteq Nat \ {0} /\ Candidate \subseteq Nat \ {0}
    /\ Page \intersect Candidate = {} /\ Never = -Window /\ Reserve \in Nat /\ QuietReserve \in Nat

LEMMA ConstantsTyped == Constants
    BY CollectorConstants DEF CollectorConstants, Constants, Never

\* The run's fields and their types.
LEMMA RunFields ==
    ASSUME CollectorTypeOK
    PROVE  /\ run.step \in {"off", "next", "gate", "counter", "work", "paid", "asleep"}
           /\ run.stage \in {"discovery", "collection"} /\ run.job \in Page \union Candidate \union {NoJob}
           /\ run.rl \in -1..Limit /\ run.wake \in Nat /\ run.end \in Nat /\ run.last \in Times
           /\ run.backoff \in Nat /\ run.day \in Nat /\ run.queue \subseteq Candidate
           /\ run.others \in Nat /\ run.kept \in Nat
           /\ DOMAIN run = {"step", "stage", "job", "rl", "wake", "end", "last", "backoff", "day", "queue", "others", "kept"}
    BY DEF CollectorTypeOK, Runs

\* The records a run is made from are runs.
LEMMA OffTyped == Off \in Runs
    BY ConstantsTyped DEF Off, Runs, Constants, Times, NoJob

LEMMA StoppedTyped ==
    ASSUME CollectorTypeOK PROVE ToCollection \in Runs /\ Stopped \in Runs
<1>1. run \in Runs /\ Queue(RunStart - Window) \subseteq Candidate /\ -1 \in -1..Limit
    BY ConstantsTyped DEF CollectorTypeOK, Constants, Queue
<1>2. NoJob \in Page \union Candidate \union {NoJob}
    OBVIOUS
<1>3. ToCollection \in Runs
    BY <1>1, <1>2 DEF ToCollection, Runs
<1>. QED
    BY <1>3, OffTyped DEF Stopped

LEMMA AtGateTyped ==
    ASSUME CollectorTypeOK, NEW j \in Page \union Candidate, NEW c \in -1..Limit
    PROVE  AtGate(j, c) \in Runs
    BY DEF AtGate, Runs, CollectorTypeOK

\* A day's samples can be counted.
LEMMA DayCounts ==
    ASSUME CollectorTypeOK, IsFiniteSet(db.samples)
    PROVE  OfDay \in Nat
<1>1. IsFiniteSet({s \in db.samples : s.at >= Since(Day)})
    BY FS_Subset
<1>. QED
    BY <1>1, FS_CardinalityType DEF OfDay

\* Every step leaves a typed state.
LEMMA TypeStep ==
    ASSUME CollectorTypeOK, Kinds, IsFiniteSet(db.samples), [CollectorNext]_collectorVars
    PROVE  CollectorTypeOK'
<1>0. Constants
    BY ConstantsTyped
<1>1. CASE Tick
    BY <1>0, <1>1 DEF Tick, CollectorTypeOK, Constants
<1>2. CASE Member
  <2>1. PICK cost \in 0..1 :
        /\ member.n < MaxMember /\ spent + cost <= Limit
        /\ spent' = spent + cost
        /\ member' = [at |-> now, n |-> member.n + 1]
        /\ run' = IF run.step = "off" THEN run ELSE [run EXCEPT !.others = @ + cost]
        /\ touched' = IF Touches THEN now ELSE touched
        /\ marker' = IF Touches /\ marker.file THEN [marker EXCEPT !.at = now] ELSE marker
        /\ UNCHANGED <<now, due, db, reads>>
    BY <1>2 DEF Member
  <2>2. run' \in Runs
    BY <2>1 DEF CollectorTypeOK, Runs
  <2>3. marker' \in [file: BOOLEAN, at: Times, made: Times] /\ touched' \in Times
    BY <2>1 DEF CollectorTypeOK, Times
  <2>4. member' \in [at: Times, n: 0..MaxMember] /\ spent' \in 0..Limit
    BY <1>0, <2>1 DEF CollectorTypeOK, Times, Constants
  <2>. QED
    BY <2>1, <2>2, <2>3, <2>4 DEF CollectorTypeOK
<1>3. CASE Restart
    BY <1>3 DEF Restart, CollectorTypeOK, Times
<1>4. CASE Crash
  <2>1. spent' \in 0..Limit
    BY <1>0, <1>4 DEF Crash, Spends, CollectorTypeOK, Constants
  <2>2. reads' \in [cycle: Nat, of: [Page -> Nat], cut: [Page -> Nat]]
    <3>1. run.step = "paid" => run.job \in Page
      BY DEF Kinds, Uncached
    <3>. QED
      BY <1>4, <3>1 DEF Crash, CollectorTypeOK
  <2>. QED
    BY <1>4, <2>1, <2>2, OffTyped DEF Crash, CollectorTypeOK
<1>5. CASE Start
  <2>1. db'.samples \subseteq Rows /\ db'.failed \subseteq Rows /\ db'.pages = db.pages /\ db'.pool = db.pool
    BY <1>5 DEF Start, Pruned, CollectorTypeOK
  <2>2. marker' \in [file: BOOLEAN, at: Times, made: Times]
    BY <1>5 DEF Start, CollectorTypeOK, Times
  <2>3. Counted \in Nat
    BY DayCounts DEF Counted, OfDay
  <2>. DEFINE finds == [Off EXCEPT !.step = "next", !.end = now + RunTime, !.day = Counted]
              collects == [Off EXCEPT !.step = "next", !.end = now + RunTime, !.day = Counted,
                                      !.stage = "collection", !.queue = Queue(Since(Window))]
  <2>4. run' \in {Off, finds, collects}
    BY <1>5 DEF Start
  <2>6. now + RunTime \in Nat /\ Queue(Since(Window)) \subseteq Candidate
    BY <1>0 DEF CollectorTypeOK, Constants, Queue
  <2>7. finds \in Runs /\ collects \in Runs
    BY <2>3, <2>6, OffTyped DEF Runs
  <2>8. run' \in Runs
    BY <2>4, <2>7, OffTyped
  <2>5. reads' \in [cycle: Nat, of: [Page -> Nat], cut: [Page -> Nat]]
    BY <1>5, CycleBounds DEF Start, NoReads, CollectorTypeOK
  <2>. QED
    BY <1>5, <2>1, <2>2, <2>5, <2>8 DEF Start, CollectorTypeOK
<1>6. CASE NextPage
  <2>1. Min(Uncached) \in Page
    BY <1>0, <1>6, MinIsLeast DEF NextPage, Uncached, Constants
  <2>2. run' \in Runs
    BY <1>6, <2>1, AtGateTyped, RunFields DEF NextPage
  <2>. QED
    BY <1>6, <2>2 DEF NextPage, CollectorTypeOK
<1>7. CASE PutPool
  <2>1. db'.pool \in -1..MaxNow /\ db'.pages \subseteq db.pages /\ db'.samples = db.samples /\ db'.failed = db.failed
    BY <1>7 DEF PutPool, Kinds, CollectorTypeOK
  <2>. QED
    BY <1>7, <2>1, StoppedTyped DEF PutPool, CollectorTypeOK
<1>8. CASE NextCandidate
  <2>1. ASSUME NEW c \in Emptiest, run' = [AtGate(c, -1) EXCEPT !.queue = @ \ {c}] PROVE run' \in Runs
    <3>1. c \in Candidate
      BY RunFields DEF Emptiest
    <3>2. AtGate(c, -1) \in Runs
      BY <1>0, <3>1, AtGateTyped DEF Constants
    <3>. HIDE DEF AtGate
    <3>. QED
      BY <2>1, <3>2 DEF Runs
  <2>2. run' \in Runs
    BY <1>8, <2>1, OffTyped DEF NextCandidate
  <2>. QED
    BY <1>8, <2>2 DEF NextCandidate, CollectorTypeOK
<1>9. CASE Over
    BY <1>9, StoppedTyped DEF Over, CollectorTypeOK
<1>10. CASE Ask
  <2>1. spent \in -1..Limit /\ run \in Runs
    BY <1>0 DEF CollectorTypeOK, Constants
  <2>2. run' \in Runs
    BY <1>10, <2>1 DEF Ask, Runs
  <2>. QED
    BY <1>10, <2>2 DEF Ask, CollectorTypeOK
<1>11. CASE Decide
  <2>. DEFINE waits(t) == [run EXCEPT !.step = "asleep", !.rl = -1, !.wake = Least(t, run.end)]
              works == [run EXCEPT !.step = "work", !.kept = Keep,
                                   !.last = IF run.stage = "collection" THEN now ELSE @]
  <2>1. ASSUME NEW t \in Nat PROVE waits(t) \in Runs
    <3>1. Least(t, run.end) \in Nat /\ run \in Runs /\ -1 \in -1..Limit
      BY <1>0, RunFields DEF Least, Constants, CollectorTypeOK
    <3>. QED
      BY <3>1 DEF Runs
  <2>2. works \in Runs
    <3>1. Keep \in Nat /\ now \in Times /\ run \in Runs
      BY <1>0 DEF CollectorTypeOK, Keep, Least, Constants, Times
    <3>. QED
      BY <3>1 DEF Runs
  <2>3. Paused => marker.at + Pause \in Nat
    BY <1>0 DEF Paused, CollectorTypeOK, Times, Constants
  <2>4. Paces => run.last + Pace \in Nat
    BY <1>0, RunFields DEF Paces, CollectorTypeOK, Times, Constants
  <2>5. run' \in {Stopped, works} \/ (Paused /\ run' = waits(marker.at + Pause)) \/ (Paces /\ run' = waits(run.last + Pace))
    BY <1>11 DEF Decide
  <2>. HIDE DEF waits, works
  <2>6. run' \in Runs
    BY <2>1, <2>2, <2>3, <2>4, <2>5, StoppedTyped
  <2>. QED
    BY <1>11, <2>6 DEF Decide, CollectorTypeOK
<1>12. CASE Wake
  <2>1. [run EXCEPT !.step = "next"] \in Runs
    BY DEF CollectorTypeOK, Runs
  <2>2. run' \in Runs
    BY <1>0, <1>12, <2>1, AtGateTyped, RunFields DEF Wake, Constants
  <2>. QED
    BY <1>12, <2>2 DEF Wake, CollectorTypeOK
<1>13. CASE PageRead
  <2>1. run.job \in Page /\ InCycle \in Nat
    BY <1>13 DEF PageRead, Kinds, Uncached
  <2>2. run' \in Runs
    BY <1>13 DEF PageRead, Runs, CollectorTypeOK
  <2>4. db'.pages \subseteq Page \X Nat /\ db'.samples = db.samples /\ db'.failed = db.failed /\ db'.pool = db.pool
    BY <1>13, <2>1 DEF PageRead, CollectorTypeOK
  <2>. QED
    BY <1>0, <1>13, <2>2, <2>4 DEF PageRead, CollectorTypeOK, Constants
<1>16. CASE Serve
  <2>1. run.job \in Page
    BY <1>16 DEF Serve, Kinds, Uncached
  <2>2. spent + 1 \in -1..Limit /\ run \in Runs
    BY <1>0, <1>16 DEF Serve, CollectorTypeOK, Constants
  <2>3. run' \in Runs
    BY <1>16, <2>2 DEF Serve, Runs
  <2>4. reads' \in [cycle: Nat, of: [Page -> Nat], cut: [Page -> Nat]]
    BY <1>16, <2>1 DEF Serve, CollectorTypeOK
  <2>. QED
    BY <1>0, <1>16, <2>3, <2>4 DEF Serve, CollectorTypeOK, Constants
<1>14. ASSUME PutSample \/ Fail \/ TooMany PROVE CollectorTypeOK'
  <2>1. run.job \in Candidate
    BY <1>14 DEF PutSample, Fail, TooMany, Kinds
  <2>2. Put(db.samples) \subseteq Rows /\ Put(db.failed) \subseteq Rows
    BY <2>1 DEF Put, Rows, CollectorTypeOK
  <2>3. /\ db'.samples \subseteq Rows /\ db'.failed \subseteq Rows
        /\ db'.pages \subseteq Page \X Nat /\ db'.pool \in -1..MaxNow
    <3>1. CASE PutSample
      BY <2>2, <3>1 DEF PutSample, CollectorTypeOK
    <3>2. CASE Fail
      BY <2>2, <3>2 DEF Fail, CollectorTypeOK
    <3>3. CASE TooMany
      BY <3>3 DEF TooMany, CollectorTypeOK
    <3>. QED
      BY <1>14, <3>1, <3>2, <3>3
  <2>4. AfterJob \in Runs
    <3>1. run \in Runs /\ -1 \in -1..Limit
      BY <1>0 DEF Constants, CollectorTypeOK
    <3>. QED
      BY <3>1 DEF AfterJob, Runs
  <2>5. run' \in Runs
    <3>1. CASE PutSample
      <4>1. AfterJob.day + 1 \in Nat /\ Backoff \in Nat
        BY <1>0, <2>4 DEF Runs, Constants
      <4>. HIDE DEF AfterJob
      <4>2. [AfterJob EXCEPT !.day = @ + 1, !.backoff = Backoff] \in Runs
        BY <2>4, <4>1 DEF Runs
      <4>. QED
        BY <3>1, <4>2, OffTyped DEF PutSample
    <3>2. CASE Fail
      BY <1>0, <2>4, <3>2 DEF Fail, Runs, Constants
    <3>3. CASE TooMany
      <4>1. /\ Least(now + run.backoff, IF run.end > now THEN run.end ELSE now) \in Nat
            /\ Least(2 * run.backoff, MaxBackoff) \in Nat
        BY <1>0, RunFields DEF Least, CollectorTypeOK, Constants
      <4>2. run.queue \union {run.job} \subseteq Candidate
        BY <2>1, RunFields
      <4>3. AfterJob.queue = run.queue /\ AfterJob.backoff = run.backoff
        BY RunFields DEF AfterJob
      <4>. HIDE DEF AfterJob
      <4>. QED
        BY <2>4, <3>3, <4>1, <4>2, <4>3 DEF TooMany, Runs
    <3>. QED
      BY <1>14, <3>1, <3>2, <3>3
  <2>6. spent' \in 0..Limit
    BY <1>0, <1>14 DEF PutSample, Fail, TooMany, Spends, CollectorTypeOK, Constants
  <2>. QED
    BY <1>14, <2>3, <2>5, <2>6 DEF PutSample, Fail, TooMany, CollectorTypeOK
<1>15. CASE UNCHANGED collectorVars
    BY <1>15 DEF collectorVars, CollectorTypeOK
<1>. QED
    BY <1>1, <1>2, <1>3, <1>4, <1>5, <1>6, <1>7, <1>8, <1>9, <1>10, <1>11, <1>12, <1>13, <1>14, <1>15, <1>16
       DEF CollectorNext

-----------------------------------------------------------------------------
(* The collector: the inductive invariant                                  *)

\* The run's count of the day is the database's, or more once samples have grown old.
DayBounded ==
    /\ IsFiniteSet(db.samples)
    /\ OfDay <= Target
    /\ run.step # "off" => OfDay <= run.day /\ run.day < Target

\* What was paid for in the cycle was cut off, is cached, or is on its way.
OnItsWay(p) == run.step = "paid" /\ run.job = p
ReadIsCached ==
    \A p \in Page :
        /\ OnItsWay(p) => reads.of[p] = reads.cut[p] + 1
        /\ ~OnItsWay(p) => \/ reads.of[p] = reads.cut[p]
                           \/ reads.of[p] = reads.cut[p] + 1 /\ <<p, reads.cycle>> \in db.pages

\* WCL's counter is the one that was read, and what members have spent since; a job that has
\* started leaves the reserve and a lookup's headroom.
CounterKnown ==
    /\ run.step \in {"next", "gate", "counter", "work", "paid"} /\ run.rl # -1 => spent <= run.rl + run.others
    /\ run.step = "work" => Limit - run.rl >= run.kept + Headroom

\* The marker is as young as the server's last touch, and the last member's answer at most Touch
\* younger, unless they came before it was made.
MarkerFollows ==
    /\ run.step # "off" => marker.file
    /\ touched <= now /\ member.at <= now
    /\ marker.file =>
         /\ touched <= marker.at \/ touched <= marker.made
         /\ member.at < marker.at + Touch \/ member.at < marker.made + Touch

CollectorInv == CollectorTypeOK /\ Kinds /\ DayBounded /\ ReadIsCached /\ CounterKnown /\ MarkerFollows

\* The invariant holds at the start.
LEMMA CollectorStarts == CollectorInit => CollectorInv
<1>. SUFFICES ASSUME CollectorInit PROVE CollectorInv
    OBVIOUS
<1>0. Constants
    BY ConstantsTyped
<1>1. /\ now = 0 /\ due = TRUE /\ spent = 0 /\ touched = Never /\ member = [at |-> Never, n |-> 0]
      /\ db = [samples |-> {}, failed |-> {}, pages |-> {}, pool |-> -1] /\ run = Off
      /\ reads = [cycle |-> 0, of |-> [p \in Page |-> 0], cut |-> [p \in Page |-> 0]]
      /\ marker.at = Never /\ marker.made = Never /\ marker \in [file: BOOLEAN, at: Times, made: Times]
    BY DEF CollectorInit, NoReads, Times
<1>2. CollectorTypeOK
    BY <1>0, <1>1, OffTyped DEF CollectorTypeOK, Constants, Times
<1>3. run.step = "off"
    BY <1>1 DEF Off
<1>4. Kinds /\ CounterKnown
    BY <1>0, <1>1, <1>3 DEF Kinds, CounterKnown, Constants
<1>5. OfDay = 0 /\ IsFiniteSet(db.samples)
  <2>1. {s \in db.samples : s.at >= Since(Day)} = {}
    BY <1>1
  <2>. QED
    BY <1>1, <2>1, FS_EmptySet DEF OfDay
<1>6. DayBounded
    BY <1>0, <1>3, <1>5 DEF DayBounded, Constants
<1>7. ReadIsCached
    BY <1>1, <1>3 DEF ReadIsCached, OnItsWay
<1>8. MarkerFollows
    BY <1>0, <1>1, <1>3 DEF MarkerFollows, Constants
<1>. QED
    BY <1>2, <1>4, <1>6, <1>7, <1>8 DEF CollectorInv

\* The steps of a run that has started, and what they leave alone.
RunStep ==
    \/ NextPage \/ PutPool \/ NextCandidate \/ Over \/ Ask \/ Decide \/ Wake
    \/ Serve \/ PageRead \/ PutSample \/ Fail \/ TooMany

LEMMA RunSteps ==
    ASSUME RunStep \/ Crash
    PROVE  run.step # "off" /\ UNCHANGED <<now, due, marker, touched, member>>
    BY DEF RunStep, Crash, InGap, NextPage, PutPool, NextCandidate, Over, Ask, Decide, Wake, Serve, PageRead,
       PutSample, Fail, TooMany

\* Every step leaves the marker close behind the members' answers.
LEMMA MarkerStep ==
    ASSUME CollectorInv, CollectorTypeOK', [CollectorNext]_collectorVars
    PROVE  MarkerFollows'
<1>. USE DEF MarkerFollows
<1>0. /\ Constants /\ now \in 0..MaxNow /\ touched \in Times /\ member.at \in Times
      /\ marker \in [file: BOOLEAN, at: Times, made: Times] /\ MarkerFollows
    BY ConstantsTyped DEF CollectorInv, CollectorTypeOK
<1>1. CASE Tick
    BY <1>0, <1>1 DEF Tick, Times, Constants
<1>2. CASE Member
  <2>1. /\ now' = now /\ member'.at = now /\ touched' = IF Touches THEN now ELSE touched
        /\ marker' = IF Touches /\ marker.file THEN [marker EXCEPT !.at = now] ELSE marker
        /\ run'.step = run.step
    BY <1>2 DEF Member, CollectorInv, CollectorTypeOK, Runs
  <2>2. CASE Touches
    BY <1>0, <2>1, <2>2 DEF Times, Constants
  <2>3. CASE ~Touches
    BY <1>0, <2>1, <2>3 DEF Times, Constants, Touches
  <2>. QED
    BY <2>2, <2>3
<1>3. CASE Restart
    BY <1>0, <1>3 DEF Restart, Times, Constants
<1>4. CASE Start
    BY <1>0, <1>4 DEF Start, Times, Constants
<1>5. CASE RunStep \/ Crash
    BY <1>0, <1>5, RunSteps
<1>6. CASE UNCHANGED collectorVars
    BY <1>0, <1>6 DEF collectorVars
<1>. QED
    BY <1>1, <1>2, <1>3, <1>4, <1>5, <1>6 DEF CollectorNext, RunStep

\* What a run that stops, or goes on to the next job, has in its fields.
LEMMA StoppedFields ==
    ASSUME CollectorTypeOK
    PROVE  /\ Off.step = "off" /\ Off.rl = -1
           /\ ToCollection.step = "next" /\ ToCollection.stage = "collection" /\ ToCollection.rl = -1
           /\ ToCollection.end = run.end /\ ToCollection.day = run.day
           /\ AfterJob.step = "next" /\ AfterJob.rl = -1 /\ AfterJob.end = run.end /\ AfterJob.day = run.day
           /\ AfterJob.stage = run.stage /\ AfterJob.job = NoJob /\ DOMAIN AfterJob = DOMAIN run
           /\ {"step", "stage", "job", "rl", "end", "day"} \subseteq DOMAIN run
           /\ Stopped \in {Off, ToCollection}
    BY DEF Off, ToCollection, AfterJob, Stopped, CollectorTypeOK, Runs

\* How a lookup ends.
LEMMA JobEnds ==
    ASSUME CollectorTypeOK, PutSample \/ Fail
    PROVE  \/ run' = Off
           \/ run'.step = "next" /\ run'.rl = -1 /\ run'.end = run.end
<1>0. /\ {"step", "stage", "job", "rl", "end", "day"} \subseteq DOMAIN AfterJob
      /\ AfterJob.step = "next" /\ AfterJob.rl = -1 /\ AfterJob.end = run.end
    BY StoppedFields
<1>1. CASE PutSample
  <2>1. run' = Off \/ run' = [AfterJob EXCEPT !.day = @ + 1, !.backoff = Backoff]
    BY <1>1 DEF PutSample
  <2>. HIDE DEF AfterJob
  <2>. QED
    BY <1>0, <2>1
<1>2. CASE Fail
  <2>1. run' = AfterJob \/ run' = [AfterJob EXCEPT !.backoff = Backoff]
    BY <1>2 DEF Fail
  <2>. HIDE DEF AfterJob
  <2>. QED
    BY <1>0, <2>1
<1>. QED
    BY <1>1, <1>2

\* How it ends when WCL limits the address.
LEMMA JobSleeps ==
    ASSUME CollectorTypeOK, TooMany
    PROVE  run'.step = "asleep" /\ run'.rl = -1 /\ run'.end = run.end
<1>1. run'.step = "asleep" /\ run'.rl = AfterJob.rl /\ run'.end = AfterJob.end
    BY StoppedFields DEF TooMany, AfterJob
<1>. QED
    BY <1>1, StoppedFields

\* Where a step of the run leads.
LEMMA Led ==
    ASSUME CollectorTypeOK, RunStep \/ Crash
    PROVE  \/ run'.step = "off"
           \/ run'.step \in {"next", "gate", "counter", "work", "paid", "asleep"} /\ run'.end = run.end
<1>1. CASE Crash \/ Over \/ PutPool
    BY <1>1, StoppedFields DEF Crash, Over, PutPool
<1>2. CASE NextPage \/ NextCandidate \/ Wake \/ Ask
  <2>1. ASSUME NEW j, NEW c PROVE AtGate(j, c).end = run.end /\ AtGate(j, c).step = "gate"
    BY DEF AtGate, CollectorTypeOK, Runs
  <2>2. CASE NextCandidate
    <3>1. run' = Off \/ \E c \in Emptiest : run' = [AtGate(c, -1) EXCEPT !.queue = @ \ {c}]
      BY <2>2 DEF NextCandidate
    <3>. QED
      BY <3>1, StoppedFields DEF AtGate, CollectorTypeOK, Runs
  <2>3. CASE NextPage \/ Wake
    BY <2>1, <2>3 DEF NextPage, Wake, CollectorTypeOK, Runs
  <2>4. CASE Ask
    BY <2>4 DEF Ask, CollectorTypeOK, Runs
  <2>. QED
    BY <1>2, <2>2, <2>3, <2>4
<1>3. CASE Decide
    BY <1>3, StoppedFields DEF Decide, CollectorTypeOK, Runs
<1>4. CASE Serve \/ PageRead
    BY <1>4 DEF Serve, PageRead, CollectorTypeOK, Runs
<1>5. CASE PutSample \/ Fail \/ TooMany
  <2>. QED
    BY <1>5, JobEnds, JobSleeps, StoppedFields
<1>. QED
    BY <1>1, <1>2, <1>3, <1>4, <1>5 DEF RunStep

\* Every step leaves the counter known up to what members have spent.
LEMMA CounterStep ==
    ASSUME CollectorInv, CollectorTypeOK', [CollectorNext]_collectorVars
    PROVE  CounterKnown'
<1>. USE DEF CounterKnown
<1>0. /\ Constants /\ CollectorTypeOK /\ Kinds /\ CounterKnown /\ run \in Runs
      /\ spent \in Nat /\ run.rl \in -1..Limit /\ run.others \in Nat /\ run.kept \in Nat
    BY ConstantsTyped, RunFields DEF CollectorInv, CollectorTypeOK
<1>1. CASE Tick
    BY <1>0, <1>1 DEF Tick, Constants
<1>2. CASE Member
    BY <1>0, <1>2 DEF Member, Runs
<1>3. CASE Start
  <2>1. run'.rl = -1 /\ run'.step \in {"off", "next"}
    BY <1>3 DEF Start, Off
  <2>. QED
    BY <2>1
<1>4. CASE Crash \/ Over \/ PutPool
    BY <1>4, <1>0, StoppedFields DEF Crash, Over, PutPool
<1>5. CASE NextPage
  <2>1. run'.rl = run.rl /\ run'.others = run.others /\ run'.step = "gate" /\ spent' = spent /\ run.step = "next"
    BY <1>0, <1>5 DEF NextPage, AtGate, Runs
  <2>. QED
    BY <1>0, <2>1
<1>6. CASE NextCandidate
  <2>1. run' = Off \/ \E c \in Emptiest : run' = [AtGate(c, -1) EXCEPT !.queue = @ \ {c}]
    BY <1>6 DEF NextCandidate
  <2>2. run'.step = "off" \/ (run'.rl = -1 /\ run'.step = "gate")
    BY <1>0, <2>1, StoppedFields DEF AtGate, Runs
  <2>. QED
    BY <2>2
<1>7. CASE Ask
  <2>1. run'.rl = spent /\ run'.others = 0 /\ run'.step = "counter" /\ spent' = spent
    BY <1>0, <1>7 DEF Ask, Runs
  <2>. QED
    BY <1>0, <2>1
<1>8. CASE Decide
  <2>1. spent' = spent /\ run.step \in {"gate", "counter"} /\ run.rl # -1
    BY <1>0, <1>8 DEF Decide, Kinds
  <2>2. \/ run'.step \in {"off", "asleep"} \/ (run'.step = "next" /\ run'.rl = -1)
        \/ /\ run'.step = "work" /\ run'.rl = run.rl /\ run'.others = run.others /\ run'.kept = Keep
           /\ ~Lacks(run.rl)
    BY <1>0, <1>8, StoppedFields DEF Decide, Runs
  <2>3. Keep \in Nat
    BY <1>0 DEF Keep, Least, Constants
  <2>. QED
    BY <1>0, <2>1, <2>2, <2>3 DEF Lacks, Constants
<1>9. CASE Wake
  <2>1. run'.rl = -1 /\ run'.step \in {"next", "gate"}
    BY <1>0, <1>9 DEF Wake, AtGate, Runs, Kinds
  <2>. QED
    BY <2>1
<1>10. CASE Serve \/ PageRead
  <2>1. CASE Serve
    <3>1. run'.rl = spent + 1 /\ run'.others = 0 /\ run'.step = "paid" /\ spent' = spent + 1
      BY <1>0, <2>1 DEF Serve, Runs
    <3>. QED
      BY <1>0, <3>1
  <2>2. CASE PageRead
    <3>1. /\ run'.rl = run.rl /\ run'.others = run.others /\ run.step = "paid" /\ run'.step = "next"
          /\ spent' = spent
      BY <1>0, <2>2 DEF PageRead, Runs
    <3>. QED
      BY <1>0, <3>1
  <2>. QED
    BY <1>10, <2>1, <2>2
<1>11. CASE PutSample \/ Fail \/ TooMany
  <2>. QED
    BY <1>0, <1>11, JobEnds, JobSleeps, StoppedFields
<1>12. CASE Restart \/ UNCHANGED collectorVars
    BY <1>0, <1>12 DEF Restart, collectorVars
<1>. QED
    BY <1>1, <1>2, <1>3, <1>4, <1>5, <1>6, <1>7, <1>8, <1>9, <1>10, <1>11, <1>12 DEF CollectorNext

\* What is uncached depends on the run's end and on the cached pages alone.
LEMMA SameUncached ==
    ASSUME run'.end = run.end
    PROVE  /\ InCycle' = InCycle
           /\ db'.pages = db.pages => Uncached' = Uncached
    BY DEF InCycle, RunStart, Uncached

\* Every step leaves a job where the run's step needs one.
LEMMA KindsStep ==
    ASSUME CollectorInv, CollectorTypeOK', [CollectorNext]_collectorVars
    PROVE  Kinds'
<1>. USE DEF Kinds
<1>0. Constants /\ CollectorTypeOK /\ Kinds /\ run \in Runs
    BY ConstantsTyped DEF CollectorInv, CollectorTypeOK
<1>1. CASE Tick \/ Restart \/ UNCHANGED collectorVars
  <2>1. run' = run /\ db' = db /\ reads' = reads
    BY <1>1 DEF Tick, Restart, collectorVars
  <2>. QED
    BY <1>0, <2>1, SameUncached
<1>2. CASE Member
  <2>1. /\ run'.step = run.step /\ run'.stage = run.stage /\ run'.job = run.job /\ run'.rl = run.rl
        /\ run'.end = run.end /\ db' = db /\ reads' = reads
    BY <1>0, <1>2 DEF Member, Runs
  <2>. QED
    BY <1>0, <2>1, SameUncached
<1>3. CASE Start
  <2>1. run'.step \in {"off", "next"} /\ run'.rl = -1 /\ (run'.step = "next" => run'.end = now + RunTime)
    BY <1>3 DEF Start, Off
  <2>2. reads'.cycle = now \div Cycle
    BY <1>3 DEF Start, NoReads
  <2>3. reads'.cycle \in 0..MaxNow
    BY <1>0, <2>2, CycleBounds DEF CollectorTypeOK, Constants
  <2>4. run'.step = "next" => InCycle' = reads'.cycle
    <3>1. now + RunTime - RunTime = now
      BY <1>0 DEF CollectorTypeOK, Constants
    <3>2. run'.step = "next" => RunStart' = now
      <4>. SUFFICES ASSUME run'.step = "next" PROVE run'.end - RunTime = now
        BY DEF RunStart
      <4>1. run'.end = now + RunTime
        BY <2>1
      <4>2. now \in Nat /\ RunTime \in Nat
        BY <1>0 DEF CollectorTypeOK, Constants
      <4>. QED
        BY <4>1, <4>2
    <3>. QED
      BY <2>1, <2>2, <3>2, Zenon DEF InCycle
  <2>. QED
    BY <2>1, <2>3, <2>4
<1>4. CASE RunStep \/ Crash
  <2>1. reads'.cycle = reads.cycle
    BY <1>4 DEF RunStep, Crash, NextPage, PutPool, NextCandidate, Over, Ask, Decide, Wake, Serve, PageRead,
       PutSample, Fail, TooMany, CollectorTypeOK
  <2>2. run'.step # "off" => InCycle' = reads'.cycle
    BY <1>0, <1>4, <2>1, Led, SameUncached, RunSteps
  <2>3. /\ run'.step \in {"gate", "counter", "work"} =>
             run'.job \in (IF run'.stage = "discovery" THEN Uncached' ELSE Candidate)
        /\ run'.step = "asleep" =>
             run'.job \in (IF run'.stage = "discovery" THEN Uncached' ELSE Candidate \union {NoJob})
        /\ run'.step = "next" /\ run'.stage = "collection" => run'.rl = -1
        /\ run'.step = "asleep" => run'.rl = -1
        /\ run'.step \in {"counter", "work"} => run'.rl # -1
        /\ run'.step = "paid" => run'.stage = "discovery" /\ run'.job \in Uncached' /\ run'.rl # -1
    <3>1. CASE Crash \/ Over \/ PutPool
      BY <1>0, <3>1, StoppedFields DEF Crash, Over, PutPool
    <3>2. CASE NextPage
      <4>1. Min(Uncached) \in Uncached
        BY <1>0, <3>2, MinIsLeast DEF NextPage, Uncached, Constants
      <4>2. /\ run'.step = "gate" /\ run'.job = Min(Uncached) /\ run'.stage = "discovery"
            /\ run'.end = run.end /\ db' = db
        BY <1>0, <3>2 DEF NextPage, AtGate, Runs
      <4>. QED
        BY <4>1, <4>2, SameUncached
    <3>3. CASE NextCandidate
      <4>1. run' = Off \/ \E c \in Emptiest : run' = [AtGate(c, -1) EXCEPT !.queue = @ \ {c}]
        BY <3>3 DEF NextCandidate
      <4>2. Emptiest \subseteq Candidate /\ run.stage = "collection"
        BY <1>0, <3>3, RunFields DEF NextCandidate, Emptiest
      <4>3. run'.step = "off" \/ (run'.step = "gate" /\ run'.job \in Candidate /\ run'.stage = "collection")
        BY <1>0, <4>1, <4>2, StoppedFields DEF AtGate, Runs
      <4>. QED
        BY <4>3
    <3>4. CASE Ask
      <4>1. /\ run'.step = "counter" /\ run'.job = run.job /\ run'.stage = run.stage
            /\ run'.end = run.end /\ db' = db /\ run'.rl = spent /\ spent \in Nat /\ run.step = "gate"
        BY <1>0, <3>4 DEF Ask, Runs, CollectorTypeOK
      <4>. QED
        BY <1>0, <4>1, SameUncached
    <3>5. CASE Decide
      <4>1. run.step \in {"gate", "counter"} /\ run.rl # -1 /\ db' = db
        BY <1>0, <3>5 DEF Decide
      <4>2. \/ run' \in {Off, ToCollection}
            \/ /\ run'.job = run.job /\ run'.stage = run.stage /\ run'.end = run.end
               /\ (run'.step = "asleep" /\ run'.rl = -1) \/ (run'.step = "work" /\ run'.rl = run.rl)
        BY <1>0, <3>5, StoppedFields DEF Decide, Runs
      <4>. QED
        BY <1>0, <4>1, <4>2, SameUncached, StoppedFields
    <3>6. CASE Wake
      <4>1. run.step = "asleep" /\ run.rl = -1 /\ db' = db
        BY <1>0, <3>6 DEF Wake
      <4>2. /\ run'.job = run.job /\ run'.stage = run.stage /\ run'.end = run.end /\ run'.rl = -1
            /\ run'.step = IF run.job = NoJob THEN "next" ELSE "gate"
        BY <1>0, <3>6 DEF Wake, AtGate, Runs
      <4>3. NoJob \notin Uncached
        BY <1>0 DEF Uncached, NoJob, Constants
      <4>. QED
        BY <1>0, <4>1, <4>2, <4>3, SameUncached
    <3>7. CASE PageRead
      <4>1. run'.step = "next" /\ run'.stage = "discovery"
        BY <1>0, <3>7 DEF PageRead, Runs
      <4>. QED
        BY <4>1
    <3>8. CASE PutSample \/ Fail
      <4>1. run'.step = "off" \/ (run'.step = "next" /\ run'.rl = -1)
        BY <1>0, <3>8, JobEnds, StoppedFields
      <4>. QED
        BY <4>1
    <3>9. CASE TooMany
      <4>1. /\ run'.step = "asleep" /\ run'.rl = -1 /\ run'.job = NoJob /\ run'.stage = "collection"
        BY <1>0, <3>9 DEF TooMany, AfterJob, Runs
      <4>. QED
        BY <4>1
    <3>10. CASE Serve
      <4>1. /\ run'.step = "paid" /\ run'.stage = "discovery" /\ run'.job = run.job /\ run'.rl = spent + 1
            /\ run'.end = run.end /\ db' = db /\ spent \in Nat /\ run.step = "work" /\ run.stage = "discovery"
        BY <1>0, <3>10 DEF Serve, Runs, CollectorTypeOK
      <4>. QED
        BY <1>0, <4>1, SameUncached
    <3>. QED
      BY <1>4, <3>1, <3>2, <3>3, <3>4, <3>5, <3>6, <3>7, <3>8, <3>9, <3>10 DEF RunStep
  <2>. QED
    BY <1>0, <2>1, <2>2, <2>3
<1>. QED
    BY <1>1, <1>2, <1>3, <1>4 DEF CollectorNext, RunStep

\* Every step leaves the pages that were read cached.
LEMMA CachedStep ==
    ASSUME CollectorInv, CollectorTypeOK', [CollectorNext]_collectorVars
    PROVE  ReadIsCached'
<1>. USE DEF ReadIsCached
<1>0. /\ Constants /\ CollectorTypeOK /\ Kinds /\ ReadIsCached /\ run \in Runs
      /\ reads \in [cycle: Nat, of: [Page -> Nat], cut: [Page -> Nat]]
    BY ConstantsTyped DEF CollectorInv, CollectorTypeOK
<1>1. CASE Start
  <2>1. db'.pages = db.pages
    BY <1>1 DEF Start, Pruned, CollectorTypeOK
  <2>2. reads' = reads \/ \A p \in Page : reads'.of[p] = reads'.cut[p]
    BY <1>1 DEF Start, NoReads
  <2>3. \A p \in Page : ~OnItsWay(p) /\ ~OnItsWay(p)'
    BY <1>1 DEF Start, OnItsWay, Off
  <2>. QED
    BY <1>0, <2>1, <2>2, <2>3
<1>2. CASE PutPool
  <2>1. db'.pages = {p \in db.pages : p[2] >= InCycle} /\ reads' = reads /\ InCycle = reads.cycle
    BY <1>0, <1>2 DEF PutPool, Kinds, CollectorTypeOK
  <2>2. \A p \in Page : ~OnItsWay(p) /\ ~OnItsWay(p)'
    BY <1>0, <1>2, StoppedFields DEF PutPool, OnItsWay
  <2>. QED
    BY <1>0, <2>1, <2>2
<1>3. CASE Serve
  <2>1. run.job \in Uncached /\ InCycle = reads.cycle /\ run.job \in Page /\ <<run.job, reads.cycle>> \notin db.pages
    BY <1>0, <1>3 DEF Serve, Kinds, Uncached
  <2>2. /\ reads'.cycle = reads.cycle /\ reads'.of = [reads.of EXCEPT ![run.job] = @ + 1] /\ reads'.cut = reads.cut
        /\ db' = db
    BY <1>0, <1>3 DEF Serve, CollectorTypeOK
  <2>3. \A p \in Page : ~OnItsWay(p)
    BY <1>3 DEF Serve, OnItsWay
  <2>4. run'.step = "paid" /\ run'.job = run.job /\ reads.of[run.job] = reads.cut[run.job]
    BY <1>0, <1>3, <2>1, <2>3 DEF Serve, OnItsWay, Runs
  <2>5. ASSUME NEW p \in Page, p # run.job
        PROVE  /\ ~OnItsWay(p)'
               /\ \/ reads'.of[p] = reads'.cut[p]
                  \/ reads'.of[p] = reads'.cut[p] + 1 /\ <<p, reads'.cycle>> \in db'.pages
    <3>1. ~OnItsWay(p)'
      BY <1>0, <1>3, <2>5 DEF Serve, OnItsWay, Runs
    <3>. QED
      BY <1>0, <2>2, <2>3, <2>5, <3>1
  <2>6. reads'.of[run.job] = reads'.cut[run.job] + 1
    BY <1>0, <2>1, <2>2, <2>4
  <2>7. ASSUME NEW p \in Page
        PROVE  /\ OnItsWay(p)' => reads'.of[p] = reads'.cut[p] + 1
               /\ ~OnItsWay(p)' => \/ reads'.of[p] = reads'.cut[p]
                                   \/ reads'.of[p] = reads'.cut[p] + 1 /\ <<p, reads'.cycle>> \in db'.pages
    <3>1. CASE p = run.job
      BY <2>4, <2>6, <3>1 DEF OnItsWay
    <3>2. CASE p # run.job
      BY <2>5, <3>2
    <3>. QED
      BY <3>1, <3>2
  <2>. QED
    BY <2>7
<1>6. CASE PageRead
  <2>1. InCycle = reads.cycle /\ reads' = reads /\ db'.pages = db.pages \union {<<run.job, InCycle>>}
    BY <1>0, <1>6 DEF PageRead, Kinds, CollectorTypeOK
  <2>2. \A p \in Page : ~OnItsWay(p)' /\ (OnItsWay(p) => <<p, reads.cycle>> \in db'.pages)
    BY <1>0, <1>6, <2>1 DEF PageRead, OnItsWay, Runs
  <2>. QED
    BY <1>0, <2>1, <2>2
<1>7. CASE Crash
  <2>1. db' = db /\ reads' = IF run.step = "paid" THEN [reads EXCEPT !.cut[run.job] = @ + 1] ELSE reads
    BY <1>7 DEF Crash
  <2>4. \A p \in Page : ~OnItsWay(p)'
    BY <1>7 DEF Crash, OnItsWay, Off
  <2>2. CASE run.step = "paid"
    <3>1. run.job \in Uncached /\ run.job \in Page /\ <<run.job, reads.cycle>> \notin db.pages
      BY <1>0, <2>2 DEF Kinds, Uncached
    <3>2. /\ reads'.cycle = reads.cycle /\ reads'.of = reads.of
          /\ reads'.cut = [reads.cut EXCEPT ![run.job] = @ + 1]
      BY <1>0, <2>1, <2>2
    <3>3. ASSUME NEW p \in Page, p # run.job
          PROVE  \/ reads'.of[p] = reads'.cut[p]
                 \/ reads'.of[p] = reads'.cut[p] + 1 /\ <<p, reads'.cycle>> \in db'.pages
      BY <1>0, <2>1, <3>2, <3>3 DEF OnItsWay
    <3>4. reads.of[run.job] = reads.cut[run.job] + 1
      BY <1>0, <2>2, <3>1 DEF OnItsWay
    <3>5. reads'.of[run.job] = reads'.cut[run.job]
      BY <1>0, <3>1, <3>2, <3>4
    <3>6. ASSUME NEW p \in Page
          PROVE  \/ reads'.of[p] = reads'.cut[p]
                 \/ reads'.of[p] = reads'.cut[p] + 1 /\ <<p, reads'.cycle>> \in db'.pages
      BY <3>3, <3>5
    <3>. QED
      BY <2>4, <3>6
  <2>3. CASE run.step # "paid"
    <3>1. reads' = reads /\ \A p \in Page : ~OnItsWay(p)
      BY <2>1, <2>3 DEF OnItsWay
    <3>. QED
      BY <1>0, <2>1, <2>4, <3>1
  <2>. QED
    BY <2>2, <2>3
<1>4. CASE Tick \/ Member \/ Restart \/ NextPage \/ NextCandidate \/ Over \/ Ask \/ Decide \/ Wake
           \/ UNCHANGED collectorVars
  <2>1. reads' = reads /\ db' = db
    BY <1>4 DEF Tick, Member, Restart, NextPage, NextCandidate, Over, Ask, Decide, Wake, collectorVars
  <2>2. \A p \in Page : OnItsWay(p)' <=> OnItsWay(p)
    <3>1. CASE Tick \/ Restart \/ Member \/ UNCHANGED collectorVars
      BY <1>0, <3>1 DEF Tick, Restart, Member, collectorVars, OnItsWay, Runs
    <3>2. CASE NextPage \/ Ask \/ Wake
      BY <1>0, <3>2 DEF NextPage, Ask, Wake, AtGate, OnItsWay, Runs
    <3>3. CASE NextCandidate
      <4>1. run' = Off \/ \E c \in Emptiest : run' = [AtGate(c, -1) EXCEPT !.queue = @ \ {c}]
        BY <3>3 DEF NextCandidate
      <4>2. run'.step \in {"off", "gate"} /\ run.step = "next"
        BY <1>0, <3>3, <4>1, StoppedFields DEF NextCandidate, AtGate, Runs
      <4>. QED
        BY <4>2 DEF OnItsWay
    <3>4. CASE Over \/ Decide
      <4>1. run'.step \in {"off", "next", "asleep", "work"} /\ run.step \in {"gate", "counter"}
        BY <1>0, <3>4, StoppedFields DEF Over, Decide, Runs
      <4>. QED
        BY <4>1 DEF OnItsWay
    <3>. QED
      BY <1>4, <3>1, <3>2, <3>3, <3>4
  <2>. QED
    BY <1>0, <2>1, <2>2
<1>5. CASE PutSample \/ Fail \/ TooMany
  <2>1. reads' = reads /\ db'.pages = db.pages
    <3>1. CASE PutSample
      BY <3>1 DEF PutSample
    <3>2. CASE Fail
      BY <3>2 DEF Fail
    <3>3. CASE TooMany
      BY <3>3 DEF TooMany
    <3>. QED
      BY <1>5, <3>1, <3>2, <3>3
  <2>2. \A p \in Page : ~OnItsWay(p)
    BY <1>5 DEF PutSample, Fail, TooMany, OnItsWay
  <2>3. run'.step # "paid"
    BY <1>0, <1>5, JobEnds, JobSleeps, StoppedFields
  <2>4. \A p \in Page : ~OnItsWay(p)'
    BY <2>3 DEF OnItsWay
  <2>. QED
    BY <1>0, <2>1, <2>2, <2>4
<1>. QED
    BY <1>1, <1>2, <1>3, <1>4, <1>5, <1>6, <1>7 DEF CollectorNext

\* The samples of the day, at any moment.
DaySamples == {s \in db.samples : s.at >= Since(Day)}

\* Every step leaves the day's samples within the target.
LEMMA DayStep ==
    ASSUME CollectorInv, CollectorTypeOK', [CollectorNext]_collectorVars
    PROVE  DayBounded'
<1>. USE DEF DayBounded
<1>0. /\ Constants /\ CollectorTypeOK /\ DayBounded /\ run \in Runs
      /\ IsFiniteSet(DaySamples) /\ OfDay = Cardinality(DaySamples) /\ OfDay \in Nat
      /\ now \in Nat /\ db.samples \subseteq Rows
  <2>1. CollectorTypeOK /\ DayBounded
    BY DEF CollectorInv
  <2>. QED
    BY <2>1, ConstantsTyped, DayCounts, FS_Subset DEF DaySamples, OfDay, CollectorTypeOK
<1>1. /\ OfDay' = Cardinality(DaySamples')
      /\ DaySamples' \subseteq DaySamples => OfDay' <= OfDay /\ OfDay' \in Nat
  <2>1. OfDay' = Cardinality(DaySamples')
    BY DEF OfDay, DaySamples
  <2>. QED
    BY <1>0, <2>1, FS_Subset, FS_CardinalityType
<1>2. CASE Tick
  <2>1. DaySamples' \subseteq DaySamples
    BY <1>0, <1>2 DEF Tick, DaySamples, Since, Rows, Constants
  <2>. QED
    BY <1>0, <1>1, <1>2, <2>1 DEF Tick, Constants, Runs
<1>3. CASE Start
  <2>1. db'.samples \subseteq db.samples /\ now' = now
    BY <1>3 DEF Start, Pruned, CollectorTypeOK
  <2>2. DaySamples' \subseteq DaySamples
    BY <2>1 DEF DaySamples, Since
  <2>3. IsFiniteSet(db'.samples)
    BY <1>0, <2>1, FS_Subset
  <2>4. run'.step # "off" => run'.day = OfDay /\ OfDay < Target
    BY <1>0, <1>3 DEF Start, Off, Counted, Constants
  <2>. QED
    BY <1>0, <1>1, <2>2, <2>3, <2>4 DEF Constants
<1>4. CASE PutSample
  <2>. DEFINE new == [key |-> run.job, at |-> now]
  <2>1. db'.samples \subseteq db.samples \union {new} /\ now' = now
    BY <1>4 DEF PutSample, Put, CollectorTypeOK
  <2>2. DaySamples' \subseteq DaySamples \union {new}
    <3>. HIDE DEF new
    <3>. QED
      BY <2>1 DEF DaySamples, Since
  <2>. HIDE DEF new
  <2>3. IsFiniteSet(db'.samples)
    BY <1>0, <2>1, FS_AddElement, FS_Subset
  <2>4. /\ IsFiniteSet(DaySamples \union {new}) /\ Cardinality(DaySamples \union {new}) <= OfDay + 1
        /\ Cardinality(DaySamples \union {new}) \in Nat
    <3>1. /\ IsFiniteSet(DaySamples \union {new})
          /\ Cardinality(DaySamples \union {new}) \in {Cardinality(DaySamples), Cardinality(DaySamples) + 1}
      BY <1>0, FS_AddElement
    <3>. QED
      BY <1>0, <3>1
  <2>5. OfDay' <= OfDay + 1 /\ OfDay' \in Nat
    <3>1. IsFiniteSet(DaySamples') /\ Cardinality(DaySamples') <= Cardinality(DaySamples \union {new})
      BY <2>2, <2>4, FS_Subset
    <3>2. Cardinality(DaySamples') \in Nat
      BY <3>1, FS_CardinalityType
    <3>. QED
      BY <1>0, <1>1, <2>4, <3>1, <3>2
  <2>6. run.step # "off" /\ run.day \in Nat
    BY <1>0, <1>4 DEF PutSample, Runs
  <2>7. run'.step # "off" => run'.day = run.day + 1 /\ run.day + 1 < Target
    <3>1. AfterJob.day = run.day /\ DOMAIN AfterJob = DOMAIN run
      BY <1>0 DEF AfterJob, Runs
    <3>2. "day" \in DOMAIN run /\ Off.step = "off"
      BY <1>0 DEF Runs, Off
    <3>3. run' = IF run.day + 1 >= Target THEN Off ELSE [AfterJob EXCEPT !.day = @ + 1, !.backoff = Backoff]
      BY <1>4 DEF PutSample
    <3>. HIDE DEF AfterJob
    <3>. QED
      BY <1>0, <2>6, <3>1, <3>2, <3>3 DEF Constants
  <2>. QED
    BY <1>0, <2>3, <2>5, <2>6, <2>7 DEF Constants
<1>5. CASE Restart \/ Crash \/ NextPage \/ PutPool \/ NextCandidate \/ Over \/ Ask \/ Decide \/ Wake \/ Serve
           \/ PageRead \/ Fail \/ TooMany \/ Member \/ UNCHANGED collectorVars
  <2>1. db'.samples = db.samples /\ now' = now
    <3>1. CASE Restart \/ Crash \/ NextPage \/ NextCandidate \/ Over \/ Ask \/ Decide \/ Wake \/ Serve \/ TooMany
               \/ Member \/ UNCHANGED collectorVars
      BY <3>1 DEF Restart, Crash, NextPage, NextCandidate, Over, Ask, Decide, Wake, Serve, TooMany, Member, collectorVars
    <3>2. CASE PutPool
      BY <3>2 DEF PutPool
    <3>3. CASE PageRead
      BY <3>3 DEF PageRead
    <3>4. CASE Fail
      BY <3>4 DEF Fail
    <3>. QED
      BY <1>5, <3>1, <3>2, <3>3, <3>4
  <2>2. run'.step = "off" \/ (run.step # "off" /\ run'.day = run.day)
    <3>1. CASE Restart \/ Member \/ UNCHANGED collectorVars
      BY <1>0, <3>1 DEF Restart, Member, collectorVars, Runs
    <3>2. CASE Crash \/ PutPool \/ Over
      BY <1>0, <3>2, StoppedFields DEF Crash, PutPool, Over
    <3>3. CASE NextPage \/ Ask \/ Wake \/ Serve \/ PageRead
      BY <1>0, <3>3 DEF NextPage, Ask, Wake, Serve, PageRead, AtGate, Runs
    <3>4. CASE NextCandidate
      BY <1>0, <3>4, StoppedFields DEF NextCandidate, AtGate, Runs
    <3>5. CASE Decide
      BY <1>0, <3>5, StoppedFields DEF Decide, Runs
    <3>6. CASE Fail \/ TooMany
      BY <1>0, <3>6, StoppedFields DEF Fail, TooMany, AfterJob, Runs
    <3>. QED
      BY <1>5, <3>1, <3>2, <3>3, <3>4, <3>5, <3>6
  <2>3. DaySamples' = DaySamples
    BY <2>1 DEF DaySamples, Since
  <2>. QED
    BY <1>0, <1>1, <2>1, <2>2, <2>3
<1>. QED
    BY <1>2, <1>3, <1>4, <1>5 DEF CollectorNext

\* The collector's invariant.
LEMMA CollectorInvariant == CollectorSpec => []CollectorInv
<1>1. CollectorInv /\ [CollectorNext]_collectorVars => CollectorInv'
  <2>. SUFFICES ASSUME CollectorInv, [CollectorNext]_collectorVars PROVE CollectorInv'
    OBVIOUS
  <2>1. CollectorTypeOK'
    BY TypeStep DEF CollectorInv, DayBounded
  <2>. QED
    BY <2>1, KindsStep, DayStep, CachedStep, CounterStep, MarkerStep DEF CollectorInv
<1>. QED
    BY <1>1, CollectorStarts, PTL DEF CollectorSpec

-----------------------------------------------------------------------------
(* The collector: what it promises                                         *)

\* The collector's state has its type; its counters stay within WCL's limit and the bounds of the model.
THEOREM CollectorTypes == CollectorSpec => []CollectorTypeOK
<1>1. CollectorInv => CollectorTypeOK
    BY DEF CollectorInv
<1>. QED BY <1>1, CollectorInvariant, PTL

\* collect.ts:26-31, 112-134: killed and started again at any step, a day has no more samples than its
\* target, and a page is paid for at most once in a cycle, and once more for each time its answer was
\* cut off.
THEOREM NothingSpentTwice == CollectorSpec => []SpendsOnce
<1>1. CollectorInv => SpendsOnce
  <2>. SUFFICES ASSUME CollectorInv PROVE SpendsOnce
    OBVIOUS
  <2>1. OfDay <= Target
    BY DEF CollectorInv, DayBounded
  <2>2. \A p \in Page : reads.of[p] <= 1 + reads.cut[p]
    <3>. SUFFICES ASSUME NEW p \in Page PROVE reads.of[p] <= 1 + reads.cut[p]
      OBVIOUS
    <3>1. reads.cut[p] \in Nat /\ (reads.of[p] = reads.cut[p] \/ reads.of[p] = reads.cut[p] + 1)
      BY DEF CollectorInv, CollectorTypeOK, ReadIsCached
    <3>. QED
      BY <3>1
  <2>. QED
    BY <2>1, <2>2 DEF SpendsOnce
<1>. QED BY <1>1, CollectorInvariant, PTL

\* window.ts:18-19, marker.ts:14: the collector leaves the reserve, and keeps its pause after a member's
\* request, whatever members, restarts and crashes come in between.
THEOREM MembersComeFirst == CollectorSpec => MembersFirst
<1>1. CollectorInv /\ CollectorInv' /\ [CollectorNext]_collectorVars => [ReserveLeft /\ PauseKept]_collectorVars
  <2>. SUFFICES ASSUME CollectorInv, CollectorInv', CollectorNext PROVE ReserveLeft /\ PauseKept
    BY DEF ReserveLeft, PauseKept
  <2>0. /\ Constants /\ CollectorTypeOK /\ CounterKnown /\ MarkerFollows /\ run \in Runs /\ Kinds
        /\ spent \in Nat /\ run.rl \in -1..Limit /\ run.others \in Nat /\ run.kept \in Nat
    BY ConstantsTyped, RunFields DEF CollectorInv, CollectorTypeOK
  <2>1. ReserveLeft
    <3>. SUFFICES ASSUME run.step = "work", run'.step # "work", spent' > spent
                  PROVE  Limit - spent' + run.others >= run.kept
      BY DEF ReserveLeft
    <3>1. run.rl # -1 /\ spent <= run.rl + run.others /\ Limit - run.rl >= run.kept + Headroom
      BY <2>0 DEF CounterKnown, Kinds
    <3>2. ~Member
      BY <2>0 DEF Member, Runs
    <3>3. spent' <= spent + Headroom /\ spent' \in Nat
      <4>1. CASE Serve
        BY <2>0, <4>1 DEF Serve, Constants
      <4>2. CASE PutSample \/ Fail \/ TooMany \/ Crash
        BY <2>0, <4>2 DEF PutSample, Fail, TooMany, Crash, Spends, Constants
      <4>3. CASE Tick
        BY <2>0, <4>3 DEF Tick, Constants
      <4>4. CASE Restart \/ PageRead \/ Start \/ NextPage \/ PutPool \/ NextCandidate \/ Over \/ Ask \/ Decide \/ Wake
        <5>1. spent' = spent
          BY <4>4 DEF Restart, PageRead, Start, NextPage, PutPool, NextCandidate, Over, Ask, Decide, Wake
        <5>. QED
          BY <2>0, <5>1
      <4>. QED
        BY <3>2, <4>1, <4>2, <4>3, <4>4 DEF CollectorNext
    <3>. QED
      BY <2>0, <3>1, <3>3 DEF Constants
  <2>2. PauseKept
    <3>. SUFFICES ASSUME run.step # "work", run'.step = "work"
                  PROVE  now - member.at > Pause - Touch \/ member.at < marker.made + Touch
      BY DEF PauseKept
    <3>1. Decide
      <4>1. CASE Tick \/ Restart \/ Member
        BY <2>0, <4>1 DEF Tick, Restart, Member, Runs
      <4>2. CASE Start
        BY <4>2 DEF Start, Off
      <4>3. CASE Crash \/ PutPool \/ Over
        BY <2>0, <4>3, StoppedFields DEF Crash, PutPool, Over
      <4>4. CASE NextPage \/ Ask \/ Wake
        BY <2>0, <4>4 DEF NextPage, Ask, Wake, AtGate, Runs
      <4>5. CASE NextCandidate
        BY <2>0, <4>5, StoppedFields DEF NextCandidate, AtGate, Runs
      <4>6. CASE Serve \/ PageRead \/ PutSample \/ Fail \/ TooMany
        BY <2>0, <4>6 DEF Serve, PageRead, PutSample, Fail, TooMany, Runs
      <4>. QED
        BY <4>1, <4>2, <4>3, <4>4, <4>5, <4>6 DEF CollectorNext
    <3>2. ~Paused /\ marker.file
      BY <2>0, <3>1, StoppedFields DEF Decide, Runs, MarkerFollows
    <3>. QED
      BY <2>0, <3>2 DEF Paused, MarkerFollows, Constants, CollectorTypeOK, Times
  <2>. QED
    BY <2>1, <2>2
<1>. QED BY <1>1, CollectorInvariant, PTL DEF CollectorSpec, MembersFirst

-----------------------------------------------------------------------------
(* The live strip: types                                                   *)

\* The bounds the strip's proofs use.
StripBounds ==
    /\ Chunks \in [Text -> Nat \ {0}]
    /\ MaxChunks \in Nat \ {0} /\ SeqMod \in Nat \ {0} /\ Passes \in Nat \ {0} /\ Hold \in Nat \ {0}
    /\ Heartbeat \in Nat \ {0} /\ Stale \in Nat \ {0} /\ MaxGap \in Nat \ {0}
    /\ None \notin Text /\ Garbled \notin Text

LEMMA StripBounded == StripBounds
    BY StripAssumption DEF StripAssumption, StripBounds

\* The redraws a change is painted for are within their bound.
LEMMA PassBounds ==
    ASSUME NEW n \in 0 .. MaxChunks
    PROVE  /\ Passes * n \in 0 .. Passes * MaxChunks
           /\ n <= Passes * MaxChunks
           /\ n > 0 => Passes * n > 0
<1>1. Passes \in Nat \ {0} /\ MaxChunks \in Nat \ {0}
    BY StripBounded DEF StripBounds
<1>2. Passes * n \in Nat /\ Passes * MaxChunks \in Nat /\ Passes * n <= Passes * MaxChunks
    BY <1>1
<1>3. n <= Passes * n /\ (n > 0 => Passes * n > 0)
    BY <1>1
<1>. DEFINE p == Passes * n
            q == Passes * MaxChunks
<1>4. p \in Nat /\ q \in Nat /\ p <= q /\ n <= p /\ (n > 0 => p > 0)
    BY <1>2, <1>3
<1>. HIDE DEF p, q
<1>5. p \in 0 .. q /\ n <= q
    BY <1>4
<1>. QED
    BY <1>4, <1>5 DEF p, q

\* A cadence starts, is restarted and steps within its bounds, and paints a frame that is there.
LEMMA CadenceTyped ==
    ASSUME NEW c \in Cadences, NEW n \in 0 .. MaxChunks, NEW changed \in BOOLEAN
    PROVE  /\ NewCadence \in Cadences
           /\ Restarted(c, n, changed) \in Cadences
           /\ Stepped(c, n) \in Cadences
           /\ n > 0 => Painted(c, n).cursor \in 1 .. n
<1>0. /\ StripBounds /\ n \in Nat /\ n <= MaxChunks
      /\ Passes * MaxChunks \in Nat /\ n <= Passes * MaxChunks /\ Passes * n \in 0 .. Passes * MaxChunks
    BY StripBounded, PassBounds DEF StripBounds
<1>. DEFINE most == Passes * MaxChunks
            mine == Passes * n
<1>1. /\ most \in Nat /\ n <= most /\ mine \in 0 .. most
      /\ Cadences = [remaining : 0 .. most, cursor : 0 .. MaxChunks, since : 0 .. Heartbeat - 1, hold : 0 .. Hold - 1]
      /\ Restarted(c, n, changed) = IF changed THEN [remaining |-> mine, cursor |-> 0, since |-> 0, hold |-> 0] ELSE c
    BY <1>0 DEF Cadences, Restarted
<1>. HIDE DEF most, mine
<1>2. NewCadence \in Cadences
    BY <1>0, <1>1 DEF NewCadence, StripBounds
<1>3. Restarted(c, n, changed) \in Cadences
    BY <1>0, <1>1 DEF StripBounds
<1>4. /\ c.remaining \in 0 .. most /\ c.cursor \in 0 .. MaxChunks /\ c.since \in 0 .. Heartbeat - 1
      /\ c.hold \in 0 .. Hold - 1 /\ DOMAIN c = {"remaining", "cursor", "since", "hold"}
    BY <1>1
<1>5. ASSUME n > 0, NEW from \in 0 .. MaxChunks PROVE (from % n) + 1 \in 1 .. n
    BY <1>0, <1>5
<1>6. n > 0 => Painted(c, n).cursor \in 1 .. n
    BY <1>0, <1>4, <1>5 DEF Painted, StripBounds
<1>7. ASSUME n > 0, Paints(c) PROVE Painted(c, n) \in Cadences
  <2>1. Painted(c, n).cursor \in 0 .. MaxChunks
    BY <1>0, <1>6, <1>7 DEF StripBounds
  <2>2. (IF Beats(c) THEN n ELSE c.remaining) - 1 \in 0 .. most
    BY <1>0, <1>1, <1>4, <1>7 DEF Paints
  <2>3. (IF Beats(c) THEN 0 ELSE c.since) \in 0 .. Heartbeat - 1 /\ Hold - 1 \in 0 .. Hold - 1
    BY <1>0, <1>4 DEF StripBounds
  <2>4. /\ Painted(c, n) = [remaining |-> (IF Beats(c) THEN n ELSE c.remaining) - 1,
                            cursor |-> Painted(c, n).cursor,
                            since |-> IF Beats(c) THEN 0 ELSE c.since,
                            hold |-> Hold - 1]
    BY DEF Painted
  <2>. QED
    BY <1>1, <2>1, <2>2, <2>3, <2>4
<1>8. ASSUME ~Paints(c) PROVE Waited(c) \in Cadences
  <2>1. CASE c.hold > 0
    BY <1>0, <1>1, <1>4, <2>1 DEF Waited, StripBounds
  <2>2. CASE ~(c.hold > 0)
    <3>1. c.since + 1 \in 0 .. Heartbeat - 1
      BY <1>0, <1>1, <1>4, <1>8, <2>2 DEF Paints, Beats, StripBounds
    <3>. QED
      BY <1>1, <1>4, <2>2, <3>1 DEF Waited
  <2>. QED
    BY <2>1, <2>2
<1>9. Stepped(c, n) \in Cadences
    BY <1>0, <1>2, <1>7, <1>8 DEF Stepped
<1>. QED
    BY <1>2, <1>3, <1>6, <1>9

\* A roster that is drawn has at least one frame, and as many as it is cut into.
LEMMA FrameCounted ==
    ASSUME NEW t
    PROVE  /\ FrameCount(t) \in 0 .. MaxChunks
           /\ FrameCount(t) > 0 => t \in Text /\ FrameCount(t) = Chunks[t]
    BY StripBounded DEF FrameCount, StripBounds

\* The parts of a redraw: what the addon draws, and from what.
LEMMA DrawParts ==
    ASSUME TypeOK, Draw,
           NEW r, r = Rebuilt, NEW changed, changed = (lobby # addon.text),
           NEW n, n = FrameCount(r.text), NEW c, c = Restarted(addon.cadence, n, changed)
    PROVE  /\ wants /\ c \in Cadences /\ n \in 0 .. MaxChunks
           /\ r.text = lobby
           /\ r.seq = IF changed THEN (addon.seq + 1) % SeqMod ELSE addon.seq
           /\ r.seq \in Seqs
           /\ addon' = [text |-> lobby, seq |-> r.seq, cadence |-> Stepped(c, n)]
           /\ strip' = [shown |-> TRUE,
                        frame |-> IF n > 0 /\ Paints(c)
                                  THEN FrameOf(lobby, r.seq, Painted(c, n).cursor) ELSE strip.frame]
           /\ lapped' = IF changed THEN lapped \cup ({r.seq} \cap Held) ELSE lapped
<1>1. /\ StripBounds /\ lobby \in Text /\ addon \in [text : Text \cup {None}, seq : Seqs, cadence : Cadences]
      /\ addon.seq \in 0 .. SeqMod - 1 /\ addon.cadence \in Cadences
    BY StripBounded DEF TypeOK, Seqs
<1>2. (addon.seq + 1) % SeqMod \in Seqs
    BY <1>1 DEF StripBounds, Seqs
<1>3. /\ r.text = lobby /\ r.seq = IF changed THEN (addon.seq + 1) % SeqMod ELSE addon.seq
      /\ r \in [text : Text \cup {None}, seq : Seqs, cadence : Cadences]
    BY <1>1, <1>2 DEF Rebuilt
<1>4. n \in 0 .. MaxChunks /\ changed \in BOOLEAN
    BY FrameCounted
<1>5. c \in Cadences
    BY <1>1, <1>4, CadenceTyped
<1>6. /\ wants /\ addon' = [r EXCEPT !.cadence = Stepped(c, n)]
      /\ strip' = [shown |-> TRUE,
                   frame |-> IF n > 0 /\ Paints(c) THEN FrameOf(r.text, r.seq, Painted(c, n).cursor)
                             ELSE strip.frame]
      /\ lapped' = IF changed THEN lapped \cup ({r.seq} \cap Held) ELSE lapped
    BY DEF Draw
<1>7. addon' = [text |-> lobby, seq |-> r.seq, cadence |-> Stepped(c, n)]
    BY <1>3, <1>6
<1>. QED
    BY <1>1, <1>2, <1>3, <1>4, <1>5, <1>6, <1>7

\* A frame that is pushed leaves the assembler in one of these states.
LEMMA PushCases ==
    ASSUME NEW a, NEW f, a \in [seq : Seqs \cup {NoSeq}, count : 0 .. MaxChunks, chunks : Collected,
                                roster : Text \cup {None, Garbled}, rosterSeq : Seqs, age : 0 .. Stale],
           NEW mine, mine = IF f.seq = a.seq THEN a.chunks ELSE <<>>,
           NEW n, n = IF f.seq = a.seq THEN a.count ELSE f.count
    PROVE  LET p == Pushed(a, f) IN
           /\ p.seq = f.seq /\ p.count = n /\ DOMAIN p = DOMAIN a
           /\ \/ /\ Known(a, f) /\ p.chunks = mine /\ p.roster = a.roster /\ p.rosterSeq = a.rosterSeq /\ p.age = 0
              \/ /\ 0 .. n - 1 \subseteq DOMAIN With(mine, f)
                 /\ p.chunks = With(mine, f) /\ p.roster = Joined(With(mine, f), n)
                 /\ p.rosterSeq = f.seq /\ p.age = 0
              \/ /\ ~Known(a, f) /\ p.chunks = With(mine, f) /\ p.roster = a.roster
                 /\ p.rosterSeq = a.rosterSeq /\ p.age = a.age
<1>. DEFINE b == Collecting(a, f)
            c == [b EXCEPT !.chunks = With(b.chunks, f)]
<1>1. /\ b.seq = f.seq /\ b.count = n /\ b.chunks = mine /\ b.roster = a.roster /\ b.rosterSeq = a.rosterSeq
      /\ b.age = a.age /\ DOMAIN b = {"seq", "count", "chunks", "roster", "rosterSeq", "age"} /\ DOMAIN a = DOMAIN b
    BY DEF Collecting
<1>2. Known(b, f) <=> Known(a, f)
    BY <1>1 DEF Known
<1>3. Pushed(a, f) = IF Known(b, f) THEN [b EXCEPT !.age = 0]
                     ELSE IF 0 .. c.count - 1 \subseteq DOMAIN c.chunks
                     THEN [c EXCEPT !.roster = Joined(c.chunks, c.count), !.rosterSeq = f.seq, !.age = 0]
                     ELSE c
    BY DEF Pushed
<1>. HIDE DEF b
<1>4. /\ c.seq = f.seq /\ c.count = n /\ c.chunks = With(mine, f) /\ c.roster = a.roster /\ c.rosterSeq = a.rosterSeq
      /\ c.age = a.age /\ DOMAIN c = DOMAIN b
    BY <1>1
<1>. HIDE DEF c
<1>5. CASE Known(b, f)
    BY <1>1, <1>2, <1>3, <1>5
<1>6. CASE ~Known(b, f) /\ 0 .. c.count - 1 \subseteq DOMAIN c.chunks
    BY <1>1, <1>3, <1>4, <1>6
<1>7. CASE ~Known(b, f) /\ ~(0 .. c.count - 1 \subseteq DOMAIN c.chunks)
    BY <1>1, <1>2, <1>3, <1>4, <1>7
<1>. QED
    BY <1>5, <1>6, <1>7

-----------------------------------------------------------------------------
(* The live strip: the inductive invariant                                 *)

\* Shown or hidden, a strip that was painted since the roster was rebuilt has that roster on it.
PaintedIsCurrent ==
    FrameCount(addon.text) > 0 => strip.frame.text = addon.text /\ strip.frame.seq = addon.seq

\* A frame that was painted is one of a roster.
ShownText == strip.frame # Blank => strip.frame.text \in Text /\ strip.frame.count = Chunks[strip.frame.text]

\* What the browser has under the number of the frame on the screen comes from that frame's roster, unless
\* the number was given out again meanwhile.
OneText ==
    strip.frame # Blank /\ strip.frame.seq \notin lapped =>
      /\ asm.seq = strip.frame.seq =>
           asm.count = strip.frame.count /\ \A i \in DOMAIN asm.chunks : asm.chunks[i] = strip.frame.text
      /\ asm.roster # None /\ asm.rosterSeq = strip.frame.seq => asm.roster = strip.frame.text

\* A frame shows the roster that the browser has just made or refreshed, its number not given out again.
IsShown(roster) == roster = strip.frame.text \/ strip.frame.seq \in lapped

\* Between a sample and the next redraw the browser's roster is the one on the screen.
FreshIsShown == asm.age = 0 /\ Readable => IsShown(asm.roster)

StripInv == TypeOK /\ PaintedIsCurrent /\ ShownText
GenuineInv == StripInv /\ OneText /\ FreshIsShown

\* What a component starts with has its type.
LEMMA NewTyped ==
    /\ NoRoster \in [text : Text \cup {None}, seq : Seqs, cadence : Cadences] /\ Blank \in Frames
    /\ [shown |-> FALSE, frame |-> Blank] \in [shown : BOOLEAN, frame : Frames]
    /\ NewAssembler \in [seq : Seqs \cup {NoSeq}, count : 0 .. MaxChunks, chunks : Collected,
                         roster : Text \cup {None, Garbled}, rosterSeq : Seqs, age : 0 .. Stale]
<1>1. StripBounds /\ NewCadence \in Cadences
  <2>1. StripBounds /\ 0 \in 0 .. Passes * MaxChunks
    BY StripBounded, PassBounds DEF StripBounds
  <2>. DEFINE most == Passes * MaxChunks
  <2>. HIDE DEF most
  <2>2. 0 \in 0 .. most
    BY <2>1 DEF most
  <2>3. NewCadence \in [remaining : 0 .. most, cursor : 0 .. MaxChunks, since : 0 .. Heartbeat - 1, hold : 0 .. Hold - 1]
    BY <2>1, <2>2 DEF NewCadence, StripBounds
  <2>. QED
    BY <2>1, <2>3 DEF Cadences, most
<1>2. /\ 0 \in Seqs /\ 0 \in 0 .. MaxChunks /\ 0 \in 0 .. MaxChunks - 1 /\ Stale \in 0 .. Stale
      /\ 0 \in 0 .. MaxGap
    BY <1>1 DEF Seqs, StripBounds
<1>3. <<>> \in Collected
  <2>1. <<>> \in [{} -> Text]
    OBVIOUS
  <2>. QED
    BY <2>1 DEF Collected
<1>4. NoRoster \in [text : Text \cup {None}, seq : Seqs, cadence : Cadences] /\ Blank \in Frames
    BY <1>1, <1>2 DEF NoRoster, Blank, Frames
<1>5. NewAssembler \in [seq : Seqs \cup {NoSeq}, count : 0 .. MaxChunks, chunks : Collected,
                         roster : Text \cup {None, Garbled}, rosterSeq : Seqs, age : 0 .. Stale]
    BY <1>2, <1>3 DEF NewAssembler
<1>. QED
    BY <1>4, <1>5

\* The invariant holds at the start.
LEMMA StripStarts == Init => StripInv
<1>. SUFFICES ASSUME Init PROVE StripInv
    OBVIOUS
<1>1. StripBounds /\ 0 \in 0 .. MaxGap
    BY StripBounded DEF StripBounds
<1>6. TypeOK
    BY <1>1, NewTyped DEF Init, TypeOK
<1>7. PaintedIsCurrent
    BY <1>1, FrameCounted DEF Init, NoRoster, PaintedIsCurrent, StripBounds
<1>8. ShownText
    BY DEF Init, ShownText
<1>. QED
    BY <1>6, <1>7, <1>8 DEF StripInv

\* A pushed frame leaves an assembler that has its type.
LEMMA PushTyped ==
    ASSUME TypeOK, strip.frame.text \in Text
    PROVE  Pushed(asm, strip.frame) \in [seq : Seqs \cup {NoSeq}, count : 0 .. MaxChunks, chunks : Collected,
                                roster : Text \cup {None, Garbled}, rosterSeq : Seqs, age : 0 .. Stale]
<1>. DEFINE Assemblers == [seq : Seqs \cup {NoSeq}, count : 0 .. MaxChunks, chunks : Collected,
                           roster : Text \cup {None, Garbled}, rosterSeq : Seqs, age : 0 .. Stale]
            f == strip.frame
            b == Collecting(asm, f)
            c == [b EXCEPT !.chunks = With(b.chunks, f)]
<1>1. /\ StripBounds /\ asm \in Assemblers /\ f.text \in Text /\ f.seq \in Seqs
      /\ f.index \in 0 .. MaxChunks - 1 /\ f.count \in 0 .. MaxChunks
    BY StripBounded DEF TypeOK, Frames
<1>2. <<>> \in Collected
  <2>1. <<>> \in [{} -> Text]
    OBVIOUS
  <2>. QED
    BY <2>1 DEF Collected
<1>. HIDE DEF f
<1>3. b \in Assemblers
    BY <1>1, <1>2 DEF Collecting
<1>. HIDE DEF b
<1>4. ASSUME NEW chunks \in Collected PROVE With(chunks, f) \in Collected
  <2>1. PICK indices \in SUBSET (0 .. MaxChunks - 1) : chunks \in [indices -> Text]
    BY <1>4 DEF Collected
  <2>2. With(chunks, f) \in [indices \cup {f.index} -> Text]
    BY <1>1, <2>1 DEF With
  <2>3. indices \cup {f.index} \in SUBSET (0 .. MaxChunks - 1)
    BY <1>1
  <2>. QED
    BY <2>2, <2>3 DEF Collected
<1>5. c \in Assemblers
    BY <1>3, <1>4
<1>. HIDE DEF c
<1>6. ASSUME NEW n \in 0 .. MaxChunks, 0 .. n - 1 \subseteq DOMAIN c.chunks
      PROVE  Joined(c.chunks, n) \in Text \cup {Garbled}
  <2>1. PICK indices \in SUBSET (0 .. MaxChunks - 1) : c.chunks \in [indices -> Text]
    BY <1>5 DEF Collected
  <2>. DEFINE texts == {c.chunks[i] : i \in 0 .. n - 1}
  <2>2. texts \subseteq Text
    BY <1>6, <2>1
  <2>3. Joined(c.chunks, n) = IF \E t \in texts : texts = {t} /\ Chunks[t] = n
                              THEN CHOOSE t \in texts : TRUE ELSE Garbled
    BY DEF Joined
  <2>. HIDE DEF texts
  <2>4. (\E t \in texts : texts = {t} /\ Chunks[t] = n) => (CHOOSE t \in texts : TRUE) \in texts
    OBVIOUS
  <2>. QED
    BY <2>2, <2>3, <2>4
<1>7. Pushed(asm, f) \in {[b EXCEPT !.age = 0], c}
         \/ /\ 0 .. c.count - 1 \subseteq DOMAIN c.chunks
            /\ Pushed(asm, f) = [c EXCEPT !.roster = Joined(c.chunks, c.count), !.rosterSeq = f.seq, !.age = 0]
    BY DEF Pushed, b, c
<1>8. 0 \in 0 .. Stale /\ c.count \in 0 .. MaxChunks
    BY <1>1, <1>5 DEF StripBounds
<1>9. [b EXCEPT !.age = 0] \in Assemblers
    BY <1>3, <1>8
<1>10. Pushed(asm, f) \in Assemblers
    BY <1>1, <1>5, <1>6, <1>7, <1>8, <1>9
<1>. QED
    BY <1>10 DEF f

\* Every step keeps the type, and what is painted current.
LEMMA StripStep ==
    ASSUME StripInv, [Next]_vars
    PROVE  StripInv'
<1>0. TypeOK /\ PaintedIsCurrent /\ ShownText /\ StripBounds
    BY StripBounded DEF StripInv
<1>1. CASE Redraw
  <2>1. asm' = Older(asm) /\ gap' = (IF capture = "on" THEN gap + 1 ELSE gap)
        /\ UNCHANGED <<wants, lobby, capture>> /\ (capture = "on" => gap < MaxGap)
    BY <1>1 DEF Redraw
  <2>2. asm' \in [seq : Seqs \cup {NoSeq}, count : 0 .. MaxChunks, chunks : Collected,
                   roster : Text \cup {None, Garbled}, rosterSeq : Seqs, age : 0 .. Stale]
    BY <1>0, <2>1 DEF TypeOK, Older, StripBounds
  <2>3. gap' \in 0 .. MaxGap
    BY <1>0, <2>1 DEF TypeOK, StripBounds
  <2>4. CASE Draw
    <3>. DEFINE r == Rebuilt
                changed == lobby # addon.text
                n == FrameCount(r.text)
                c == Restarted(addon.cadence, n, changed)
    <3>1. /\ wants /\ c \in Cadences /\ n \in 0 .. MaxChunks
          /\ r.text = lobby
          /\ r.seq = IF changed THEN (addon.seq + 1) % SeqMod ELSE addon.seq
          /\ r.seq \in Seqs
          /\ addon' = [text |-> lobby, seq |-> r.seq, cadence |-> Stepped(c, n)]
          /\ strip' = [shown |-> TRUE,
                       frame |-> IF n > 0 /\ Paints(c)
                                 THEN FrameOf(lobby, r.seq, Painted(c, n).cursor) ELSE strip.frame]
          /\ lapped' = IF changed THEN lapped \cup ({r.seq} \cap Held) ELSE lapped
      BY <1>0, <2>4, DrawParts, Zenon
    <3>2. n > 0 => lobby \in Text /\ n = Chunks[lobby]
      BY <3>1, FrameCounted
    <3>3. changed /\ n > 0 => Paints(c)
      <4>1. n > 0 => Passes * n > 0
        BY <3>1, PassBounds
      <4>. HIDE DEF n
      <4>2. changed => c = [remaining |-> Passes * n, cursor |-> 0, since |-> 0, hold |-> 0]
        BY DEF Restarted
      <4>. QED
        BY <4>1, <4>2 DEF Paints
    <3>4. n = FrameCount(lobby)
      BY <3>1
    <3>5. Stepped(c, n) \in Cadences /\ (n > 0 => Painted(c, n).cursor \in 1 .. n)
      BY <3>1, CadenceTyped
    <3>. HIDE DEF r, n, c
    <3>6. n > 0 => FrameOf(lobby, r.seq, Painted(c, n).cursor) \in Frames
      <4>1. n > 0 => Painted(c, n).cursor - 1 \in 0 .. MaxChunks - 1
        BY <1>0, <3>1, <3>5 DEF StripBounds
      <4>. QED
        BY <3>1, <3>2, <4>1 DEF FrameOf, Frames
    <3>7. strip' \in [shown : BOOLEAN, frame : Frames]
      BY <1>0, <3>1, <3>6 DEF TypeOK
    <3>8. addon' \in [text : Text \cup {None}, seq : Seqs, cadence : Cadences]
      BY <1>0, <3>1, <3>5 DEF TypeOK
    <3>9. TypeOK'
      <4>1. lapped' \subseteq Seqs
        BY <1>0, <3>1 DEF TypeOK
      <4>. QED
        BY <1>0, <2>1, <2>2, <2>3, <3>7, <3>8, <4>1 DEF TypeOK
    <3>10. PaintedIsCurrent'
      <4>. SUFFICES ASSUME FrameCount(addon'.text) > 0
                    PROVE  strip'.frame.text = addon'.text /\ strip'.frame.seq = addon'.seq
        BY DEF PaintedIsCurrent
      <4>1. addon'.text = lobby /\ addon'.seq = r.seq /\ n > 0
        BY <3>1, <3>4
      <4>2. CASE Paints(c)
        BY <3>1, <4>1, <4>2 DEF FrameOf
      <4>3. CASE ~Paints(c)
        <5>1. ~changed /\ strip'.frame = strip.frame
          BY <3>1, <3>3, <4>1, <4>3
        <5>. QED
          BY <1>0, <3>1, <3>4, <4>1, <5>1 DEF PaintedIsCurrent
      <4>. QED
        BY <4>2, <4>3
    <3>11. ShownText'
      BY <1>0, <3>1, <3>2 DEF ShownText, FrameOf
    <3>. QED
      BY <3>9, <3>10, <3>11 DEF StripInv
  <2>5. CASE Hide
    <3>1. addon' = Hidden /\ strip' = [strip EXCEPT !.shown = FALSE] /\ lapped' = lapped
      BY <2>5 DEF Hide
    <3>2. NewCadence \in Cadences /\ addon.seq \in Seqs
      BY <1>0, CadenceTyped, FrameCounted DEF TypeOK
    <3>3. addon' \in [text : Text \cup {None}, seq : Seqs, cadence : Cadences] /\ addon'.text = None
      BY <3>1, <3>2 DEF Hidden
    <3>4. strip' \in [shown : BOOLEAN, frame : Frames]
      BY <1>0, <3>1 DEF TypeOK
    <3>5. FrameCount(addon'.text) = 0
      BY <1>0, <3>3 DEF FrameCount, StripBounds
    <3>6. strip'.frame = strip.frame
      BY <1>0, <3>1 DEF TypeOK
    <3>. QED
      BY <1>0, <2>1, <2>2, <2>3, <3>1, <3>3, <3>4, <3>5, <3>6 DEF StripInv, TypeOK, PaintedIsCurrent, ShownText
  <2>. QED
    BY <1>1, <2>4, <2>5 DEF Redraw
<1>2. CASE Sample
  <2>1. asm' \in [seq : Seqs \cup {NoSeq}, count : 0 .. MaxChunks, chunks : Collected,
                   roster : Text \cup {None, Garbled}, rosterSeq : Seqs, age : 0 .. Stale]
    <3>1. CASE Readable
      BY <1>0, <1>2, <3>1, PushTyped DEF Sample, Readable, ShownText
    <3>2. CASE ~Readable
      BY <1>0, <1>2, <3>2 DEF Sample, TypeOK
    <3>. QED
      BY <3>1, <3>2
  <2>2. gap' \in 0 .. MaxGap /\ UNCHANGED <<wants, lobby, addon, strip, capture>> /\ lapped' \subseteq lapped
    BY <1>0, <1>2 DEF Sample, StripBounds
  <2>. QED
    BY <1>0, <2>1, <2>2 DEF StripInv, TypeOK, PaintedIsCurrent, ShownText
<1>3. CASE Disconnect \/ Connect \/ Cover \/ Toggle \/ Change \/ UNCHANGED vars
  <2>1. UNCHANGED <<addon, strip>> /\ gap' \in 0 .. MaxGap /\ lapped' \subseteq lapped
    BY <1>0, <1>3 DEF Disconnect, Connect, Cover, Toggle, Change, vars, TypeOK, StripBounds
  <2>2. wants' \in BOOLEAN /\ lobby' \in Text /\ capture' \in {"off", "on", "paused"}
    BY <1>0, <1>3 DEF Disconnect, Connect, Cover, Toggle, Change, vars, TypeOK
  <2>3. asm' \in {asm, NewAssembler}
    BY <1>3 DEF Disconnect, Connect, Cover, Toggle, Change, vars
  <2>4. NewAssembler \in [seq : Seqs \cup {NoSeq}, count : 0 .. MaxChunks, chunks : Collected,
                         roster : Text \cup {None, Garbled}, rosterSeq : Seqs, age : 0 .. Stale]
    BY NewTyped
  <2>. QED
    BY <1>0, <2>1, <2>2, <2>3, <2>4 DEF StripInv, TypeOK, PaintedIsCurrent, ShownText
<1>4. CASE Contrast \/ Reload
  <2>1. UNCHANGED <<wants, lobby, capture, asm, gap, lapped>> /\ addon'.text = None
    BY <1>0, <1>4 DEF Contrast, Reload, NoRoster, TypeOK
  <2>2. /\ addon' \in [text : Text \cup {None}, seq : Seqs, cadence : Cadences]
        /\ strip' \in [shown : BOOLEAN, frame : Frames]
    BY <1>0, <1>4, NewTyped DEF Contrast, Reload, TypeOK
  <2>4. FrameCount(addon'.text) = 0
    BY <1>0, <2>1 DEF FrameCount, StripBounds
  <2>5. strip'.frame \in {strip.frame, Blank}
    BY <1>0, <1>4 DEF Contrast, Reload, TypeOK
  <2>. QED
    BY <1>0, <2>1, <2>2, <2>4, <2>5 DEF StripInv, TypeOK, PaintedIsCurrent, ShownText
<1>. QED
    BY <1>1, <1>2, <1>3, <1>4 DEF Next

\* The strip's invariant.
LEMMA StripInvariant == Spec => []StripInv
    BY StripStarts, StripStep, PTL DEF Spec

-----------------------------------------------------------------------------
(* The live strip: chunks of two rosters never mix                         *)

\* What a frame's push leaves, when everything under its number comes from its roster.
LEMMA PushedIsGenuine ==
    ASSUME GenuineInv, Readable, strip.frame.seq \notin lapped, NEW p, p = Pushed(asm, strip.frame)
    PROVE  /\ p.seq = strip.frame.seq /\ p.count = strip.frame.count
           /\ \A i \in DOMAIN p.chunks : p.chunks[i] = strip.frame.text
           /\ \/ p.roster = strip.frame.text /\ p.age = 0 /\ p.rosterSeq = strip.frame.seq
              \/ /\ p.roster = asm.roster /\ p.rosterSeq = asm.rosterSeq /\ p.age = asm.age
                 /\ asm.roster = None \/ asm.rosterSeq # strip.frame.seq
<1>. DEFINE f == strip.frame
            mine == IF f.seq = asm.seq THEN asm.chunks ELSE <<>>
            n == IF f.seq = asm.seq THEN asm.count ELSE f.count
<1>1. /\ StripBounds /\ f # Blank /\ f.text \in Text /\ f.count = Chunks[f.text] /\ f.count \in Nat \ {0}
      /\ asm.seq = f.seq => asm.count = f.count /\ \A i \in DOMAIN asm.chunks : asm.chunks[i] = f.text
      /\ asm.roster # None /\ asm.rosterSeq = f.seq => asm.roster = f.text
    BY StripBounded DEF GenuineInv, StripInv, ShownText, OneText, Readable, StripBounds
<1>2. asm \in [seq : Seqs \cup {NoSeq}, count : 0 .. MaxChunks, chunks : Collected,
               roster : Text \cup {None, Garbled}, rosterSeq : Seqs, age : 0 .. Stale]
    BY DEF GenuineInv, StripInv, TypeOK
<1>. HIDE DEF f
<1>3. n = f.count /\ \A i \in DOMAIN mine : mine[i] = f.text
    BY <1>1
<1>4. LET q == Pushed(asm, f) IN
      /\ q.seq = f.seq /\ q.count = n /\ DOMAIN q = DOMAIN asm
      /\ \/ /\ Known(asm, f) /\ q.chunks = mine /\ q.roster = asm.roster /\ q.rosterSeq = asm.rosterSeq /\ q.age = 0
         \/ /\ 0 .. n - 1 \subseteq DOMAIN With(mine, f)
            /\ q.chunks = With(mine, f) /\ q.roster = Joined(With(mine, f), n)
            /\ q.rosterSeq = f.seq /\ q.age = 0
         \/ /\ ~Known(asm, f) /\ q.chunks = With(mine, f) /\ q.roster = asm.roster
            /\ q.rosterSeq = asm.rosterSeq /\ q.age = asm.age
    BY <1>2, PushCases
<1>. HIDE DEF mine, n
<1>5. \A i \in DOMAIN With(mine, f) : With(mine, f)[i] = f.text
    BY <1>3 DEF With
<1>6. ASSUME 0 .. n - 1 \subseteq DOMAIN With(mine, f) PROVE Joined(With(mine, f), n) = f.text
  <2>. DEFINE w == With(mine, f)
              texts == {w[i] : i \in 0 .. n - 1}
  <2>. HIDE DEF w
  <2>1. n \in Nat \ {0} /\ n = Chunks[f.text] /\ \A i \in 0 .. n - 1 : w[i] = f.text
    BY <1>1, <1>3, <1>5, <1>6 DEF w
  <2>2. 0 \in 0 .. n - 1
    BY <2>1
  <2>3. texts = {f.text}
    BY <2>1, <2>2
  <2>4. Joined(w, n) = IF \E t \in texts : texts = {t} /\ Chunks[t] = n THEN CHOOSE t \in texts : TRUE ELSE Garbled
    BY DEF Joined
  <2>. HIDE DEF texts
  <2>5. (CHOOSE t \in texts : TRUE) = f.text
    BY <2>3
  <2>. QED
    BY <2>1, <2>3, <2>4, <2>5 DEF w
<1>7. p = Pushed(asm, f)
    BY DEF f
<1>8. CASE Known(asm, f) /\ p.chunks = mine /\ p.roster = asm.roster /\ p.rosterSeq = asm.rosterSeq /\ p.age = 0
    BY <1>1, <1>3, <1>4, <1>7, <1>8 DEF Known, f
<1>9. CASE p.chunks = With(mine, f) /\ p.roster = f.text /\ p.rosterSeq = f.seq /\ p.age = 0
    BY <1>3, <1>4, <1>5, <1>7, <1>9 DEF f
<1>10. CASE ~Known(asm, f) /\ p.chunks = With(mine, f) /\ p.roster = asm.roster
             /\ p.rosterSeq = asm.rosterSeq /\ p.age = asm.age
    BY <1>3, <1>4, <1>5, <1>7, <1>10 DEF Known, f
<1>. QED
    BY <1>4, <1>6, <1>7, <1>8, <1>9, <1>10

\* Nothing is held at the start.
LEMMA GenuineStarts == Init => GenuineInv
<1>. SUFFICES ASSUME Init PROVE GenuineInv
    OBVIOUS
<1>1. /\ asm = NewAssembler /\ strip = [shown |-> FALSE, frame |-> Blank] /\ wants = FALSE
      /\ Stale # 0
    BY StripBounded DEF Init, StripBounds
<1>. QED
    BY <1>1, StripStarts DEF GenuineInv, OneText, FreshIsShown, NewAssembler

\* Every step keeps what the browser holds genuine, but for the numbers given out again.
LEMMA GenuineStep ==
    ASSUME GenuineInv, [Next]_vars
    PROVE  GenuineInv'
<1>0. /\ StripBounds /\ TypeOK /\ StripInv /\ StripInv' /\ TypeOK' /\ PaintedIsCurrent /\ ShownText
      /\ OneText /\ FreshIsShown
      /\ asm.age \in 0 .. Stale /\ Stale \in Nat \ {0}
    BY StripBounded, StripStep DEF GenuineInv, StripInv, StripBounds, TypeOK
<1>1. CASE Redraw
  <2>1. /\ asm'.seq = asm.seq /\ asm'.count = asm.count /\ asm'.chunks = asm.chunks /\ asm'.roster = asm.roster
        /\ asm'.rosterSeq = asm.rosterSeq /\ asm'.age = IF asm.age < Stale THEN asm.age + 1 ELSE asm.age
    BY <1>0, <1>1 DEF Redraw, Older, TypeOK
  <2>2. FreshIsShown'
    <3>1. asm'.age # 0
      BY <1>0, <2>1
    <3>. QED
      BY <3>1 DEF FreshIsShown
  <2>3. CASE Hide
    <3>1. strip'.frame = strip.frame /\ lapped' = lapped
      BY <1>0, <2>3 DEF Hide, TypeOK
    <3>. QED
      BY <1>0, <2>1, <2>2, <3>1 DEF GenuineInv, OneText
  <2>4. CASE Draw
    <3>. DEFINE r == Rebuilt
                changed == lobby # addon.text
                n == FrameCount(r.text)
                c == Restarted(addon.cadence, n, changed)
    <3>1. /\ wants /\ c \in Cadences /\ n \in 0 .. MaxChunks
          /\ r.text = lobby
          /\ r.seq = IF changed THEN (addon.seq + 1) % SeqMod ELSE addon.seq
          /\ r.seq \in Seqs
          /\ addon' = [text |-> lobby, seq |-> r.seq, cadence |-> Stepped(c, n)]
          /\ strip' = [shown |-> TRUE,
                       frame |-> IF n > 0 /\ Paints(c)
                                 THEN FrameOf(lobby, r.seq, Painted(c, n).cursor) ELSE strip.frame]
          /\ lapped' = IF changed THEN lapped \cup ({r.seq} \cap Held) ELSE lapped
      BY <1>0, <2>4, DrawParts, Zenon
    <3>2. n > 0 => lobby \in Text /\ n = FrameCount(lobby)
      BY <3>1, FrameCounted
    <3>. HIDE DEF r, n, c
    <3>3. CASE n > 0 /\ Paints(c)
      <4>1. strip'.frame.text = lobby /\ strip'.frame.seq = r.seq /\ strip'.frame.count = Chunks[lobby]
        BY <3>1, <3>3 DEF FrameOf
      <4>2. CASE changed /\ r.seq \in Held
        <5>1. strip'.frame.seq \in lapped'
          BY <3>1, <4>1, <4>2
        <5>. QED
          BY <1>0, <2>2, <5>1 DEF GenuineInv, OneText
      <4>3. CASE changed /\ r.seq \notin Held
        <5>1. asm.seq # r.seq /\ (asm.roster = None \/ asm.rosterSeq # r.seq)
          BY <4>3 DEF Held
        <5>2. OneText'
          BY <2>1, <4>1, <5>1 DEF OneText
        <5>. QED
          BY <1>0, <2>2, <5>2 DEF GenuineInv
      <4>4. CASE ~changed
        <5>1. strip.frame.text = lobby /\ strip.frame.seq = r.seq /\ lobby \in Text /\ lapped' = lapped
          BY <1>0, <3>1, <3>2, <3>3, <4>4 DEF PaintedIsCurrent
        <5>2. strip.frame # Blank
          BY <1>0, <5>1 DEF Blank, StripBounds
        <5>3. strip.frame.count = Chunks[lobby]
          BY <1>0, <5>1, <5>2 DEF ShownText
        <5>4. OneText'
          BY <1>0, <2>1, <4>1, <5>1, <5>2, <5>3 DEF OneText
        <5>. QED
          BY <1>0, <2>2, <5>4 DEF GenuineInv
      <4>. QED
        BY <4>2, <4>3, <4>4
    <3>4. CASE ~(n > 0 /\ Paints(c))
      <4>1. strip'.frame = strip.frame /\ lapped \subseteq lapped'
        BY <3>1, <3>4
      <4>2. OneText'
        BY <1>0, <2>1, <4>1 DEF OneText
      <4>. QED
        BY <1>0, <2>2, <4>2 DEF GenuineInv
    <3>. QED
      BY <3>3, <3>4
  <2>. QED
    BY <1>1, <2>3, <2>4 DEF Redraw
<1>2. CASE Sample
  <2>1. strip' = strip /\ lapped' = lapped \cap Held'
    BY <1>2 DEF Sample
  <2>2. CASE ~Readable
    <3>1. asm' = asm /\ Held' = Held
      BY <1>2, <2>2 DEF Sample, Held
    <3>2. OneText'
      BY <1>0, <2>1, <3>1 DEF OneText, Held
    <3>. QED
      BY <1>0, <2>1, <2>2, <3>2 DEF GenuineInv, FreshIsShown, Readable
  <2>3. CASE Readable /\ strip.frame.seq \in lapped
    <3>1. asm'.seq = strip.frame.seq
      BY <1>0, <1>2, <2>3, PushCases DEF Sample, TypeOK
    <3>2. strip'.frame.seq \in lapped'
      BY <2>1, <2>3, <3>1 DEF Held
    <3>. QED
      BY <1>0, <3>2 DEF GenuineInv, OneText, FreshIsShown, IsShown
  <2>4. CASE Readable /\ strip.frame.seq \notin lapped
    <3>. DEFINE p == Pushed(asm, strip.frame)
    <3>1. /\ p.seq = strip.frame.seq /\ p.count = strip.frame.count
          /\ \A i \in DOMAIN p.chunks : p.chunks[i] = strip.frame.text
          /\ \/ p.roster = strip.frame.text /\ p.age = 0 /\ p.rosterSeq = strip.frame.seq
             \/ /\ p.roster = asm.roster /\ p.rosterSeq = asm.rosterSeq /\ p.age = asm.age
                /\ asm.roster = None \/ asm.rosterSeq # strip.frame.seq
      BY <2>4, PushedIsGenuine
    <3>2. asm' = p /\ strip.frame # Blank
      BY <1>2, <2>4 DEF Sample, Readable
    <3>. HIDE DEF p
    <3>3. OneText'
      BY <1>0, <2>1, <3>1, <3>2 DEF OneText
    <3>4. FreshIsShown'
      BY <1>0, <2>1, <2>4, <3>1, <3>2 DEF FreshIsShown, IsShown, Readable
    <3>. QED
      BY <1>0, <3>3, <3>4 DEF GenuineInv
  <2>. QED
    BY <2>2, <2>3, <2>4
<1>3. CASE Disconnect
  <2>1. asm' = NewAssembler /\ strip' = strip
    BY <1>3 DEF Disconnect
  <2>2. NewAssembler.seq = -1 /\ NewAssembler.roster = None /\ NewAssembler.age # 0
    BY <1>0 DEF NewAssembler, NoSeq
  <2>3. strip'.frame.seq \in 0 .. SeqMod - 1 /\ SeqMod \in Nat \ {0}
    BY <1>0 DEF TypeOK, Frames, Seqs, StripBounds
  <2>4. OneText'
    BY <2>1, <2>2, <2>3 DEF OneText
  <2>5. FreshIsShown'
    BY <2>1, <2>2 DEF FreshIsShown
  <2>. QED
    BY <1>0, <2>4, <2>5 DEF GenuineInv
<1>4. CASE Reload
  <2>1. strip' = [shown |-> FALSE, frame |-> Blank]
    BY <1>4 DEF Reload
  <2>. QED
    BY <1>0, <2>1 DEF GenuineInv, OneText, FreshIsShown, Readable
<1>5. CASE Toggle \/ Change \/ Contrast \/ Connect \/ Cover \/ UNCHANGED vars
  <2>1. UNCHANGED <<strip, asm, lapped>>
    BY <1>5 DEF Toggle, Change, Contrast, Connect, Cover, vars
  <2>. QED
    BY <1>0, <2>1 DEF GenuineInv, OneText, FreshIsShown, IsShown, Readable
<1>. QED
    BY <1>1, <1>2, <1>3, <1>4, <1>5 DEF Next

-----------------------------------------------------------------------------
(* The live strip: what it promises                                        *)

\* The strip's, the addon's and the assembler's state has its type, the cadence's counters their bounds.
THEOREM StripTypes == Spec => []TypeOK
<1>1. StripInv => TypeOK
    BY DEF StripInv
<1>. QED BY <1>1, StripInvariant, PTL

\* main.lua:14-22: no frame of a roster the addon has left stays on the screen.
THEOREM NoOldFrame == Spec => []NothingLeftUp
<1>1. StripInv => NothingLeftUp
    BY DEF StripInv, PaintedIsCurrent, NothingLeftUp
<1>. QED BY <1>1, StripInvariant, PTL

\* roster.ts:103-114: the browser makes a roster, or makes it fresh, only from frames of that very roster,
\* unless their number was given out again while the browser went by it.
THEOREM RostersNeverMix == Spec => Genuine
<1>. DEFINE Fresh == asm' # asm /\ asm'.age = 0 =>
                       Readable /\ (asm'.roster = strip.frame.text \/ strip.frame.seq \in lapped)
<1>1. Init => GenuineInv
    BY GenuineStarts
<1>2. GenuineInv /\ [Next]_vars => GenuineInv'
    BY GenuineStep
<1>3. GenuineInv /\ [Next]_vars => [Fresh]_asm
  <2>. SUFFICES ASSUME GenuineInv, [Next]_vars, asm' # asm, asm'.age = 0
                PROVE  Readable /\ (asm'.roster = strip.frame.text \/ strip.frame.seq \in lapped)
    OBVIOUS
  <2>0. asm.age \in 0 .. Stale /\ Stale \in Nat \ {0} /\ FreshIsShown /\ TypeOK
    BY StripBounded DEF GenuineInv, StripInv, TypeOK, StripBounds
  <2>1. ~Redraw
    BY <2>0 DEF Redraw, Older, TypeOK
  <2>2. ~Disconnect
    BY <2>0 DEF Disconnect, NewAssembler
  <2>3. Sample
    BY <2>1, <2>2 DEF Next, vars, Connect, Cover, Toggle, Change, Contrast, Reload
  <2>4. Readable /\ asm' = Pushed(asm, strip.frame)
    BY <2>3 DEF Sample
  <2>5. CASE strip.frame.seq \notin lapped
    <3>1. asm'.roster = strip.frame.text \/ (asm'.roster = asm.roster /\ asm'.age = asm.age)
      BY <2>4, <2>5, PushedIsGenuine
    <3>. QED
      BY <2>0, <2>4, <3>1 DEF FreshIsShown, IsShown
  <2>. QED
    BY <2>4, <2>5
<1>. QED BY <1>1, <1>2, <1>3, PTL DEF Spec, Genuine
=============================================================================
