--------------------------- MODULE WclBudgetProofs ---------------------------
(***************************************************************************)
(* The meter never charges more than WCL counted, for any number of        *)
(* requests, users, windows, lost answers and restarts.  The argument      *)
(* relates every answer on its way, the baseline and WCL's own counter:    *)
(* two of them from one window differ by exactly what WCL counted between  *)
(* them, and one from a later window shows only what WCL counted since.    *)
(* A member's quota and the shared client's floor are overrun by what the  *)
(* running requests may still send at most: here the argument counts the   *)
(* requests that were admitted before the gate saw the latest answers.     *)
(***************************************************************************)
EXTENDS WclBudget, FiniteSetTheorems, WellFoundedInduction, TLAPS

-----------------------------------------------------------------------------
(* The inductive invariant                                                  *)

\* p and q, with their spent, win and cum, are two readings of WCL's counter.
Agree(p, q) ==
    /\ p.win = q.win => q.spent - p.spent = q.cum - p.cum
    /\ p.win < q.win => q.spent <= q.cum - p.cum

\* p is a reading of WCL's counter taken before now.
Past(p) ==
    /\ p.win <= win /\ p.cum <= cum
    /\ p.win = win => counter - p.spent = cum - p.cum
    /\ p.win < win => counter <= cum - p.cum

Sent(r) == req[r].phase = "sent"

AnswersPast == \A r \in Req : Sent(r) => Past(req[r].answer)
AnswersAgree ==
    \A r, q \in Req : Sent(r) /\ Sent(q) => Agree(req[r].answer, req[q].answer)
BaselineAgrees ==
    last.some =>
        /\ Past(last)
        /\ \A r \in Req : Sent(r) => Agree(req[r].answer, last) /\ Agree(last, req[r].answer)

\* What has been charged so far is covered by the baseline; while there is none, by
\* every answer that may become it.
ChargeCovered ==
    "late" \notin flags =>
        /\ charged <= cum
        /\ last.some => charged <= last.cum
        /\ ~last.some => \A r \in Req : Sent(r) => charged <= req[r].answer.cum

IInv == TypeOK /\ AnswersPast /\ AnswersAgree /\ BaselineAgrees /\ ChargeCovered

-----------------------------------------------------------------------------
(* Type correctness                                                         *)

\* What observe charges is a natural number.
LEMMA ChargeType ==
    ASSUME TypeOK, NEW a \in Answers
    PROVE  Charge(a) \in Nat /\ Charge(a) <= a.spent /\ Baseline(a) \in Snapshots
<1>1. a.spent \in Nat /\ a.resetIn \in Nat /\ a.win \in Nat /\ a.cum \in Nat
    BY DEF Answers
<1>2. last.spent \in Nat /\ last \in Snapshots /\ now \in Nat
    BY DEF TypeOK, Snapshots
<1>3. Delta(a) \in Nat /\ Delta(a) <= a.spent
    BY <1>1, <1>2 DEF Delta
<1>4. Snapshot(a) \in Snapshots
    BY <1>1, <1>2 DEF Snapshot, Snapshots
<1>. QED
    BY <1>1, <1>2, <1>3, <1>4 DEF Charge, Baseline

\* The declared types hold of every reachable state: no counter, charge or window of
\* meter.ts, quota.ts and usage_hourly ever becomes negative.
THEOREM TypeCorrect == Spec => []TypeOK
<1>1. ASSUME Init PROVE TypeOK
    BY <1>1, BudgetConstants DEF BudgetConstants, Init, TypeOK, NoSnapshot, NoAnswer, IdleRequest, Requests,
                Answers, Snapshots, Counts
<1>2. ASSUME TypeOK, [Next]_vars PROVE TypeOK'
  <2>. USE <1>2, BudgetConstants DEF BudgetConstants
  <2>1. CASE Tick
    BY <2>1 DEF Tick, TypeOK
  <2>2. CASE Restart
    BY <2>2 DEF Restart, TypeOK, NoSnapshot, NoAnswer, IdleRequest, Requests, Answers,
                Snapshots, Counts
  <2>3. ASSUME NEW r \in Req, End(r) PROVE TypeOK'
    BY <2>3 DEF End, TypeOK, NoAnswer, IdleRequest, Requests, Answers
  <2>4. ASSUME NEW r \in Req, Lose(r) PROVE TypeOK'
    <3>1. [req[r] EXCEPT !.phase = "running", !.answer = NoAnswer] \in Requests
        BY DEF TypeOK, NoAnswer, Requests, Answers
    <3>2. req' \in [Req -> Requests]
        BY <2>4, <3>1 DEF Lose, TypeOK
    <3>. QED
        BY <2>4, <3>2 DEF Lose, TypeOK, Counts
  <2>5. ASSUME NEW r \in Req, NEW n \in 1..Batch, Reserve(r, n) PROVE TypeOK'
    <3>1. [req[r] EXCEPT !.left = n, !.phase = "running"] \in Requests
      <4>1. n \in Nat /\ req[r] \in Requests
        BY DEF TypeOK
      <4>. QED
        BY <4>1 DEF Requests
    <3>2. req' \in [Req -> Requests]
        BY <2>5, <3>1 DEF Reserve, TypeOK
    <3>. QED
        BY <2>5, <3>2 DEF Reserve, TypeOK, Flags
  <2>6. ASSUME NEW r \in Req, NEW c \in Cost, NEW drop \in 0..Truncation, Serve(r, c, drop)
        PROVE  TypeOK'
    <3>1. ResetIn(drop) \in Nat /\ c \in Nat
        BY DEF ResetIn, TypeOK
    <3>2. req[r] \in Requests /\ req[r].left \in Nat /\ req[r].left > 0
        BY <2>6 DEF Serve, TypeOK, Requests
    <3>3. req' \in [Req -> Requests]
        BY <2>6, <3>1, <3>2 DEF Serve, TypeOK, Requests, Answers
    <3>. QED
        BY <2>6, <3>1, <3>3 DEF Serve, TypeOK, Counts, Flags
  <2>7. ASSUME NEW r \in Req, Observe(r) PROVE TypeOK'
    <3>. DEFINE a == req[r].answer
    <3>1. a \in Answers /\ req[r] \in Requests
        BY DEF TypeOK, Requests
    <3>2. Charge(a) \in Nat /\ Baseline(a) \in Snapshots
        BY <3>1, ChargeType
    <3>3. req' \in [Req -> Requests]
      <4>. DEFINE rest == [phase |-> "running", left |-> req[r].left,
                           spent |-> req[r].spent + Charge(a),
                           answer |-> NoAnswer]
      <4>1. rest \in Requests
        BY <3>1, <3>2 DEF Requests, NoAnswer, Answers
      <4>2. req' = [req EXCEPT ![r] = rest]
        BY <2>7, Zenon DEF Observe
      <4>. QED
        BY <4>1, <4>2, Zenon DEF TypeOK
    <3>4. used' \in [User -> Nat] /\ charged' \in Nat
        BY <2>7, <3>2 DEF Observe, TypeOK
    <3>5. flags' \subseteq Flags
        BY <2>7 DEF Observe, TypeOK
    <3>. QED
        BY <2>7, <3>2, <3>3, <3>4, <3>5 DEF Observe, TypeOK
  <2>8. CASE UNCHANGED vars
    BY <2>8 DEF vars, TypeOK
  <2>. QED
    BY <2>1, <2>2, <2>3, <2>4, <2>5, <2>6, <2>7, <2>8 DEF Next
<1>. QED
    BY <1>1, <1>2, PTL DEF Spec

-----------------------------------------------------------------------------
(* The accounting                                                           *)

\* The heart of the argument: observing a, when it is not misread, charges no more
\* than what WCL counted between the baseline and a, or keeps the baseline.
LEMMA ChargeStep ==
    ASSUME TypeOK, last.some, NEW a \in Answers, Agree(a, last), Agree(last, a), ~Misread(a)
    PROVE  last.cum + Charge(a) <= Baseline(a).cum
<1>1. a.spent \in Nat /\ a.cum \in Nat /\ a.win \in Nat /\ MaxCharge \in Nat
    BY BudgetConstants DEF Answers, BudgetConstants
<1>2. last.spent \in Nat /\ last.cum \in Nat /\ last.win \in Nat /\ last.windowEnd \in Nat
      /\ now \in Nat
    BY DEF TypeOK, Snapshots
<1>3. CASE Overtaken(a)
  <2>1. a.win = last.win /\ now < last.windowEnd /\ a.cum < last.cum
    BY <1>1, <1>2, <1>3 DEF Misread, Overtaken
  <2>2. a.spent < last.spent
    BY <1>1, <1>2, <2>1 DEF Agree
  <2>. QED
    BY <1>2, <2>1, <2>2 DEF Charge, Baseline, LateInWindow
<1>4. CASE ~Overtaken(a)
  <2>1. a.cum >= last.cum /\ a.win >= last.win
    BY <1>1, <1>2, <1>4 DEF Overtaken
  <2>2. CASE a.win = last.win
    <3>1. a.spent - last.spent = a.cum - last.cum
        BY <1>1, <1>2, <2>2 DEF Agree
    <3>2. Delta(a) = a.cum - last.cum /\ ~LateInWindow(a)
        BY <1>1, <1>2, <2>1, <3>1 DEF Delta, NewHour, LateInWindow
    <3>. QED
        BY <1>1, <1>2, <2>1, <3>2 DEF Charge, Baseline, Snapshot
  <2>3. CASE a.win > last.win
    <3>1. a.spent <= a.cum - last.cum
        BY <1>1, <1>2, <2>3 DEF Agree
    <3>2. Delta(a) \in Nat /\ Delta(a) <= a.spent
        BY <1>1, <1>2 DEF Delta
    <3>3. CASE LateInWindow(a)
        BY <1>1, <1>2, <3>3 DEF Charge, Baseline
    <3>4. CASE ~LateInWindow(a)
        BY <1>1, <1>2, <3>1, <3>2, <3>4 DEF Charge, Baseline, Snapshot
    <3>. QED
        BY <3>3, <3>4
  <2>. QED
    BY <1>1, <1>2, <2>1, <2>2, <2>3
<1>. QED
    BY <1>3, <1>4

\* Whatever becomes the baseline after a response is one of the readings before it.
LEMMA BaselineReading ==
    ASSUME NEW a \in Answers
    PROVE  \/ Baseline(a) = last /\ last.some
           \/ /\ Baseline(a).some /\ Baseline(a).spent = a.spent
              /\ Baseline(a).win = a.win /\ Baseline(a).cum = a.cum
    BY DEF Baseline, Snapshot

LEMMA InvInit == Init => IInv
<1>. SUFFICES ASSUME Init PROVE IInv
    OBVIOUS
<1>1. TypeOK
    BY BudgetConstants DEF BudgetConstants, Init, TypeOK, NoSnapshot, NoAnswer, IdleRequest,
        Requests, Answers, Snapshots, Counts
<1>2. \A r \in Req : ~Sent(r)
    BY DEF Init, Sent, IdleRequest
<1>. QED
    BY <1>1, <1>2 DEF Init, IInv, AnswersPast, AnswersAgree, BaselineAgrees, ChargeCovered,
        NoSnapshot, TypeOK

\* Every step keeps the readings consistent and the charges covered.
LEMMA InvNext == IInv /\ TypeOK' /\ [Next]_vars => IInv'
<1>. SUFFICES ASSUME IInv, TypeOK', [Next]_vars
              PROVE  AnswersPast' /\ AnswersAgree' /\ BaselineAgrees' /\ ChargeCovered'
    BY DEF IInv
<1>. USE BudgetConstants DEF BudgetConstants
<1>0. /\ TypeOK /\ AnswersPast /\ AnswersAgree /\ BaselineAgrees /\ ChargeCovered
      /\ \A r \in Req : req[r] \in Requests /\ req[r].answer \in Answers
    BY DEF IInv, TypeOK, Requests
<1>. USE <1>0
<1>1. CASE Tick
  <2>. USE <1>1
  <2>1. UNCHANGED <<last, req, cum, charged, flags>> /\ \A r \in Req : Sent(r)' <=> Sent(r)
    BY DEF Tick, Sent
  <2>2. \/ UNCHANGED <<win, counter>>
        \/ win' = win + 1 /\ counter' = 0
    BY DEF Tick
  <2>4. AnswersPast'
    BY <2>1, <2>2 DEF AnswersPast, Past, TypeOK, Answers
  <2>5. BaselineAgrees'
    BY <2>1, <2>2 DEF BaselineAgrees, Past, Agree, TypeOK, Snapshots
  <2>. QED
    BY <2>1, <2>4, <2>5 DEF AnswersAgree, ChargeCovered, Agree
<1>2. CASE Restart
  <2>1. \A r \in Req : ~Sent(r)'
    BY <1>2 DEF Restart, Sent, IdleRequest
  <2>2. ~last'.some /\ UNCHANGED <<charged, cum, flags>>
    BY <1>2 DEF Restart, NoSnapshot
  <2>. QED
    BY <2>1, <2>2 DEF AnswersPast, AnswersAgree, BaselineAgrees, ChargeCovered
<1>3. ASSUME NEW r \in Req,
             \A q \in Req : Sent(q)' => Sent(q) /\ req'[q].answer = req[q].answer,
             UNCHANGED <<win, counter, cum, last, charged>>,
             flags \subseteq flags'
      PROVE  AnswersPast' /\ AnswersAgree' /\ BaselineAgrees' /\ ChargeCovered'
  <2>1. AnswersPast'
    BY <1>3 DEF AnswersPast, Past
  <2>2. AnswersAgree'
    BY <1>3 DEF AnswersAgree, Agree
  <2>3. BaselineAgrees'
    BY <1>3 DEF BaselineAgrees, Past, Agree
  <2>. QED
    BY <1>3, <2>1, <2>2, <2>3 DEF ChargeCovered
<1>4. ASSUME NEW r \in Req, End(r)
      PROVE  AnswersPast' /\ AnswersAgree' /\ BaselineAgrees' /\ ChargeCovered'
  <2>1. \A q \in Req : Sent(q)' => Sent(q) /\ req'[q].answer = req[q].answer
    BY <1>4 DEF End, Sent, IdleRequest, TypeOK
  <2>. QED
    BY <1>3, <1>4, <2>1 DEF End
<1>5. ASSUME NEW r \in Req, Lose(r)
      PROVE  AnswersPast' /\ AnswersAgree' /\ BaselineAgrees' /\ ChargeCovered'
  <2>1. \A q \in Req : Sent(q)' => Sent(q) /\ req'[q].answer = req[q].answer
    BY <1>5 DEF Lose, Sent, TypeOK, Requests
  <2>. QED
    BY <1>3, <1>5, <2>1 DEF Lose
<1>6. ASSUME NEW r \in Req, NEW n \in 1..Batch, Reserve(r, n)
      PROVE  AnswersPast' /\ AnswersAgree' /\ BaselineAgrees' /\ ChargeCovered'
  <2>1. \A q \in Req : Sent(q)' => Sent(q) /\ req'[q].answer = req[q].answer
    BY <1>6 DEF Reserve, Sent, TypeOK, Requests
  <2>. QED
    BY <1>3, <1>6, <2>1 DEF Reserve
<1>7. ASSUME NEW r \in Req, NEW c \in Cost, NEW drop \in 0..Truncation, Serve(r, c, drop)
      PROVE  AnswersPast' /\ AnswersAgree' /\ BaselineAgrees' /\ ChargeCovered'
  <2>. DEFINE b == req'[r].answer
  <2>1. /\ b.spent = counter' /\ b.win = win /\ b.cum = cum'
        /\ \A q \in Req \ {r} : req'[q] = req[q]
        /\ counter' = counter + c /\ cum' = cum + c /\ c \in Nat
        /\ UNCHANGED <<win, last, charged>> /\ flags \subseteq flags'
    BY <1>7 DEF Serve, TypeOK
  <2>2. \A q \in Req : Sent(q)' => q = r \/ Sent(q)
    BY <2>1 DEF Sent
  <2>3. /\ \A q \in Req : /\ req[q].answer.spent \in Nat /\ req[q].answer.win \in Nat
                         /\ req[q].answer.cum \in Nat
        /\ {counter, win, cum, charged, last.spent, last.win, last.cum} \subseteq Nat
    BY DEF TypeOK, Answers, Snapshots
  <2>. HIDE DEF b
  <2>4. \A q \in Req : Sent(q) => Past(req[q].answer)
    BY DEF AnswersPast
  <2>5. \A q \in Req \ {r} : Sent(q) => Agree(req[q].answer, b) /\ Agree(b, req[q].answer)
    BY <2>1, <2>3, <2>4 DEF Past, Agree
  <2>6. last.some => Agree(last, b) /\ Agree(b, last)
    BY <2>1, <2>3 DEF BaselineAgrees, Past, Agree
  <2>7. AnswersPast'
    <3>1. ASSUME NEW q \in Req, Sent(q)' PROVE Past(req[q].answer)'
      <4>1. CASE q = r
        BY <2>1, <2>3, <4>1 DEF Past, b
      <4>2. CASE q # r
        BY <2>1, <2>2, <2>3, <2>4, <3>1, <4>2 DEF Past
      <4>. QED
        BY <4>1, <4>2
    <3>. QED
        BY <3>1 DEF AnswersPast
  <2>8. AnswersAgree'
    <3>1. ASSUME NEW p \in Req, NEW q \in Req, Sent(p)', Sent(q)'
          PROVE  Agree(req'[p].answer, req'[q].answer)
      <4>1. CASE p # r /\ q # r
        BY <2>1, <2>2, <3>1, <4>1 DEF AnswersAgree
      <4>2. CASE p = r /\ q # r
        BY <2>1, <2>2, <2>5, <3>1, <4>2 DEF b
      <4>3. CASE p # r /\ q = r
        BY <2>1, <2>2, <2>5, <3>1, <4>3 DEF b
      <4>4. CASE p = r /\ q = r
        <5>1. b.win \in Nat /\ b.spent \in Nat /\ b.cum \in Nat
            BY <2>1, <2>3
        <5>. QED
            BY <4>4, <5>1 DEF Agree, b
      <4>. QED
        BY <4>1, <4>2, <4>3, <4>4
    <3>. QED
        BY <3>1 DEF AnswersAgree, Agree
  <2>9. BaselineAgrees'
    <3>. SUFFICES ASSUME last.some PROVE BaselineAgrees'
        BY <2>1 DEF BaselineAgrees
    <3>1. Past(last)'
        BY <2>1, <2>3 DEF BaselineAgrees, Past
    <3>2. ASSUME NEW q \in Req, Sent(q)'
          PROVE  Agree(req'[q].answer, last) /\ Agree(last, req'[q].answer)
      <4>1. CASE q = r
        BY <2>6, <4>1 DEF b
      <4>2. CASE q # r
        BY <2>1, <2>2, <3>2, <4>2 DEF BaselineAgrees
      <4>. QED
        BY <4>1, <4>2
    <3>. QED
        BY <2>1, <3>1, <3>2 DEF BaselineAgrees, Agree
  <2>10. ChargeCovered'
    <3>. SUFFICES ASSUME "late" \notin flags'
                  PROVE  /\ charged <= cum'
                         /\ last.some => charged <= last.cum
                         /\ ~last.some => \A q \in Req : Sent(q)' => charged <= req'[q].answer.cum
        BY <2>1 DEF ChargeCovered
    <3>1. charged <= cum /\ (last.some => charged <= last.cum)
        BY <2>1 DEF ChargeCovered
    <3>2. charged <= cum'
        BY <2>1, <2>3, <3>1
    <3>3. ASSUME ~last.some, NEW q \in Req, Sent(q)' PROVE charged <= req'[q].answer.cum
      <4>1. CASE q = r
        BY <2>1, <3>2, <4>1 DEF b
      <4>2. CASE q # r
        BY <2>1, <2>2, <3>3, <4>2 DEF ChargeCovered
      <4>. QED
        BY <4>1, <4>2
    <3>. QED
        BY <3>1, <3>2, <3>3
  <2>. QED
    BY <2>7, <2>8, <2>9, <2>10
<1>8. ASSUME NEW r \in Req, Observe(r)
      PROVE  AnswersPast' /\ AnswersAgree' /\ BaselineAgrees' /\ ChargeCovered'
  <2>. DEFINE a == req[r].answer
  <2>1. /\ Sent(r) /\ last' = Baseline(a) /\ charged' = charged + Charge(a)
        /\ ~Sent(r)' /\ \A q \in Req \ {r} : req'[q] = req[q]
        /\ UNCHANGED <<win, counter, cum>>
        /\ flags \subseteq flags' /\ ("late" \notin flags' => ~Misread(a))
    BY <1>8 DEF Observe, Sent, TypeOK, Flags
  <2>2. \A q \in Req : Sent(q)' => Sent(q) /\ req'[q].answer = req[q].answer
    BY <2>1 DEF Sent
  <2>3. a \in Answers /\ Charge(a) \in Nat /\ Baseline(a) \in Snapshots /\ charged \in Nat
    BY ChargeType DEF TypeOK
  <2>4. AnswersPast'
    BY <2>1, <2>2 DEF AnswersPast, Past
  <2>5. AnswersAgree'
    BY <2>2 DEF AnswersAgree, Agree
  <2>6. \/ last' = last /\ last.some
        \/ last'.some /\ last'.spent = a.spent /\ last'.win = a.win /\ last'.cum = a.cum
    BY <2>1, <2>3, BaselineReading
  <2>. HIDE DEF a
  <2>7. BaselineAgrees'
    <3>1. CASE last' = last /\ last.some
        BY <2>1, <2>2, <3>1 DEF BaselineAgrees, Past, Agree
    <3>2. CASE last'.spent = a.spent /\ last'.win = a.win /\ last'.cum = a.cum
        BY <2>1, <2>2, <3>2 DEF BaselineAgrees, AnswersPast, AnswersAgree, Past, Agree, a
    <3>. QED
        BY <2>6, <3>1, <3>2
  <2>8. ChargeCovered'
    <3>. SUFFICES ASSUME "late" \notin flags'
                  PROVE  charged' <= cum' /\ last'.some /\ charged' <= last'.cum
        BY DEF ChargeCovered
    <3>1. last'.some /\ last'.cum \in Nat /\ cum \in Nat /\ last.cum \in Nat /\ a.cum \in Nat
        BY <2>1, <2>3, <2>6 DEF Snapshots, Answers, TypeOK
    <3>2. charged' <= last'.cum
      <4>1. CASE last.some
        <5>1. Agree(a, last) /\ Agree(last, a)
            BY <2>1, <4>1 DEF BaselineAgrees, a
        <5>2. last.cum + Charge(a) <= Baseline(a).cum
            BY <2>1, <2>3, <4>1, <5>1, ChargeStep
        <5>3. charged <= last.cum
            BY <2>1, <4>1 DEF ChargeCovered
        <5>. QED
            BY <2>1, <2>3, <3>1, <5>2, <5>3
      <4>2. CASE ~last.some
        BY <2>1, <2>3, <2>6, <4>2 DEF ChargeCovered, Charge, a
      <4>. QED
        BY <4>1, <4>2
    <3>3. last'.cum <= cum
        BY <2>6, <2>1 DEF BaselineAgrees, AnswersPast, Past, a
    <3>. QED
        BY <2>1, <2>3, <3>1, <3>2, <3>3
  <2>. QED
    BY <2>4, <2>5, <2>7, <2>8
<1>9. CASE UNCHANGED vars
  <2>1. \A q \in Req : Sent(q)' = Sent(q)
    BY <1>9 DEF vars, Sent
  <2>. QED
    BY <1>9, <2>1 DEF vars, AnswersPast, AnswersAgree, BaselineAgrees, ChargeCovered, Past, Agree
<1>. QED
    BY <1>1, <1>2, <1>4, <1>5, <1>6, <1>7, <1>8, <1>9 DEF Next

\* meter.ts:55-88: for every number of requests and users, and whatever is lost,
\* overtaken inside a window or restarted, the members together are not charged more
\* than WCL counted, unless an overtaken answer crossed the end of a window.
THEOREM ChargesCovered == Spec => []NoOvercharge
<1>1. Init => IInv
    BY InvInit
<1>2. IInv /\ TypeOK' /\ [Next]_vars => IInv'
    BY InvNext
<1>3. IInv => NoOvercharge
    BY DEF IInv, ChargeCovered, NoOvercharge
<1>. QED
    BY <1>1, <1>2, <1>3, TypeCorrect, PTL DEF Spec

-----------------------------------------------------------------------------
(* Counting the queries that are still owed                                 *)

\* A finite non-empty set of naturals has a greatest element, and MaxOf is one.
LEMMA GreatestExists ==
    ASSUME NEW S \in SUBSET Nat, IsFiniteSet(S), S # {}
    PROVE  \E x \in S : \A y \in S : y <= x
<1>. DEFINE Topped(U) == \E x \in U : \A y \in U : y <= x
            Bad == {U \in SUBSET S : U # {} /\ ~Topped(U)}
            Sizes == {m \in Nat : \E U \in Bad : Cardinality(U) = m}
<1>1. SUFFICES ASSUME Bad # {} PROVE FALSE
    OBVIOUS
<1>2. \A U \in SUBSET S : IsFiniteSet(U) /\ Cardinality(U) \in Nat
    BY FS_Subset, FS_CardinalityType
<1>3. Sizes \subseteq Nat /\ Sizes # {}
    BY <1>1, <1>2
<1>4. PICK m \in Sizes : \A k \in Sizes : ~(<<k, m>> \in OpToRel(<, Nat))
  <2>. HIDE DEF Sizes
  <2>. QED
    BY <1>3, WFMin, NatLessThanWellFounded, Zenon
<1>5. PICK U \in Bad : Cardinality(U) = m
    OBVIOUS
<1>6. PICK x \in U : TRUE
    OBVIOUS
<1>. DEFINE V == U \ {x}
<1>7. Cardinality(V) = m - 1 /\ Cardinality(V) \in Nat /\ m \in Nat
    BY <1>2, <1>5, <1>6, FS_RemoveElement
<1>8. V \in SUBSET S /\ x \in Nat /\ U \subseteq Nat
    BY <1>5, <1>6
<1>9. CASE V = {}
  <2>1. \A y \in U : y <= x
    BY <1>8, <1>9
  <2>. QED
    BY <1>5, <1>6, <2>1
<1>10. CASE V # {}
  <2>1. V \notin Bad
    <3>1. SUFFICES ASSUME V \in Bad PROVE FALSE
        OBVIOUS
    <3>2. m - 1 \in Sizes
        BY <1>7, <3>1
    <3>3. <<m - 1, m>> \in OpToRel(<, Nat)
        BY <1>7 DEF OpToRel
    <3>. QED
        BY <1>4, <3>2, <3>3
  <2>2. PICK z \in V : \A y \in V : y <= z
    BY <1>8, <1>10, <2>1
  <2>3. CASE x <= z
    BY <1>5, <1>8, <2>2, <2>3
  <2>4. CASE ~(x <= z)
    <3>1. \A y \in U : y <= x
        BY <1>8, <2>2, <2>4
    <3>. QED
        BY <1>5, <1>6, <3>1
  <2>. QED
    BY <2>3, <2>4
<1>. QED
    BY <1>9, <1>10

LEMMA MaxOfNats ==
    ASSUME NEW S \in SUBSET Nat, IsFiniteSet(S), S # {}
    PROVE  MaxOf(S) \in Nat /\ \A y \in S : y <= MaxOf(S)
    BY GreatestExists DEF MaxOf

LEMMA MaxOfTwo ==
    ASSUME NEW a \in Int, NEW b \in Int
    PROVE  MaxOf({a, b}) \in {a, b} /\ a <= MaxOf({a, b}) /\ b <= MaxOf({a, b})
<1>1. \E x \in {a, b} : \A y \in {a, b} : y <= x
    OBVIOUS
<1>2. /\ MaxOf({a, b}) \in {a, b}
      /\ \A y \in {a, b} : y <= MaxOf({a, b})
    BY <1>1 DEF MaxOf
<1>. QED
    BY <1>2

\* The queries the requests of S still owe, one pair each: request r owes owed[r].
Owing(owed, S) == {p \in S \X (1..Batch) : p[2] <= owed[p[1]]}

LEMMA BatchSize == IsFiniteSet(1..Batch) /\ Cardinality(1..Batch) = Batch
<1>1. 1 \in Int /\ Batch \in Int /\ Batch >= 1
    BY BudgetConstants DEF BudgetConstants
<1>. QED
    BY <1>1, FS_Interval

\* At most a batch each.
LEMMA OwingBound ==
    ASSUME NEW S \in SUBSET Req, NEW owed
    PROVE  /\ IsFiniteSet(Owing(owed, S))
           /\ Cardinality(Owing(owed, S)) \in Nat
           /\ Cardinality(S) \in Nat
           /\ Cardinality(Owing(owed, S)) <= Cardinality(S) * Batch
<1>. USE BudgetConstants DEF BudgetConstants
<1>1. IsFiniteSet(S) /\ Cardinality(S) \in Nat
    BY FS_Subset, FS_CardinalityType
<1>2. IsFiniteSet(1..Batch) /\ Cardinality(1..Batch) = Batch
    BY BatchSize
<1>3. IsFiniteSet(S \X (1..Batch)) /\ Cardinality(S \X (1..Batch)) = Cardinality(S) * Batch
    BY <1>1, <1>2, FS_Product
<1>4. Owing(owed, S) \in SUBSET (S \X (1..Batch))
    BY DEF Owing
<1>5. /\ IsFiniteSet(Owing(owed, S))
      /\ Cardinality(Owing(owed, S)) <= Cardinality(S) * Batch
    BY <1>3, <1>4, FS_Subset
<1>. QED
    BY <1>1, <1>5, FS_CardinalityType

\* Owing less, request by request, is owing less.
LEMMA OwingShrinks ==
    ASSUME NEW S \in SUBSET Req, NEW owed, NEW less,
           \A r \in S : owed[r] \in Nat /\ less[r] \in Nat /\ less[r] <= owed[r]
    PROVE  Cardinality(Owing(less, S)) <= Cardinality(Owing(owed, S))
<1>1. Owing(less, S) \in SUBSET Owing(owed, S)
    BY DEF Owing
<1>. QED
    BY <1>1, OwingBound, FS_Subset

\* One query less of one request is one query less.
LEMMA OwingDrops ==
    ASSUME NEW S \in SUBSET Req, NEW owed, NEW less, NEW q \in S,
           \A r \in S : owed[r] \in Nat /\ less[r] \in Nat /\ less[r] <= owed[r],
           owed[q] \in 1..Batch, less[q] < owed[q]
    PROVE  Cardinality(Owing(less, S)) + 1 <= Cardinality(Owing(owed, S))
<1>. DEFINE top == <<q, owed[q]>>
<1>1. top \in Owing(owed, S)
    BY DEF Owing
<1>2. Owing(less, S) \in SUBSET (Owing(owed, S) \ {top})
    BY DEF Owing
<1>3. IsFiniteSet(Owing(owed, S) \ {top})
      /\ Cardinality(Owing(owed, S) \ {top}) = Cardinality(Owing(owed, S)) - 1
    BY <1>1, OwingBound, FS_RemoveElement
<1>4. Cardinality(Owing(less, S)) <= Cardinality(Owing(owed, S) \ {top})
    BY <1>2, <1>3, FS_Subset
<1>5. /\ Cardinality(Owing(less, S)) \in Nat
      /\ Cardinality(Owing(owed, S)) \in Nat
    BY OwingBound
<1>. QED
    BY <1>3, <1>4, <1>5

\* Requests that wait for an answer have a query less to send.
LEMMA OwingAndAhead ==
    ASSUME NEW A \in SUBSET Req, NEW owed,
           \A r \in Req : owed[r] \in 0..Batch /\ (r \in A => owed[r] < Batch)
    PROVE  /\ IsFiniteSet(A) /\ Cardinality(A) \in Nat
           /\ Cardinality(A) + Cardinality(Owing(owed, Req)) <= Cardinality(Req) * Batch
<1>. USE BudgetConstants DEF BudgetConstants
<1>. DEFINE last1 == A \X {Batch}
            rest == Owing(owed, Req)
<1>1. IsFiniteSet(A) /\ Cardinality(A) \in Nat
    BY FS_Subset, FS_CardinalityType
<1>2. IsFiniteSet(last1) /\ Cardinality(last1) = Cardinality(A)
  <2>1. IsFiniteSet({Batch}) /\ Cardinality({Batch}) = 1
    BY FS_Singleton
  <2>2. IsFiniteSet(last1) /\ Cardinality(last1) = Cardinality(A) * Cardinality({Batch})
    BY <1>1, <2>1, FS_Product
  <2>. QED
    BY <1>1, <2>1, <2>2
<1>3. IsFiniteSet(rest) /\ Cardinality(rest) \in Nat
    BY OwingBound
<1>4. last1 \cap rest = {}
    BY DEF Owing
<1>5. Cardinality(last1 \union rest) = Cardinality(A) + Cardinality(rest)
  <2>. HIDE DEF last1, rest
  <2>1. Cardinality(last1 \union rest)
          = Cardinality(last1) + Cardinality(rest) - Cardinality(last1 \intersect rest)
    BY <1>2, <1>3, FS_Union
  <2>2. Cardinality(last1 \intersect rest) = 0
    BY <1>4, FS_EmptySet
  <2>. QED
    BY <1>1, <1>2, <1>3, <2>1, <2>2
<1>6. last1 \union rest \in SUBSET (Req \X (1..Batch))
    BY DEF Owing
<1>7. IsFiniteSet(Req \X (1..Batch))
      /\ Cardinality(Req \X (1..Batch)) = Cardinality(Req) * Batch
    BY BatchSize, FS_Product
<1>8. Cardinality(last1 \union rest) <= Cardinality(Req) * Batch
  <2>. HIDE DEF last1, rest
  <2>. QED
    BY <1>6, <1>7, FS_Subset
<1>. QED
    BY <1>1, <1>5, <1>8

-----------------------------------------------------------------------------
(* The hourly quota                                                         *)

\* What request r may still observe: the queries it has reserved and the answer on
\* its way.
Owed == [r \in Req |-> req[r].left + IF Sent(r) THEN 1 ELSE 0]
OwedBatch == \A r \in Req : Owed[r] \in 0..Batch

Of(u) == {r \in Req : UserOf[r] = u}
Room(u) == UserLimit - Estimate + Cardinality(Of(u)) * Batch * MaxCharge

\* What a member has used and may still be charged stays within his room; a quota
\* smaller than one query's estimate admits nothing.
QuotaCovered ==
    \A u \in User \ Admin :
        IF UserLimit < Estimate
        THEN used[u] = 0 /\ \A r \in Of(u) : Owed[r] = 0
        ELSE used[u] + Cardinality(Owing(Owed, Of(u))) * MaxCharge <= Room(u)

QuotaInv == OwedBatch /\ QuotaCovered

LEMMA TimesMonotone ==
    ASSUME NEW a \in Nat, NEW b \in Nat, NEW c \in Nat, a <= b
    PROVE  a * c <= b * c /\ a * c \in Nat /\ b * c \in Nat /\ (a + 1) * c = a * c + c
    OBVIOUS

LEMMA TimesDistribute ==
    ASSUME NEW a \in Nat, NEW b \in Nat, NEW c \in Nat
    PROVE  (a + b) * c = a * c + b * c
    OBVIOUS

LEMMA TimesAssociate ==
    ASSUME NEW a \in Nat, NEW b \in Nat, NEW c \in Nat
    PROVE  a * b * c = a * (b * c) /\ a * (b * c) \in Nat
    OBVIOUS

LEMMA OwedType == TypeOK => \A r \in Req : Owed[r] \in Nat
    BY DEF TypeOK, Requests, Owed

\* What each step does to the queries a request owes.
LEMMA OwedStep ==
    ASSUME TypeOK, OwedBatch, Next
    PROVE  /\ \A r \in Req : Owed'[r] \in 0..Batch
           /\ \/ /\ \A r \in Req : Owed'[r] <= Owed[r]
                 /\ used' = used \/ used' = [u \in User |-> 0]
              \/ /\ used' = used
                 /\ \E r \in Req, n \in 1..Batch :
                      /\ ~Refused(UserOf[r], n * Estimate)
                      /\ \A q \in Req \ {r} : Owed'[q] = Owed[q]
              \/ \E r \in Req :
                      /\ Owed[r] \in 1..Batch /\ Owed'[r] < Owed[r]
                      /\ \A q \in Req \ {r} : Owed'[q] = Owed[q]
                      /\ \E c \in 0..MaxCharge :
                           used' = [used EXCEPT ![UserOf[r]] = @ + c]
<1>. USE BudgetConstants DEF BudgetConstants
<1>0. \A r \in Req : /\ Owed[r] \in 0..Batch /\ req[r] \in Requests
                     /\ req[r].left \in Nat
                     /\ Owed[r] = req[r].left + IF Sent(r) THEN 1 ELSE 0
    BY DEF OwedBatch, TypeOK, Requests, Owed
<1>0a. \A r \in Req : Owed'[r] = req'[r].left + IF Sent(r)' THEN 1 ELSE 0
    BY DEF Owed
<1>1. CASE Tick
    BY <1>0, <1>0a, <1>1 DEF Tick, Sent
<1>2. CASE Restart
  <2>1. \A r \in Req : req'[r].left = 0 /\ ~Sent(r)'
    BY <1>2 DEF Restart, Sent, IdleRequest
  <2>. QED
    BY <1>0, <1>0a, <1>2, <2>1 DEF Restart
<1>3. ASSUME NEW r \in Req, End(r) PROVE used' = used /\ \A q \in Req : Owed'[q] \in 0..Owed[q]
  <2>1. req'[r].left = 0 /\ ~Sent(r)' /\ \A q \in Req \ {r} : req'[q] = req[q]
    BY <1>3 DEF End, Sent, IdleRequest, TypeOK
  <2>. QED
    BY <1>0, <1>0a, <1>3, <2>1 DEF End, Sent
<1>4. ASSUME NEW r \in Req, Lose(r) PROVE used' = used /\ \A q \in Req : Owed'[q] \in 0..Owed[q]
  <2>1. req'[r].left = req[r].left /\ ~Sent(r)' /\ \A q \in Req \ {r} : req'[q] = req[q]
    BY <1>0, <1>4 DEF Lose, Sent, TypeOK, Requests
  <2>. QED
    BY <1>0, <1>0a, <1>4, <2>1 DEF Lose, Sent
<1>5. ASSUME NEW r \in Req, NEW c \in Cost, NEW drop \in 0..Truncation, Serve(r, c, drop)
      PROVE  used' = used /\ \A q \in Req : Owed'[q] \in 0..Owed[q]
  <2>1. /\ req'[r].left = req[r].left - 1 /\ req[r].left > 0 /\ ~Sent(r)
        /\ \A q \in Req \ {r} : req'[q] = req[q]
    BY <1>5 DEF Serve, Sent, TypeOK
  <2>. QED
    BY <1>0, <1>0a, <1>5, <2>1 DEF Serve, Sent
<1>6. ASSUME NEW r \in Req, NEW n \in 1..Batch, Reserve(r, n)
      PROVE  /\ Owed'[r] \in 0..Batch /\ used' = used /\ ~Refused(UserOf[r], n * Estimate)
             /\ \A q \in Req \ {r} : Owed'[q] = Owed[q]
  <2>1. req'[r].left = n /\ ~Sent(r)' /\ \A q \in Req \ {r} : req'[q] = req[q]
    BY <1>0, <1>6 DEF Reserve, Sent, TypeOK, Requests
  <2>. QED
    BY <1>0, <1>0a, <1>6, <2>1 DEF Reserve, Sent
<1>7. ASSUME NEW r \in Req, Observe(r)
      PROVE  /\ Owed[r] \in 1..Batch /\ Owed'[r] < Owed[r] /\ Owed'[r] \in 0..Batch
             /\ \A q \in Req \ {r} : Owed'[q] = Owed[q]
             /\ \E c \in 0..MaxCharge : used' = [used EXCEPT ![UserOf[r]] = @ + c]
  <2>. DEFINE a == req[r].answer
  <2>1. Sent(r) /\ ~Sent(r)' /\ req'[r].left = req[r].left
        /\ \A q \in Req \ {r} : req'[q] = req[q]
    BY <1>7 DEF Observe, Sent, TypeOK
  <2>2. a \in Answers /\ Charge(a) \in Nat
    BY <1>0, ChargeType DEF Requests
  <2>3. Delta(a) \in Nat
    BY <2>2 DEF Delta, Answers, TypeOK, Snapshots
  <2>4. Charge(a) \in 0..MaxCharge
    BY <2>2, <2>3 DEF Charge
  <2>5. used' = [used EXCEPT ![UserOf[r]] = @ + Charge(a)]
    BY <1>7 DEF Observe
  <2>6. Owed[r] \in 1..Batch /\ Owed'[r] < Owed[r] /\ Owed'[r] \in 0..Batch
    BY <1>0, <1>0a, <2>1
  <2>7. \A q \in Req \ {r} : Owed'[q] = Owed[q]
    BY <1>0, <1>0a, <2>1 DEF Sent
  <2>. QED
    BY <2>4, <2>5, <2>6, <2>7, Zenon
<1>. HIDE DEF Owed
<1>8. CASE \E r \in Req, n \in 1..Batch : Reserve(r, n)
    BY <1>0, <1>6, <1>8
<1>9. CASE \E r \in Req : Observe(r)
  <2>1. PICK r \in Req : Observe(r)
    BY <1>9
  <2>2. \A q \in Req : Owed'[q] \in 0..Batch
    BY <1>0, <1>7, <2>1
  <2>. QED
    BY <1>7, <2>1, <2>2
<1>10. CASE \E r \in Req : \/ End(r) \/ Lose(r)
                           \/ \E c \in Cost, drop \in 0..Truncation : Serve(r, c, drop)
  <2>1. used' = used /\ \A q \in Req : Owed'[q] \in 0..Owed[q]
    BY <1>3, <1>4, <1>5, <1>10
  <2>. QED
    BY <1>0, <2>1
<1>. QED
    BY <1>1, <1>2, <1>8, <1>9, <1>10 DEF Next

\* Every step keeps each member within his room.
LEMMA QuotaStep == TypeOK /\ QuotaInv /\ [Next]_vars => QuotaInv'
<1>. SUFFICES ASSUME TypeOK, QuotaInv, [Next]_vars PROVE QuotaInv'
    OBVIOUS
<1>. USE BudgetConstants DEF BudgetConstants
<1>1. CASE UNCHANGED vars
    BY <1>1 DEF vars, QuotaInv, OwedBatch, QuotaCovered, Owed, Sent, Owing
<1>2. CASE Next
  <2>0. OwedBatch /\ QuotaCovered
    BY DEF QuotaInv
  <2>1. \A r \in Req : Owed'[r] \in 0..Batch
    BY <1>2, <2>0, OwedStep
  <2>2. ASSUME NEW u \in User \ Admin
        PROVE  IF UserLimit < Estimate
               THEN used'[u] = 0 /\ \A r \in Of(u) : Owed'[r] = 0
               ELSE used'[u] + Cardinality(Owing(Owed', Of(u))) * MaxCharge <= Room(u)
    <3>. DEFINE S == Of(u)
                k == Cardinality(Owing(Owed, S))
                j == Cardinality(Owing(Owed', S))
                full == Cardinality(S) * Batch
    <3>1. /\ S \in SUBSET Req /\ used[u] \in Nat
          /\ \A r \in S : Owed[r] \in 0..Batch /\ Owed'[r] \in 0..Batch
          /\ used \in [User -> Nat]
        BY <2>0, <2>1 DEF Of, TypeOK, OwedBatch
    <3>2. k \in Nat /\ j \in Nat /\ k <= full /\ j <= full /\ full \in Nat
        BY <3>1, OwingBound
    <3>3. \A r \in S : Owed[r] \in Nat /\ Owed'[r] \in Nat
        BY <3>1
    <3>4. IF UserLimit < Estimate
          THEN used[u] = 0 /\ \A r \in S : Owed[r] = 0
          ELSE used[u] + k * MaxCharge <= Room(u)
        BY <2>0 DEF QuotaCovered
    <3>5. Room(u) = UserLimit - Estimate + full * MaxCharge /\ full * MaxCharge \in Nat
        BY <3>2 DEF Room
    <3>6. CASE /\ \A r \in Req : Owed'[r] <= Owed[r]
               /\ used' = used \/ used' = [v \in User |-> 0]
      <4>1. j <= k
        BY <3>1, <3>3, <3>6, OwingShrinks
      <4>2. used'[u] \in 0..used[u]
        BY <3>1, <3>6
      <4>. HIDE DEF k, j
      <4>3. j * MaxCharge <= k * MaxCharge /\ j * MaxCharge \in Nat /\ k * MaxCharge \in Nat
        BY <3>2, <4>1, TimesMonotone
      <4>4. Room(u) \in Int
        BY <3>5
      <4>5. CASE UserLimit < Estimate
        BY <3>1, <3>4, <3>6, <4>2, <4>5
      <4>6. CASE ~(UserLimit < Estimate)
        <5>. DEFINE jm == j * MaxCharge
                    km == k * MaxCharge
        <5>1. used[u] + km <= Room(u) /\ jm <= km /\ jm \in Nat /\ km \in Nat
            BY <3>4, <4>3, <4>6
        <5>. HIDE DEF jm, km
        <5>2. used'[u] + jm <= Room(u)
            BY <3>1, <4>2, <4>4, <5>1
        <5>. QED
            BY <4>6, <5>2 DEF j, jm
      <4>. QED
        BY <4>5, <4>6
    <3>7. ASSUME NEW r \in Req, NEW n \in 1..Batch,
                 used' = used, ~Refused(UserOf[r], n * Estimate),
                 \A q \in Req \ {r} : Owed'[q] = Owed[q]
          PROVE  IF UserLimit < Estimate
                 THEN used'[u] = 0 /\ \A q \in Of(u) : Owed'[q] = 0
                 ELSE used'[u] + j * MaxCharge <= Room(u)
      <4>1. CASE r \in S
        <5>1. UserOf[r] = u /\ used[u] + n * Estimate <= UserLimit
            BY <3>1, <3>7, <4>1 DEF Of, Refused, QuotaRefuses
        <5>2. n * Estimate >= Estimate /\ n * Estimate \in Nat
            BY TimesMonotone
        <5>. DEFINE ne == n * Estimate
                    jm == j * MaxCharge
                    fm == full * MaxCharge
        <5>3. jm <= fm /\ jm \in Nat /\ fm \in Nat
            BY <3>2, TimesMonotone
        <5>4. used[u] + ne <= UserLimit /\ ne >= Estimate /\ ne \in Nat
            BY <5>1, <5>2
        <5>5. Room(u) = UserLimit - Estimate + fm
            BY <3>5
        <5>. HIDE DEF ne, jm, fm
        <5>6. ~(UserLimit < Estimate) /\ used[u] + jm <= Room(u)
            BY <3>1, <5>3, <5>4, <5>5
        <5>. QED
            BY <3>7, <5>6 DEF jm
      <4>2. CASE r \notin S
        <5>1. \A q \in S : Owed'[q] = Owed[q]
            BY <3>1, <3>7, <4>2
        <5>2. Owing(Owed', S) = Owing(Owed, S)
            BY <5>1 DEF Owing
        <5>. QED
            BY <3>4, <3>7, <5>1, <5>2
      <4>. QED
        BY <4>1, <4>2
    <3>8. ASSUME NEW r \in Req, NEW c \in 0..MaxCharge,
                 Owed[r] \in 1..Batch, Owed'[r] < Owed[r],
                 \A q \in Req \ {r} : Owed'[q] = Owed[q],
                 used' = [used EXCEPT ![UserOf[r]] = @ + c]
          PROVE  IF UserLimit < Estimate
                 THEN used'[u] = 0 /\ \A q \in Of(u) : Owed'[q] = 0
                 ELSE used'[u] + j * MaxCharge <= Room(u)
      <4>1. CASE r \in S
        <5>1. ~(UserLimit < Estimate)
            BY <3>4, <3>8, <4>1
        <5>2. \A q \in S : Owed[q] \in Nat /\ Owed'[q] \in Nat /\ Owed'[q] <= Owed[q]
            BY <3>1, <3>3, <3>8
        <5>3. j + 1 <= k
            BY <3>1, <3>8, <4>1, <5>2, OwingDrops
        <5>4. used'[u] = used[u] + c
            BY <3>1, <3>8, <4>1 DEF Of
        <5>. HIDE DEF j, k
        <5>5. (j + 1) * MaxCharge <= k * MaxCharge /\ (j + 1) * MaxCharge \in Nat
              /\ k * MaxCharge \in Nat
          <6>1. j + 1 \in Nat
            BY <3>2
          <6>. QED
            BY <3>2, <5>3, <6>1, TimesMonotone
        <5>6. (j + 1) * MaxCharge = j * MaxCharge + MaxCharge /\ j * MaxCharge \in Nat
            BY <3>2, TimesMonotone
        <5>. DEFINE jm == j * MaxCharge
                    km == k * MaxCharge
        <5>7. jm + MaxCharge <= km /\ jm \in Nat /\ km \in Nat /\ used[u] + km <= Room(u)
            BY <3>4, <5>1, <5>5, <5>6
        <5>8. Room(u) \in Int /\ c \in Nat /\ c <= MaxCharge
            BY <3>5
        <5>. HIDE DEF jm, km
        <5>9. used[u] + c + jm <= Room(u)
            BY <3>1, <5>7, <5>8
        <5>. QED
            BY <5>1, <5>4, <5>9 DEF jm
      <4>2. CASE r \notin S
        <5>1. \A q \in S : Owed'[q] = Owed[q]
            BY <3>1, <3>8, <4>2
        <5>2. Owing(Owed', S) = Owing(Owed, S)
            BY <5>1 DEF Owing
        <5>3. used'[u] = used[u]
            BY <3>1, <3>8, <4>2 DEF Of, TypeOK
        <5>. QED
            BY <3>4, <5>1, <5>2, <5>3
      <4>. QED
        BY <4>1, <4>2
    <3>. HIDE DEF j, k, S
    <3>9. IF UserLimit < Estimate
          THEN used'[u] = 0 /\ \A q \in Of(u) : Owed'[q] = 0
          ELSE used'[u] + j * MaxCharge <= Room(u)
        BY <1>2, <2>0, <3>6, <3>7, <3>8, OwedStep DEF j, S
    <3>. QED
        BY <3>9 DEF j, S
  <2>. QED
    BY <2>1, <2>2 DEF QuotaInv, OwedBatch, QuotaCovered
<1>. QED
    BY <1>1, <1>2

\* quota.ts:32-60 with the cap of meter.ts:75-81: for every number of requests, members
\* and restarts, a member passes the hourly quota by at most MAX_CHARGE for each query
\* that his running requests may have reserved.
THEOREM QuotaOverruns == Spec => []QuotaOverrun
<1>1. Init => QuotaInv
  <2>. SUFFICES ASSUME Init PROVE QuotaInv
    OBVIOUS
  <2>1. \A r \in Req : Owed[r] = 0
    BY DEF Init, Owed, Sent, IdleRequest
  <2>2. OwedBatch
    BY <2>1, BudgetConstants DEF BudgetConstants, OwedBatch
  <2>3. ASSUME NEW u \in User \ Admin, ~(UserLimit < Estimate)
        PROVE  used[u] + Cardinality(Owing(Owed, Of(u))) * MaxCharge <= Room(u)
    <3>1. Owing(Owed, Of(u)) = {}
        BY <2>1 DEF Owing, Of
    <3>2. Cardinality(Owing(Owed, Of(u))) = 0
        BY <3>1, FS_EmptySet
    <3>3. Cardinality(Of(u)) * Batch \in Nat
      <4>1. Of(u) \in SUBSET Req
        BY DEF Of
      <4>. QED
        BY <4>1, OwingBound, BudgetConstants DEF BudgetConstants
    <3>4. Cardinality(Of(u)) * Batch * MaxCharge \in Nat
        BY <3>3, BudgetConstants DEF BudgetConstants
    <3>. DEFINE most == Cardinality(Of(u)) * Batch * MaxCharge
    <3>5. Room(u) = UserLimit - Estimate + most
        BY DEF Room
    <3>6. used[u] = 0
        BY DEF Init
    <3>. HIDE DEF most
    <3>7. most \in Nat
        BY <3>4 DEF most
    <3>. QED
        BY <2>3, <3>2, <3>5, <3>6, <3>7, BudgetConstants DEF BudgetConstants
  <2>4. \A u \in User : used[u] = 0
    BY DEF Init
  <2>. QED
    BY <2>1, <2>2, <2>3, <2>4 DEF QuotaInv, QuotaCovered, Of
<1>2. TypeOK /\ QuotaInv => QuotaOverrun
  <2>. SUFFICES ASSUME TypeOK, QuotaInv, NEW u \in User \ Admin
                PROVE  used[u] <= MaxOf({0, Room(u)})
    BY DEF QuotaOverrun, Room, Of
  <2>. DEFINE k == Cardinality(Owing(Owed, Of(u)))
              full == Cardinality(Of(u)) * Batch
  <2>1. k \in Nat /\ full \in Nat
    <3>1. Of(u) \in SUBSET Req
        BY DEF Of
    <3>. QED
        BY <3>1, OwingBound, BudgetConstants DEF BudgetConstants
  <2>2. k * MaxCharge \in Nat /\ full * MaxCharge \in Nat
    BY <2>1, BudgetConstants DEF BudgetConstants
  <2>3. Room(u) \in Int
    BY <2>2, BudgetConstants DEF Room, BudgetConstants
  <2>4. 0 <= MaxOf({0, Room(u)}) /\ Room(u) <= MaxOf({0, Room(u)})
        /\ MaxOf({0, Room(u)}) \in Int
    BY <2>3, MaxOfTwo
  <2>5. IF UserLimit < Estimate THEN used[u] = 0 ELSE used[u] + k * MaxCharge <= Room(u)
    BY DEF QuotaInv, QuotaCovered
  <2>6. used[u] \in Nat
    BY DEF TypeOK
  <2>. DEFINE km == k * MaxCharge
  <2>7. km \in Nat /\ (used[u] = 0 \/ used[u] + km <= Room(u))
    BY <2>2, <2>5
  <2>. HIDE DEF km
  <2>. QED
    BY <2>3, <2>4, <2>6, <2>7
<1>. QED
    BY <1>1, <1>2, QuotaStep, TypeCorrect, PTL DEF Spec

-----------------------------------------------------------------------------
(* The points floor                                                         *)

MaxCost == MaxOf(Cost)
MaxStart == MaxOf(StartCounter)

\* The baseline is a reading of the window that WCL counts in now.
OfThisWindow == last.some /\ last.win = win

\* pointsResetIn drops at most Truncation, and time only passes on the way: the end of
\* this window, as the process estimates it, is at most that early.
ClocksTruncated ==
    /\ now < winEnd
    /\ \A r \in Req : Sent(r) /\ req[r].answer.win = win =>
                        now + req[r].answer.resetIn >= winEnd - Truncation
    /\ OfThisWindow => last.windowEnd >= winEnd - Truncation

\* Undisturbed, an estimated window does not outlive WCL's.
WindowsKept ==
    Undisturbed /\ last.some => last.windowEnd <= IF last.win = win THEN winEnd ELSE now

\* Answers on their way that show more than x points ever counted.
Ahead(x) == {r \in Req : Sent(r) /\ req[r].answer.cum > x}

\* Undisturbed, what WCL counted since a reading that the baseline has seen is on its
\* way in an answer; before the first baseline of a window, all that WCL counted in it.
SpendInFlight ==
    Undisturbed =>
        \A x \in Nat : x >= cum - counter + MaxStart /\ (OfThisWindow => x >= last.cum) =>
                        cum - x <= Cardinality(Ahead(x)) * MaxCost

Left == [r \in Req |-> req[r].left]
FloorBase == MaxOf({MaxStart, WclLimit - PointsFloor - Estimate})

\* What WCL has counted and will count for the queries already reserved.
FloorCovered ==
    Undisturbed /\ winEnd - now > Truncation =>
        counter + Cardinality(Owing(Left, Req)) * MaxCost
            <= FloorBase + Cardinality(Req) * Batch * MaxCost

FloorInv ==
    /\ StartCounter # {} /\ counter <= cum
    /\ OwedBatch /\ ClocksTruncated /\ WindowsKept /\ SpendInFlight /\ FloorCovered

LEMMA FloorNumbers ==
    ASSUME StartCounter # {}
    PROVE  /\ MaxCost \in Nat /\ \A c \in Cost : c <= MaxCost
           /\ MaxStart \in Nat /\ \A c \in StartCounter : c <= MaxStart
           /\ FloorBase \in Int /\ MaxStart <= FloorBase
           /\ WclLimit - PointsFloor - Estimate <= FloorBase
           /\ FloorBase \in {MaxStart, WclLimit - PointsFloor - Estimate}
<1>. USE BudgetConstants DEF BudgetConstants
<1>1. MaxCost \in Nat /\ \A c \in Cost : c <= MaxCost
    BY MaxOfNats DEF MaxCost
<1>2. MaxStart \in Nat /\ \A c \in StartCounter : c <= MaxStart
    BY MaxOfNats DEF MaxStart
<1>3. WclLimit - PointsFloor - Estimate \in Int /\ MaxStart \in Int
    BY <1>2
<1>4. /\ FloorBase \in {MaxStart, WclLimit - PointsFloor - Estimate}
      /\ MaxStart <= FloorBase /\ WclLimit - PointsFloor - Estimate <= FloorBase
    BY <1>3, MaxOfTwo DEF FloorBase
<1>. QED
    BY <1>1, <1>2, <1>3, <1>4

\* Nothing that has disturbed the accounting is forgotten; a lost answer and a restart
\* disturb it, and so does an answer that is misread or stretched.
LEMMA DisturbedStays ==
    ASSUME TypeOK, Next, Undisturbed'
    PROVE  /\ Undisturbed /\ ~Restart /\ \A r \in Req : ~Lose(r)
           /\ \A r \in Req : Observe(r) => ~Misread(req[r].answer) /\ ~Stretches(req[r].answer)
<1>1. counts.lost \in Nat /\ counts.restarts \in Nat /\ flags \subseteq Flags
      /\ counts \in Counts
    BY DEF TypeOK, Counts
<1>2. ~Restart
    BY <1>1 DEF Restart, Undisturbed, Counts
<1>3. \A r \in Req : ~Lose(r)
    BY <1>1 DEF Lose, Undisturbed, Counts
<1>4. \A r \in Req : Observe(r) =>
          Undisturbed /\ ~Misread(req[r].answer) /\ ~Stretches(req[r].answer)
    BY <1>1 DEF Observe, Undisturbed, Flags
<1>5. \A r \in Req, c \in Cost, drop \in 0..Truncation : Serve(r, c, drop) => Undisturbed
    BY <1>1 DEF Serve, Undisturbed, Counts
<1>6. Tick \/ (\E r \in Req : End(r) \/ \E n \in 1..Batch : Reserve(r, n)) => Undisturbed
    BY DEF Tick, End, Reserve, Undisturbed
<1>. QED
    BY <1>2, <1>3, <1>4, <1>5, <1>6 DEF Next

\* A step of a request that neither sends nor observes leaves the answers on their way.
LEMMA QuietStep ==
    ASSUME TypeOK, NEW r \in Req, End(r) \/ \E n \in 1..Batch : Reserve(r, n)
    PROVE  /\ \A q \in Req : Sent(q)' <=> Sent(q)
           /\ \A q \in Req : Sent(q) => req'[q].answer = req[q].answer
           /\ UNCHANGED <<now, counter, win, winEnd, last, cum, flags, counts>>
<1>1. CASE End(r)
    BY <1>1 DEF End, Sent, IdleRequest, TypeOK
<1>2. ASSUME NEW n \in 1..Batch, Reserve(r, n)
      PROVE  /\ \A q \in Req : Sent(q)' <=> Sent(q)
             /\ \A q \in Req : Sent(q) => req'[q].answer = req[q].answer
             /\ UNCHANGED <<now, counter, win, winEnd, last, cum, flags, counts>>
    BY <1>2 DEF Reserve, Sent, TypeOK, Requests
<1>. QED
    BY <1>1, <1>2

LEMMA ClocksStep ==
    ASSUME IInv, TypeOK', ClocksTruncated, WindowsKept, Next
    PROVE  ClocksTruncated' /\ WindowsKept'
<1>. USE BudgetConstants DEF BudgetConstants
<1>0. /\ TypeOK /\ AnswersPast /\ BaselineAgrees
      /\ {now, winEnd, win} \subseteq Nat
      /\ \A r \in Req : /\ req[r] \in Requests
                        /\ req[r].answer.win \in Nat /\ req[r].answer.resetIn \in Nat
      /\ last.win \in Nat /\ last.windowEnd \in Nat
    BY DEF IInv, TypeOK, Requests, Answers, Snapshots
<1>1. /\ \A r \in Req : Sent(r) => req[r].answer.win <= win
      /\ last.some => last.win <= win
    BY <1>0 DEF AnswersPast, BaselineAgrees, Past
<1>2. CASE Tick
  <2>1. /\ now' = now + 1 /\ UNCHANGED <<last, req>>
        /\ \A r \in Req : Sent(r)' <=> Sent(r)
        /\ \/ now' # winEnd /\ UNCHANGED <<win, winEnd>>
           \/ now' = winEnd /\ win' = win + 1 /\ winEnd' = winEnd + Hour
    BY <1>2 DEF Tick, Sent
  <2>2. ClocksTruncated'
    <3>1. CASE now' # winEnd /\ UNCHANGED <<win, winEnd>>
        BY <1>0, <2>1, <3>1 DEF ClocksTruncated, OfThisWindow
    <3>2. CASE now' = winEnd /\ win' = win + 1 /\ winEnd' = winEnd + Hour
        BY <1>0, <1>1, <2>1, <3>2 DEF ClocksTruncated, OfThisWindow
    <3>. QED
        BY <2>1, <3>1, <3>2
  <2>3. Undisturbed' => Undisturbed
    BY <1>0, DisturbedStays
  <2>4. WindowsKept'
    BY <1>0, <1>1, <2>1, <2>3 DEF WindowsKept, ClocksTruncated
  <2>. QED
    BY <2>2, <2>4
<1>3. CASE Restart
  <2>1. ~last'.some /\ UNCHANGED <<now, win, winEnd>> /\ \A r \in Req : ~Sent(r)'
    BY <1>3 DEF Restart, NoSnapshot, Sent, IdleRequest
  <2>. QED
    BY <2>1 DEF ClocksTruncated, WindowsKept, OfThisWindow
<1>4. ASSUME \A q \in Req : Sent(q)' => Sent(q) /\ req'[q].answer = req[q].answer,
             UNCHANGED <<now, win, winEnd, last>>
      PROVE  ClocksTruncated' /\ WindowsKept'
  <2>1. ClocksTruncated'
    BY <1>4 DEF ClocksTruncated, OfThisWindow
  <2>2. Undisturbed' => Undisturbed
    BY <1>0, DisturbedStays
  <2>. QED
    BY <1>4, <2>1, <2>2 DEF WindowsKept
<1>5. ASSUME NEW r \in Req, End(r) \/ \E n \in 1..Batch : Reserve(r, n)
      PROVE  ClocksTruncated' /\ WindowsKept'
    BY <1>0, <1>4, <1>5, QuietStep
<1>6. ASSUME NEW r \in Req, Lose(r) PROVE ClocksTruncated' /\ WindowsKept'
  <2>1. \A q \in Req : Sent(q)' => Sent(q) /\ req'[q].answer = req[q].answer
    BY <1>0, <1>6 DEF Lose, Sent, TypeOK, Requests
  <2>. QED
    BY <1>4, <1>6, <2>1 DEF Lose
<1>7. ASSUME NEW r \in Req, NEW c \in Cost, NEW drop \in 0..Truncation, Serve(r, c, drop)
      PROVE  ClocksTruncated' /\ WindowsKept'
  <2>1. /\ req'[r].answer.win = win /\ req'[r].answer.resetIn = ResetIn(drop)
        /\ \A q \in Req \ {r} : req'[q] = req[q]
        /\ UNCHANGED <<now, win, winEnd, last>>
    BY <1>0, <1>7 DEF Serve, TypeOK
  <2>2. now + ResetIn(drop) >= winEnd - Truncation
    BY <1>0 DEF ResetIn
  <2>3. ClocksTruncated'
    BY <2>1, <2>2 DEF ClocksTruncated, OfThisWindow, Sent
  <2>4. Undisturbed' => Undisturbed
    BY <1>0, DisturbedStays
  <2>. QED
    BY <2>1, <2>3, <2>4 DEF WindowsKept
<1>8. ASSUME NEW r \in Req, Observe(r) PROVE ClocksTruncated' /\ WindowsKept'
  <2>. DEFINE a == req[r].answer
  <2>1. /\ Sent(r) /\ ~Sent(r)' /\ last' = Baseline(a)
        /\ \A q \in Req \ {r} : req'[q] = req[q]
        /\ UNCHANGED <<now, win, winEnd>>
    BY <1>0, <1>8 DEF Observe, Sent, TypeOK
  <2>2. \/ last' = last /\ last.some
        \/ last'.win = a.win /\ last'.windowEnd = now + a.resetIn /\ last'.some
    BY <2>1 DEF Baseline, Snapshot
  <2>3. \A q \in Req : Sent(q)' => q # r /\ Sent(q) /\ req'[q].answer = req[q].answer
    BY <2>1 DEF Sent
  <2>4. ClocksTruncated'
    BY <2>1, <2>2, <2>3 DEF ClocksTruncated, OfThisWindow
  <2>5. Undisturbed' => Undisturbed /\ ~Stretches(a)
    BY <1>0, <1>8, DisturbedStays
  <2>6. WindowsKept'
    <3>. SUFFICES ASSUME Undisturbed'
                  PROVE last'.windowEnd <= IF last'.win = win THEN winEnd ELSE now
        BY <2>1 DEF WindowsKept
    <3>1. CASE last' = last /\ last.some
        BY <2>5, <3>1 DEF WindowsKept
    <3>2. CASE last'.win = a.win /\ last'.windowEnd = now + a.resetIn
      <4>1. a.resetIn <= IF a.win = win THEN winEnd - now ELSE 0
        BY <1>0, <2>5 DEF Stretches
      <4>. QED
        BY <1>0, <3>2, <4>1
    <3>. QED
        BY <2>2, <3>1, <3>2
  <2>. QED
    BY <2>4, <2>6
<1>. QED
    BY <1>2, <1>3, <1>5, <1>6, <1>7, <1>8 DEF Next

\* Ahead(x) is a set that can be counted.
LEMMA AheadFinite ==
    ASSUME NEW x
    PROVE  IsFiniteSet(Ahead(x)) /\ Cardinality(Ahead(x)) \in Nat /\ Ahead(x) \in SUBSET Req
<1>1. Ahead(x) \in SUBSET Req
    BY DEF Ahead
<1>. QED
    BY <1>1, FS_Subset, FS_CardinalityType, BudgetConstants DEF BudgetConstants

\* Observing an answer that is not misread leaves what is ahead of the new baseline.
LEMMA ObserveSpend ==
    ASSUME IInv, ClocksTruncated, WindowsKept, Undisturbed, NEW r \in Req, Observe(r),
           ~Misread(req[r].answer), NEW x \in Nat, x >= cum - counter,
           OfThisWindow' => x >= last'.cum
    PROVE  req[r].answer.cum <= x /\ (OfThisWindow => x >= last.cum)
<1>. DEFINE a == req[r].answer
<1>0. /\ TypeOK /\ AnswersPast /\ BaselineAgrees
      /\ {now, winEnd, win, counter, cum} \subseteq Nat
      /\ {a.spent, a.win, a.cum} \subseteq Nat
      /\ {last.spent, last.win, last.cum, last.windowEnd} \subseteq Nat
    BY DEF IInv, TypeOK, Requests, Answers, Snapshots
<1>1. Sent(r) /\ last' = Baseline(a) /\ win' = win
    BY DEF Observe, Sent
<1>2. Past(a) /\ (last.some => Past(last))
    BY <1>0, <1>1 DEF AnswersPast, BaselineAgrees
<1>3. last.some => last.windowEnd <= IF last.win = win THEN winEnd ELSE now
    BY DEF WindowsKept
<1>4. ~Misread(a)
    OBVIOUS
<1>5. OfThisWindow' => x >= last'.cum
    OBVIOUS
<1>. HIDE DEF a
<1>6. CASE last.some /\ LateInWindow(a)
  <2>1. last' = last /\ now < last.windowEnd /\ a.spent < last.spent
    BY <1>1, <1>6 DEF Baseline, LateInWindow
  <2>2. last.win = win
    BY <1>0, <1>3, <1>6, <2>1
  <2>3. x >= last.cum
    BY <1>1, <1>5, <1>6, <2>1, <2>2 DEF OfThisWindow
  <2>4. a.cum <= x
    BY <1>0, <1>2, <1>6, <2>1, <2>2, <2>3 DEF Past
  <2>. QED
    BY <2>3, <2>4 DEF a
<1>7. CASE ~(last.some /\ LateInWindow(a))
  <2>1. last'.some /\ last'.win = a.win /\ last'.cum = a.cum
    BY <1>1, <1>7 DEF Baseline, Snapshot
  <2>2. a.cum <= x
    BY <1>0, <1>1, <1>2, <1>5, <2>1 DEF OfThisWindow, Past
  <2>3. ASSUME OfThisWindow PROVE x >= last.cum
    <3>1. CASE ~Overtaken(a)
        BY <1>0, <2>2, <2>3, <3>1 DEF Overtaken, OfThisWindow
    <3>2. CASE Overtaken(a)
      <4>1. a.win = win /\ now < last.windowEnd /\ last.win = win /\ last.some
        BY <1>0, <1>4, <2>3, <3>2 DEF Misread, OfThisWindow
      <4>2. a.cum < last.cum
        BY <1>0, <3>2, <4>1 DEF Overtaken
      <4>3. a.spent < last.spent
        BY <1>0, <1>2, <4>1, <4>2 DEF Past
      <4>. QED
        BY <1>7, <4>1, <4>3 DEF LateInWindow
    <3>. QED
        BY <3>1, <3>2
  <2>. QED
    BY <2>2, <2>3 DEF a
<1>. QED
    BY <1>6, <1>7

LEMMA SpendStep ==
    ASSUME IInv, TypeOK', FloorInv, Next PROVE SpendInFlight'
<1>. USE BudgetConstants DEF BudgetConstants
<1>0. /\ TypeOK /\ OwedBatch /\ ClocksTruncated /\ WindowsKept /\ SpendInFlight
      /\ {cum, counter, win, last.cum, last.win} \subseteq Nat
      /\ MaxCost \in Nat /\ MaxStart \in Nat /\ \A c \in Cost : c <= MaxCost
    BY FloorNumbers DEF IInv, FloorInv, TypeOK, Snapshots
<1>. SUFFICES ASSUME Undisturbed', NEW x \in Nat,
                     x >= cum' - counter' + MaxStart, OfThisWindow' => x >= last'.cum
              PROVE  cum' - x <= Cardinality(Ahead(x)') * MaxCost
    BY DEF SpendInFlight
<1>1. /\ Undisturbed /\ ~Restart /\ \A r \in Req : ~Lose(r)
      /\ \A r \in Req : Observe(r) => ~Misread(req[r].answer)
    BY <1>0, DisturbedStays
<1>2. x >= cum - counter + MaxStart /\ (OfThisWindow => x >= last.cum) =>
        cum - x <= Cardinality(Ahead(x)) * MaxCost
    BY <1>0, <1>1 DEF SpendInFlight
<1>3. Cardinality(Ahead(x)) \in Nat /\ Cardinality(Ahead(x)) * MaxCost \in Nat
    BY <1>0, AheadFinite
<1>4. ASSUME UNCHANGED <<win, last, cum, counter>>,
             \A q \in Req : Sent(q)' <=> Sent(q),
             \A q \in Req : Sent(q) => req'[q].answer = req[q].answer
      PROVE  cum' - x <= Cardinality(Ahead(x)') * MaxCost
  <2>1. Ahead(x)' = Ahead(x)
    BY <1>4 DEF Ahead
  <2>. QED
    BY <1>2, <1>4, <2>1 DEF OfThisWindow
<1>5. CASE Tick
  <2>1. /\ UNCHANGED <<last, cum>>
        /\ \A q \in Req : Sent(q)' <=> Sent(q)
        /\ \A q \in Req : Sent(q) => req'[q].answer = req[q].answer
    BY <1>5 DEF Tick, Sent
  <2>2. CASE UNCHANGED <<win, counter>>
    BY <1>4, <2>1, <2>2
  <2>3. CASE counter' = 0
    <3>1. cum' - x <= 0
        BY <1>0, <2>1, <2>3
    <3>2. Ahead(x)' = Ahead(x)
        BY <2>1 DEF Ahead
    <3>. QED
        BY <1>0, <1>3, <2>1, <3>1, <3>2
  <2>. QED
    BY <1>5, <2>2, <2>3 DEF Tick
<1>6. ASSUME NEW r \in Req, End(r) \/ \E n \in 1..Batch : Reserve(r, n)
      PROVE  cum' - x <= Cardinality(Ahead(x)') * MaxCost
    BY <1>0, <1>4, <1>6, QuietStep
<1>7. ASSUME NEW r \in Req, NEW c \in Cost, NEW drop \in 0..Truncation, Serve(r, c, drop)
      PROVE  cum' - x <= Cardinality(Ahead(x)') * MaxCost
  <2>1. /\ ~Sent(r) /\ Sent(r)' /\ req'[r].answer.cum = cum'
        /\ \A q \in Req \ {r} : req'[q] = req[q]
        /\ counter' = counter + c /\ cum' = cum + c /\ c \in Nat /\ c <= MaxCost
        /\ UNCHANGED <<win, last>>
    BY <1>0, <1>7 DEF Serve, Sent, TypeOK
  <2>2. cum - x <= Cardinality(Ahead(x)) * MaxCost
    BY <1>0, <1>2, <2>1 DEF OfThisWindow
  <2>3. CASE cum' > x
    <3>1. Ahead(x)' = Ahead(x) \union {r} /\ r \notin Ahead(x)
        BY <2>1, <2>3 DEF Ahead, Sent
    <3>2. Cardinality(Ahead(x)') = Cardinality(Ahead(x)) + 1
        BY <3>1, AheadFinite, FS_AddElement
    <3>. DEFINE k == Cardinality(Ahead(x))
    <3>3. (k + 1) * MaxCost = k * MaxCost + MaxCost
        BY <1>0, <1>3, TimesMonotone
    <3>. DEFINE km == k * MaxCost
                k1m == (k + 1) * MaxCost
    <3>4. k1m = km + MaxCost /\ km \in Nat /\ cum - x <= km
        BY <1>3, <2>2, <3>3
    <3>. HIDE DEF km, k1m
    <3>5. cum' - x <= k1m
        BY <1>0, <2>1, <3>4
    <3>. QED
        BY <3>2, <3>5 DEF k1m
  <2>4. CASE ~(cum' > x)
    <3>1. Ahead(x)' = Ahead(x)
        BY <2>1, <2>4 DEF Ahead, Sent
    <3>2. cum' - x <= 0
        BY <1>0, <2>1, <2>4
    <3>. QED
        BY <1>0, <1>3, <2>1, <3>1, <3>2
  <2>. QED
    BY <2>3, <2>4
<1>8. ASSUME NEW r \in Req, Observe(r)
      PROVE  cum' - x <= Cardinality(Ahead(x)') * MaxCost
  <2>1. /\ Sent(r) /\ ~Sent(r)' /\ \A q \in Req \ {r} : req'[q] = req[q]
        /\ UNCHANGED <<win, cum, counter>>
    BY <1>0, <1>8 DEF Observe, Sent, TypeOK
  <2>2. x >= cum - counter
    BY <1>0, <2>1
  <2>3. req[r].answer.cum <= x /\ (OfThisWindow => x >= last.cum)
    BY <1>0, <1>1, <1>8, <2>2, ObserveSpend
  <2>4. cum - x <= Cardinality(Ahead(x)) * MaxCost
    BY <1>2, <2>1, <2>3
  <2>5. req[r].answer.cum \in Nat
    BY <1>0 DEF TypeOK, Requests, Answers
  <2>6. Ahead(x)' = Ahead(x)
    BY <2>1, <2>3, <2>5 DEF Ahead, Sent
  <2>. QED
    BY <2>1, <2>4, <2>6
<1>. QED
    BY <1>1, <1>5, <1>6, <1>7, <1>8 DEF Next

LEMMA FloorStep ==
    ASSUME IInv, TypeOK', FloorInv, Next PROVE FloorCovered'
<1>. USE BudgetConstants DEF BudgetConstants
<1>. DEFINE k == Cardinality(Owing(Left, Req))
            j == Cardinality(Owing(Left', Req))
            most == Cardinality(Req) * Batch
<1>0. /\ TypeOK /\ OwedBatch /\ ClocksTruncated /\ SpendInFlight /\ FloorCovered
      /\ {now, winEnd, cum, counter, win, last.cum, last.win, last.spent} \subseteq Nat
      /\ MaxCost \in Nat /\ MaxStart \in Nat /\ \A c \in Cost : c <= MaxCost
      /\ FloorBase \in Int /\ MaxStart <= FloorBase
      /\ WclLimit - PointsFloor - Estimate <= FloorBase
      /\ BaselineAgrees
    BY FloorNumbers DEF IInv, FloorInv, TypeOK, Snapshots
<1>1. \A r \in Req : /\ Left[r] \in 0..Batch
                     /\ Left[r] \in Nat
                     /\ Sent(r) => Left[r] < Batch
                     /\ Left[r] = req[r].left /\ Left'[r] = req'[r].left
  <2>1. \A r \in Req : req[r].left \in Nat
    BY <1>0 DEF TypeOK, Requests
  <2>. QED
    BY <1>0, <2>1 DEF Left, OwedBatch, Owed
<1>2. \A r \in Req : Left'[r] \in Nat
    BY DEF Left, TypeOK, Requests
<1>3. k \in Nat /\ j \in Nat /\ k <= most /\ j <= most /\ most \in Nat
    BY OwingBound
<1>. SUFFICES ASSUME Undisturbed', winEnd' - now' > Truncation
              PROVE  counter' + j * MaxCost <= FloorBase + most * MaxCost
    BY DEF FloorCovered
<1>4. Undisturbed /\ ~Restart /\ \A r \in Req : ~Lose(r)
    BY <1>0, DisturbedStays
<1>. HIDE DEF k, j, most
<1>5. k * MaxCost \in Nat /\ j * MaxCost \in Nat /\ most * MaxCost \in Nat
      /\ j * MaxCost <= most * MaxCost
    BY <1>0, <1>3, TimesMonotone
<1>6. winEnd - now > Truncation => counter + k * MaxCost <= FloorBase + most * MaxCost
    BY <1>0, <1>4 DEF FloorCovered, k, most
<1>7. ASSUME j <= k, counter' <= counter, winEnd - now > Truncation, counter' \in Nat
      PROVE  counter' + j * MaxCost <= FloorBase + most * MaxCost
  <2>. DEFINE km == k * MaxCost
              jm == j * MaxCost
              mm == most * MaxCost
  <2>1. jm <= km
    BY <1>0, <1>3, <1>7, TimesMonotone
  <2>2. {jm, km, mm, counter, counter'} \subseteq Nat /\ FloorBase \in Int
    BY <1>0, <1>5, <1>7
  <2>3. counter + km <= FloorBase + mm
    BY <1>6, <1>7
  <2>4. counter' <= counter
    BY <1>7
  <2>. HIDE DEF km, jm, mm
  <2>5. counter' + jm <= FloorBase + mm
    BY <2>1, <2>2, <2>3, <2>4
  <2>. QED
    BY <2>5 DEF jm, mm
<1>8. CASE Tick
  <2>1. Left' = Left
    BY <1>8 DEF Tick, Left
  <2>2. j = k
    BY <2>1 DEF j, k
  <2>3. CASE now' # winEnd
    <3>1. counter' = counter /\ winEnd - now > Truncation
        BY <1>0, <1>8, <2>3 DEF Tick
    <3>. QED
        BY <1>0, <1>3, <1>7, <2>2, <3>1
  <2>4. CASE now' = winEnd
    <3>1. counter' = 0
        BY <1>8, <2>4 DEF Tick
    <3>. DEFINE jm == j * MaxCost
                mm == most * MaxCost
    <3>2. jm \in Nat /\ mm \in Nat /\ jm <= mm
        BY <1>5
    <3>. HIDE DEF jm, mm
    <3>3. counter' + jm <= FloorBase + mm
        BY <1>0, <3>1, <3>2
    <3>. QED
        BY <3>3 DEF jm, mm
  <2>. QED
    BY <2>3, <2>4
<1>9. ASSUME NEW r \in Req, End(r)
      PROVE  counter' + j * MaxCost <= FloorBase + most * MaxCost
  <2>1. \A q \in Req : Left'[q] <= Left[q]
    BY <1>0, <1>1, <1>9 DEF End, IdleRequest, TypeOK
  <2>2. j <= k
    BY <1>1, <1>2, <2>1, OwingShrinks DEF j, k
  <2>3. UNCHANGED <<now, winEnd, counter>>
    BY <1>9 DEF End
  <2>. QED
    BY <1>0, <1>7, <2>2, <2>3
<1>10. ASSUME NEW r \in Req, Observe(r)
       PROVE  counter' + j * MaxCost <= FloorBase + most * MaxCost
  <2>1. \A q \in Req : Left'[q] <= Left[q]
    BY <1>0, <1>1, <1>10 DEF Observe, TypeOK
  <2>2. j <= k
    BY <1>1, <1>2, <2>1, OwingShrinks DEF j, k
  <2>3. UNCHANGED <<now, winEnd, counter>>
    BY <1>10 DEF Observe
  <2>. QED
    BY <1>0, <1>7, <2>2, <2>3
<1>11. ASSUME NEW r \in Req, NEW c \in Cost, NEW drop \in 0..Truncation, Serve(r, c, drop)
       PROVE  counter' + j * MaxCost <= FloorBase + most * MaxCost
  <2>1. /\ Left'[r] < Left[r] /\ Left[r] \in 1..Batch
        /\ \A q \in Req \ {r} : Left'[q] = Left[q]
        /\ counter' = counter + c /\ c \in Nat /\ c <= MaxCost
        /\ UNCHANGED <<now, winEnd>>
    BY <1>0, <1>1, <1>11 DEF Serve, TypeOK
  <2>2. \A q \in Req : Left[q] \in Nat /\ Left'[q] \in Nat /\ Left'[q] <= Left[q]
    BY <1>1, <1>2, <2>1
  <2>3. j + 1 <= k
    BY <2>1, <2>2, OwingDrops DEF j, k
  <2>. DEFINE km == k * MaxCost
              jm == j * MaxCost
              j1m == (j + 1) * MaxCost
              mm == most * MaxCost
  <2>4. /\ j1m = jm + MaxCost /\ j1m <= km /\ jm \in Nat /\ km \in Nat /\ mm \in Nat
        /\ counter + km <= FloorBase + mm
    <3>1. j + 1 \in Nat
        BY <1>3
    <3>2. (j + 1) * MaxCost <= k * MaxCost
        BY <1>0, <1>3, <2>3, <3>1, TimesMonotone
    <3>3. (j + 1) * MaxCost = j * MaxCost + MaxCost
        BY <1>0, <1>3, TimesMonotone
    <3>. QED
        BY <1>5, <1>6, <2>1, <3>2, <3>3
  <2>. HIDE DEF km, jm, j1m, mm
  <2>5. counter' + jm <= FloorBase + mm
    BY <1>0, <2>1, <2>4
  <2>. QED
    BY <2>5 DEF jm, mm
<1>12. ASSUME NEW r \in Req, NEW n \in 1..Batch, Reserve(r, n)
       PROVE  counter' + j * MaxCost <= FloorBase + most * MaxCost
  <2>. DEFINE x == IF OfThisWindow /\ last.cum > cum - counter + MaxStart
                   THEN last.cum ELSE cum - counter + MaxStart
              A == Ahead(x)
              a == Cardinality(A)
  <2>1. /\ ~Sent(r) /\ Left'[r] = n
        /\ \A q \in Req \ {r} : req'[q] = req[q]
        /\ UNCHANGED <<now, winEnd, counter>>
        /\ ~BudgetRefuses(n * Estimate)
    BY <1>0, <1>1, <1>12 DEF Reserve, Sent, TypeOK, Requests, Refused
  <2>2. x \in Nat /\ x >= cum - counter + MaxStart /\ (OfThisWindow => x >= last.cum)
    <3>1. counter <= cum
        BY DEF FloorInv
    <3>. QED
        BY <1>0, <3>1
  <2>3. cum - x <= a * MaxCost
    BY <1>0, <1>4, <2>2 DEF SpendInFlight
  <2>4. /\ a \in Nat /\ A \in SUBSET Req /\ r \notin A
        /\ \A q \in A : Sent(q)
    BY <2>1, AheadFinite DEF Ahead
  <2>5. \A q \in Req : Left'[q] \in 0..Batch /\ (q \in A => Left'[q] < Batch)
    BY <1>1, <2>1, <2>4
  <2>6. a + j <= most
    BY <2>4, <2>5, OwingAndAhead DEF j, most
  <2>7. counter <= FloorBase + a * MaxCost
    <3>. DEFINE am == a * MaxCost
                ne == n * Estimate
    <3>1. am \in Nat /\ cum - x <= am
        BY <1>0, <2>3, <2>4, TimesMonotone
    <3>2. ne \in Nat /\ Estimate <= ne
        BY TimesMonotone
    <3>3. CASE OfThisWindow /\ x = last.cum
      <4>1. last.some /\ last.win = win
        BY <3>3 DEF OfThisWindow
      <4>2. counter - last.spent = cum - x
        BY <1>0, <3>3, <4>1 DEF BaselineAgrees, Past
      <4>3. now < last.windowEnd
        <5>1. last.windowEnd >= winEnd - Truncation
            BY <1>0, <3>3 DEF ClocksTruncated
        <5>2. last.windowEnd \in Nat /\ winEnd - now > Truncation
            BY <1>0, <2>1 DEF TypeOK, Snapshots
        <5>. QED
            BY <1>0, <5>1, <5>2
      <4>4. ~(WclLimit - last.spent - ne < PointsFloor)
        BY <2>1, <4>1, <4>3 DEF BudgetRefuses
      <4>. HIDE DEF am, ne, x
      <4>5. counter <= FloorBase + am
        BY <1>0, <2>2, <3>1, <3>2, <4>2, <4>4
      <4>. QED
        BY <4>5 DEF am
    <3>4. CASE ~(OfThisWindow /\ x = last.cum)
      <4>1. x = cum - counter + MaxStart
        BY <3>4
      <4>. HIDE DEF am, ne, x
      <4>2. counter <= FloorBase + am
        BY <1>0, <2>2, <3>1, <4>1
      <4>. QED
        BY <4>2 DEF am
    <3>. QED
        BY <3>3, <3>4
  <2>8. (a + j) * MaxCost = a * MaxCost + j * MaxCost /\ a * MaxCost \in Nat
        /\ (a + j) * MaxCost <= most * MaxCost /\ (a + j) * MaxCost \in Nat
    <3>. HIDE DEF a
    <3>1. a + j \in Nat
        BY <1>3, <2>4
    <3>. QED
        BY <1>0, <1>3, <2>4, <2>6, <3>1, TimesMonotone, TimesDistribute
  <2>. DEFINE am == a * MaxCost
              jm == j * MaxCost
              mm == most * MaxCost
  <2>9. am \in Nat /\ jm \in Nat /\ mm \in Nat /\ am + jm <= mm /\ counter <= FloorBase + am
    BY <1>5, <2>7, <2>8
  <2>10. counter' = counter /\ counter \in Nat /\ FloorBase \in Int
    BY <1>0, <2>1
  <2>. HIDE DEF am, jm, mm
  <2>11. counter' + jm <= FloorBase + mm
    BY <2>9, <2>10
  <2>. QED
    BY <2>11 DEF jm, mm
<1>. QED
    BY <1>4, <1>8, <1>9, <1>10, <1>11, <1>12 DEF Next

\* quota.ts:44-58: for every number of requests and every batch, undisturbed and before
\* the seconds that pointsResetIn drops, the shared client passes its floor by at most one
\* batch of each request.
THEOREM FloorOverruns == Spec => []FloorOverrun
<1>1. Init => FloorInv
  <2>. SUFFICES ASSUME Init PROVE FloorInv
    OBVIOUS
  <2>. USE BudgetConstants DEF BudgetConstants
  <2>1. /\ StartCounter # {} /\ counter \in StartCounter /\ counter \in Nat /\ cum = counter
        /\ ~last.some /\ now = 0 /\ winEnd \in 1..Hour
        /\ \A r \in Req : ~Sent(r) /\ req[r].left = 0
    BY DEF Init, NoSnapshot, Sent, IdleRequest
  <2>2. \A r \in Req : Owed[r] = 0 /\ Left[r] = 0
    BY <2>1 DEF Owed, Left
  <2>3. OwedBatch
    BY <2>2 DEF OwedBatch
  <2>4. /\ MaxCost \in Nat /\ MaxStart \in Nat /\ counter <= MaxStart
        /\ FloorBase \in Int /\ MaxStart <= FloorBase
    BY <2>1, FloorNumbers
  <2>5. ClocksTruncated /\ WindowsKept
    BY <2>1 DEF ClocksTruncated, WindowsKept, OfThisWindow
  <2>6. SpendInFlight
    <3>. SUFFICES ASSUME NEW x \in Nat, x >= cum - counter + MaxStart
                  PROVE  cum - x <= Cardinality(Ahead(x)) * MaxCost
        BY DEF SpendInFlight
    <3>1. Cardinality(Ahead(x)) * MaxCost \in Nat
        BY <2>4, AheadFinite
    <3>2. cum - x <= 0
        BY <2>1, <2>4
    <3>. QED
        BY <2>1, <3>1, <3>2
  <2>7. FloorCovered
    <3>1. Owing(Left, Req) = {}
        BY <2>2 DEF Owing
    <3>2. Cardinality(Owing(Left, Req)) * MaxCost = 0
        BY <2>4, <3>1, FS_EmptySet
    <3>3. Cardinality(Req) \in Nat /\ Cardinality(Req) * Batch \in Nat
      <4>1. Cardinality(Req) \in Nat
        BY OwingBound
      <4>. QED
        BY <4>1, TimesMonotone
    <3>4. Cardinality(Req) * Batch * MaxCost \in Nat
        BY <2>4, <3>3, TimesMonotone
    <3>. DEFINE mm == Cardinality(Req) * Batch * MaxCost
                km == Cardinality(Owing(Left, Req)) * MaxCost
    <3>5. mm \in Nat /\ km = 0
        BY <3>2, <3>4
    <3>. HIDE DEF mm, km
    <3>6. counter + km <= FloorBase + mm
        BY <2>1, <2>4, <3>5
    <3>. QED
        BY <3>6 DEF FloorCovered, mm, km
  <2>. QED
    BY <2>1, <2>3, <2>5, <2>6, <2>7 DEF FloorInv
<1>2. IInv /\ TypeOK' /\ FloorInv /\ [Next]_vars => FloorInv'
  <2>. SUFFICES ASSUME IInv, TypeOK', FloorInv, [Next]_vars PROVE FloorInv'
    OBVIOUS
  <2>1. CASE UNCHANGED vars
    BY <2>1 DEF vars, FloorInv, OwedBatch, Owed, Sent, ClocksTruncated, OfThisWindow,
        WindowsKept, Undisturbed, SpendInFlight, Ahead, FloorCovered, Owing, Left
  <2>2. CASE Next
    <3>1. TypeOK /\ OwedBatch /\ ClocksTruncated /\ WindowsKept
          /\ StartCounter # {} /\ counter <= cum
        BY DEF IInv, FloorInv
    <3>2. OwedBatch'
        BY <2>2, <3>1, OwedStep DEF OwedBatch
    <3>3. counter' <= cum'
      <4>1. counter \in Nat /\ cum \in Nat
        BY <3>1 DEF TypeOK
      <4>2. \A c \in Cost : c \in Nat
        BY BudgetConstants DEF BudgetConstants
      <4>3. \A c \in Cost, r \in Req, drop \in 0..Truncation :
                Serve(r, c, drop) => counter' <= cum'
        BY <3>1, <4>1, <4>2 DEF Serve
      <4>4. Tick => counter' <= cum'
        BY <3>1, <4>1 DEF Tick
      <4>5. \A r \in Req : End(r) \/ Observe(r) \/ Lose(r) \/ (\E n \in 1..Batch : Reserve(r, n))
                => counter' <= cum'
        BY <3>1 DEF End, Observe, Lose, Reserve
      <4>6. Restart => counter' <= cum'
        BY <3>1 DEF Restart
      <4>. QED
        BY <2>2, <4>3, <4>4, <4>5, <4>6 DEF Next
    <3>4. ClocksTruncated' /\ WindowsKept'
        BY <2>2, <3>1, ClocksStep
    <3>5. SpendInFlight' /\ FloorCovered'
        BY <2>2, SpendStep, FloorStep
    <3>. QED
        BY <3>1, <3>2, <3>3, <3>4, <3>5 DEF FloorInv
  <2>. QED
    BY <2>1, <2>2
<1>3. TypeOK /\ FloorInv => FloorOverrun
  <2>. SUFFICES ASSUME TypeOK, FloorInv, Undisturbed, winEnd - now > Truncation
                PROVE  FloorOverrun
    BY DEF FloorOverrun
  <2>. USE BudgetConstants DEF BudgetConstants
  <2>. DEFINE most == Cardinality(Req) * Batch
              other == Cardinality(Req) * (Batch * MaxCost)
              k == Cardinality(Owing(Left, Req))
              gate == WclLimit - PointsFloor - Estimate
  <2>1. /\ MaxCost \in Nat /\ MaxStart \in Nat /\ FloorBase \in {MaxStart, gate}
        /\ gate \in Int /\ counter \in Nat
    BY FloorNumbers DEF FloorInv, TypeOK
  <2>2. most \in Nat /\ k \in Nat /\ Cardinality(Req) \in Nat
    BY OwingBound
  <2>3. most * MaxCost = other /\ other \in Nat
    <3>1. Cardinality(Req) \in Nat /\ Batch \in Nat /\ MaxCost \in Nat
        BY <2>1, <2>2
    <3>. DEFINE cr == Cardinality(Req)
    <3>. HIDE DEF cr
    <3>2. cr \in Nat
        BY <3>1 DEF cr
    <3>3. cr * Batch * MaxCost = cr * (Batch * MaxCost) /\ cr * (Batch * MaxCost) \in Nat
        BY <3>1, <3>2, TimesAssociate
    <3>. QED
        BY <3>3 DEF cr
  <2>4. counter + k * MaxCost <= FloorBase + most * MaxCost
    BY DEF FloorInv, FloorCovered
  <2>5. k * MaxCost \in Nat
    BY <2>1, <2>2, TimesMonotone
  <2>6. counter <= FloorBase + other
    <3>. DEFINE km == k * MaxCost
                mm == most * MaxCost
    <3>1. km \in Nat /\ mm = other /\ counter + km <= FloorBase + mm
        BY <2>3, <2>4, <2>5
    <3>. HIDE DEF km, mm, other
    <3>2. FloorBase \in Int /\ other \in Nat /\ counter \in Nat
        BY <2>1, <2>3
    <3>. QED
        BY <3>1, <3>2
  <2>. HIDE DEF other, gate
  <2>7. /\ MaxStart + other <= MaxOf({MaxStart + other, gate + other})
        /\ gate + other <= MaxOf({MaxStart + other, gate + other})
        /\ MaxOf({MaxStart + other, gate + other}) \in Int
    <3>1. MaxStart + other \in Int /\ gate + other \in Int
        BY <2>1, <2>3
    <3>. QED
        BY <3>1, MaxOfTwo
  <2>8. counter <= MaxOf({MaxStart + other, gate + other})
    BY <2>1, <2>3, <2>6, <2>7
  <2>. QED
    BY <2>8, Zenon DEF FloorOverrun, MaxStart, MaxCost, other, gate
<1>4. Init => IInv
    BY InvInit
<1>5. IInv /\ TypeOK' /\ [Next]_vars => IInv'
    BY InvNext
<1>. QED
    BY <1>1, <1>2, <1>3, <1>4, <1>5, TypeCorrect, PTL DEF Spec

=============================================================================
