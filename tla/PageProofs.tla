------------------------------ MODULE PageProofs ------------------------------
(***************************************************************************)
(* What the pages show, for any number of pages, runs, profiles, calls and *)
(* spells: a season loses no analysed run and a stored report is paid for  *)
(* at most once per page; the active profile is there, asked for, or known *)
(* to be gone, and the address names it; and what a deep dive tells is     *)
(* true of the fight.                                                      *)
(***************************************************************************)
EXTENDS SeasonSync, ShownProfile, DeepDive, FiniteSetTheorems, WellFoundedInduction, TLAPS

-----------------------------------------------------------------------------
(* Season: the types                                                       *)

LEMMA IdleTyped == /\ Idle \in Syncs /\ Idle.work = NoWork
                   /\ Idle = [phase |-> "idle", stop |-> FALSE, refresh |-> FALSE, at |-> 0, batch |-> {},
                              work |-> NoWork, moved |-> FALSE, more |-> FALSE]
    BY SyncConstants DEF SyncConstants, Idle, Syncs, NoWork, Works

LEMMA RequestedTyped ==
    ASSUME TypeOK, NEW f \in Front, NEW refresh \in BOOLEAN
    PROVE Requested(f, refresh) \in Syncs /\ Requested(f, refresh).work = NoWork
    BY IdleTyped, SyncConstants DEF SyncConstants, Requested, Idle, Syncs, TypeOK, NoWork, Works

\* A request for the season: the page's other loads, and the new one, which nobody has read.
LEMMA LoadsSent ==
    ASSUME TypeOK, NEW f \in Front, NEW mine \in BOOLEAN, Sent(f, mine)
    PROVE /\ loads' \in [Front -> SUBSET Loads]
          /\ \A g \in Front \ {f} : loads'[g] = loads[g]
          /\ \A l \in loads'[f] :
                \/ ~l.read /\ ~l.stale /\ l.seen = NoView /\ l.mine = mine
                \/ l.stale /\ \E k \in loads[f] : k.read = l.read /\ k.seen = l.seen
<1>. DEFINE new == [read |-> FALSE, seen |-> NoView, stale |-> FALSE, mine |-> mine]
            old == {[l EXCEPT !.stale = TRUE] : l \in loads[f]}
<1>1. new \in Loads /\ ~new.read /\ ~new.stale /\ new.seen = NoView /\ new.mine = mine
    BY DEF Loads, Views, NoView
<1>2. ASSUME NEW l \in loads[f]
      PROVE  /\ [l EXCEPT !.stale = TRUE] \in Loads
             /\ [l EXCEPT !.stale = TRUE].stale
             /\ [l EXCEPT !.stale = TRUE].read = l.read /\ [l EXCEPT !.stale = TRUE].seen = l.seen
  <2>1. l \in Loads
    BY DEF TypeOK
  <2>. QED BY <2>1 DEF Loads
<1>3. old \subseteq Loads /\ \A l \in old : l.stale /\ \E k \in loads[f] : k.read = l.read /\ k.seen = l.seen
    BY <1>2
<1>4. loads' = [loads EXCEPT ![f] = old \union {new}]
    BY DEF Sent
<1>. HIDE DEF new, old
<1>5. loads' \in [Front -> SUBSET Loads] /\ loads'[f] = old \union {new} /\ \A g \in Front \ {f} : loads'[g] = loads[g]
    BY <1>1, <1>3, <1>4 DEF TypeOK
<1>6. \A l \in loads'[f] : l \in old \/ l = new
    BY <1>5
<1>. QED BY <1>1, <1>3, <1>5, <1>6

-----------------------------------------------------------------------------
(* Season: the inductive invariant                                         *)

\* What a page shows, or is about to be shown, is still stored.
StillStored ==
    \A f \in Front :
        /\ view[f].analysed \subseteq rows \intersect raw
        /\ \A l \in loads[f] : l.read => l.seen.analysed \subseteq rows \intersect raw

\* Only one load of a page counts, and once read it shows no less than the page does.
OneLoadCounts ==
    \A f \in Front : \A l \in loads[f] : ~l.stale =>
        /\ l.read => view[f].analysed \subseteq l.seen.analysed
        /\ \A k \in loads[f] : k.stale \/ k = l

SeasonInv == TypeOK /\ StillStored /\ OneLoadCounts

LEMMA SeasonInit == Init => SeasonInv
<1>. SUFFICES ASSUME Init PROVE SeasonInv
    OBVIOUS
<1>1. listed \in 0..MaxRuns /\ now \in 0..MaxTime
    BY SyncConstants DEF SyncConstants, Init
<1>2. failedAt \in [Run -> 0..MaxTime \union {Never}] /\ rows \subseteq 1..listed /\ raw \subseteq Run /\ control \subseteq Run
    BY DEF Init
<1>3. /\ sync \in [Front -> Syncs] /\ view \in [Front -> Views] /\ loads \in [Front -> SUBSET Loads]
      /\ paid \in [Run -> Nat]
    BY IdleTyped DEF Init, Views, NoView
<1>4. StillStored /\ OneLoadCounts
    BY DEF Init, StillStored, OneLoadCounts, NoView
<1>. QED BY <1>1, <1>2, <1>3, <1>4 DEF SeasonInv, TypeOK

-----------------------------------------------------------------------------
(* Season: the steps                                                       *)

\* Who changes neither a view nor a load, and forgets nothing stored, keeps what is shown.
LEMMA ShownKept ==
    ASSUME SeasonInv, rows \subseteq rows', raw \subseteq raw', UNCHANGED <<view, loads>>
    PROVE  StillStored' /\ OneLoadCounts'
<1>1. StillStored'
    BY DEF SeasonInv, StillStored
<1>2. OneLoadCounts'
    BY DEF SeasonInv, OneLoadCounts
<1>. QED BY <1>1, <1>2

\* A new request of a page shows nothing yet, and makes the others stale.
LEMMA ShownSent ==
    ASSUME SeasonInv, NEW f \in Front, NEW mine \in BOOLEAN, Sent(f, mine), UNCHANGED <<rows, raw, view>>
    PROVE  StillStored' /\ OneLoadCounts'
<1>0. TypeOK
    BY DEF SeasonInv
<1>1. /\ \A g \in Front \ {f} : loads'[g] = loads[g]
      /\ \A l \in loads'[f] :
            \/ ~l.read /\ ~l.stale /\ l.seen = NoView /\ l.mine = mine
            \/ l.stale /\ \E k \in loads[f] : k.read = l.read /\ k.seen = l.seen
      /\ loads'[f] \subseteq Loads
    BY <1>0, LoadsSent
<1>2. ASSUME NEW g \in Front
      PROVE  /\ view'[g].analysed \subseteq (rows \intersect raw)'
             /\ \A l \in loads'[g] : l.read => l.seen.analysed \subseteq (rows \intersect raw)'
    BY <1>1 DEF SeasonInv, StillStored
<1>3. ASSUME NEW g \in Front, NEW l \in loads'[g], ~l.stale
      PROVE  /\ l.read => view'[g].analysed \subseteq l.seen.analysed
             /\ \A k \in loads'[g] : k.stale \/ k = l
  <2>1. CASE g # f
    BY <2>1, <1>1, <1>3 DEF SeasonInv, OneLoadCounts
  <2>2. CASE g = f
    <3>1. ~l.read /\ l.seen = NoView /\ l.mine = mine
      BY <2>2, <1>1, <1>3
    <3>2. ASSUME NEW k \in loads'[g], ~k.stale PROVE k = l
      <4>1. ~k.read /\ k.seen = NoView /\ k.mine = mine /\ k \in Loads /\ l \in Loads
        BY <3>2, <2>2, <1>1
      <4>. QED BY <4>1, <3>1, <3>2, <1>3 DEF Loads
    <3>. QED BY <3>1, <3>2
  <2>. QED BY <2>1, <2>2
<1>. QED BY <1>2, <1>3 DEF StillStored, OneLoadCounts

LEMMA PendingRuns ==
    ASSUME NEW S \in SUBSET Run, NEW t
    PROVE  Picked(Pending(S, t)) \subseteq Run
    BY DEF Pending, Picked

\* One page's sync, or one of its fields, gets a value of its type.
LEMMA OneSync ==
    ASSUME TypeOK, NEW f \in Front, NEW s \in Syncs, sync' = [sync EXCEPT ![f] = s]
    PROVE  sync' \in [Front -> Syncs]
    BY DEF TypeOK

LEMMA SyncFields ==
    ASSUME NEW s \in Syncs
    PROVE  /\ \A b \in BOOLEAN : [s EXCEPT !.stop = b] \in Syncs
           /\ \A p \in {"spent", "checking"}, b \in SUBSET Run : [s EXCEPT !.phase = p, !.batch = b] \in Syncs
           /\ \A w \in [Run -> Works] : [s EXCEPT !.phase = "work", !.work = w] \in Syncs
           /\ \A r \in Run, w \in Works : [s EXCEPT !.work[r] = w] \in Syncs
<1>1. ASSUME NEW r \in Run, NEW w \in Works PROVE [s EXCEPT !.work[r] = w] \in Syncs
  <2>1. [s.work EXCEPT ![r] = w] \in [Run -> Works]
    BY DEF Syncs
  <2>. QED BY <2>1 DEF Syncs
<1>. QED BY <1>1 DEF Syncs

LEMMA StartStep ==
    ASSUME SeasonInv, NEW f \in Front, Start(f) \/ Stop(f) PROVE SeasonInv'
<1>1. sync' \in [Front -> Syncs] /\ UNCHANGED <<listed, stored, now, view, loads>>
  <2>1. CASE Start(f)
    BY <2>1, RequestedTyped DEF Start, SeasonInv, TypeOK
  <2>2. CASE Stop(f)
    <3>1. sync[f] \in Syncs
      BY DEF SeasonInv, TypeOK
    <3>2. [sync[f] EXCEPT !.stop = TRUE] \in Syncs
      BY <3>1, SyncFields
    <3>3. sync' = [sync EXCEPT ![f] = [sync[f] EXCEPT !.stop = TRUE]]
      BY <2>2 DEF Stop
    <3>. QED BY <2>2, <3>2, <3>3, OneSync DEF Stop, SeasonInv
  <2>. QED BY <2>1, <2>2
<1>2. TypeOK'
    BY <1>1 DEF SeasonInv, TypeOK, stored
<1>. QED BY <1>1, <1>2, ShownKept DEF SeasonInv, stored

LEMMA PickStep ==
    ASSUME SeasonInv, NEW f \in Front, Pick(f) PROVE SeasonInv'
<1>. DEFINE batch == Picked(Pending(Known(f), sync[f].at))
            p == IF batch = {} THEN "spent" ELSE "checking"
<1>1. rows' = Known(f) /\ rows \subseteq rows' /\ rows' \subseteq 1..listed
    BY DEF SeasonInv, TypeOK, Pick, Known
<1>2. batch \in SUBSET Run
  <2>1. Known(f) \in SUBSET Run
    BY <1>1, SyncConstants DEF SyncConstants, SeasonInv, TypeOK, Run
  <2>. QED BY <2>1, PendingRuns
<1>3. p \in {"spent", "checking"}
    OBVIOUS
<1>4. sync' = [sync EXCEPT ![f] = [sync[f] EXCEPT !.phase = p, !.batch = batch]]
    BY DEF Pick
<1>. HIDE DEF batch, p
<1>5. sync' \in [Front -> Syncs]
  <2>1. sync[f] \in Syncs
    BY DEF SeasonInv, TypeOK
  <2>. QED BY <2>1, <1>2, <1>3, <1>4, SyncFields, OneSync DEF SeasonInv
<1>6. UNCHANGED <<listed, raw, control, failedAt, now, view, loads, paid>>
    BY DEF Pick
<1>7. TypeOK'
    BY <1>1, <1>5, <1>6 DEF SeasonInv, TypeOK
<1>. QED BY <1>1, <1>6, <1>7, ShownKept DEF SeasonInv

LEMMA FetchStep ==
    ASSUME SeasonInv, NEW f \in Front, Fetch(f) PROVE SeasonInv'
<1>. DEFINE w == [r \in Run |-> IF r \in sync[f].batch THEN FirstWork(r) ELSE "none"]
<1>1. w \in [Run -> Works]
    BY DEF FirstWork, Works
<1>2. sync' = [sync EXCEPT ![f] = [sync[f] EXCEPT !.phase = "work", !.work = w]]
    BY DEF Fetch
<1>. HIDE DEF w
<1>3. sync' \in [Front -> Syncs]
  <2>1. sync[f] \in Syncs
    BY DEF SeasonInv, TypeOK
  <2>. QED BY <2>1, <1>1, <1>2, SyncFields, OneSync DEF SeasonInv
<1>4. UNCHANGED <<listed, stored, now, view, loads>>
    BY DEF Fetch
<1>5. TypeOK'
    BY <1>3, <1>4 DEF SeasonInv, TypeOK, stored
<1>. QED BY <1>4, <1>5, ShownKept DEF SeasonInv, stored

\* A call of the batch answers or fails: what is stored only grows.
LEMMA WorkStep ==
    ASSUME SeasonInv, NEW f \in Front, NEW r \in Run,
           GotRaw(f, r) \/ GotControl(f, r) \/ GotNothing(f, r) \/ Throw(f, r)
    PROVE  SeasonInv'
<1>1. \E w \in Works : sync' = [sync EXCEPT ![f] = [sync[f] EXCEPT !.work[r] = w]]
  <2>1. sync[f].work[r] \in Works
    BY DEF SeasonInv, TypeOK, Syncs
  <2>2. CASE GotRaw(f, r)
    BY <2>2 DEF GotRaw, WorkGoes, Works
  <2>3. CASE GotControl(f, r) \/ GotNothing(f, r)
    BY <2>3 DEF GotControl, GotNothing, WorkGoes, Works
  <2>4. CASE Throw(f, r)
    BY <2>1, <2>4 DEF Throw, Threw, WorkGoes, Works
  <2>. QED BY <2>2, <2>3, <2>4
<1>2. sync' \in [Front -> Syncs]
  <2>1. sync[f] \in Syncs
    BY DEF SeasonInv, TypeOK
  <2>. QED BY <2>1, <1>1, SyncFields, OneSync DEF SeasonInv
<1>3. /\ UNCHANGED <<listed, rows, failedAt, now, view, loads>>
      /\ raw \subseteq raw' /\ raw' \subseteq Run /\ control' \subseteq Run /\ paid' \in [Run -> Nat]
    BY DEF GotRaw, GotControl, GotNothing, Throw, stored, SeasonInv, TypeOK
<1>4. TypeOK'
    BY <1>2, <1>3 DEF SeasonInv, TypeOK
<1>. QED BY <1>3, <1>4, ShownKept DEF SeasonInv

LEMMA SettleStep ==
    ASSUME SeasonInv, NEW f \in Front, Settle(f) PROVE SeasonInv'
<1>0. sync[f] \in Syncs
    BY DEF SeasonInv, TypeOK
<1>1. sync' \in [Front -> Syncs]
  <2>1. [Idle EXCEPT !.phase = "spent", !.stop = sync[f].stop, !.at = sync[f].at, !.moved = TRUE] \in Syncs
    BY <1>0, IdleTyped DEF Syncs
  <2>. QED BY <2>1, IdleTyped, OneSync DEF Settle, Ends, SeasonInv
<1>2. failedAt' \in [Run -> 0..MaxTime \union {Never}]
    BY <1>0 DEF Settle, MarkTime, Syncs, SeasonInv, TypeOK
<1>3. UNCHANGED <<listed, rows, raw, control, now, view, loads, paid>>
    BY DEF Settle
<1>4. TypeOK'
    BY <1>1, <1>2, <1>3 DEF SeasonInv, TypeOK
<1>. QED BY <1>3, <1>4, ShownKept DEF SeasonInv

LEMMA AnswerStep ==
    ASSUME SeasonInv, NEW f \in Front, Answer(f) \/ Reload(f) PROVE SeasonInv'
<1>1. sync' \in [Front -> Syncs] /\ UNCHANGED <<listed, stored, now, view>>
  <2>1. CASE Answer(f)
    <3>1. [Idle EXCEPT !.phase = "loading", !.more = GoesOn(f)] \in Syncs
      <4>1. sync[f].moved \in BOOLEAN
        BY DEF SeasonInv, TypeOK, Syncs
      <4>2. GoesOn(f) \in BOOLEAN
        BY <4>1 DEF GoesOn
      <4>. HIDE DEF GoesOn
      <4>. QED BY <4>2, IdleTyped DEF Syncs
    <3>. QED BY <2>1, <3>1, IdleTyped, OneSync DEF Answer, Ends, SeasonInv
  <2>2. CASE Reload(f)
    BY <2>2 DEF Reload, SeasonInv, TypeOK
  <2>. QED BY <2>1, <2>2
<1>2. UNCHANGED loads \/ Sent(f, TRUE) \/ Sent(f, FALSE)
    BY DEF Answer, Reload
<1>3. loads' \in [Front -> SUBSET Loads]
    BY <1>2, LoadsSent DEF SeasonInv, TypeOK
<1>4. TypeOK'
    BY <1>1, <1>3 DEF SeasonInv, TypeOK, stored
<1>5. StillStored' /\ OneLoadCounts'
    BY <1>1, <1>2, ShownKept, ShownSent DEF stored
<1>. QED BY <1>4, <1>5 DEF SeasonInv

\* The server reads the season of a load: no less than any page shows.
LEMMA ReadStep ==
    ASSUME SeasonInv, NEW f \in Front, NEW l \in loads[f], Read(f, l) PROVE SeasonInv'
<1>. DEFINE seen == [analysed |-> rows \intersect raw, pending |-> Pending(rows, now) # {}]
            q == [l EXCEPT !.read = TRUE, !.seen = seen]
<1>0. l \in Loads /\ TypeOK
    BY DEF SeasonInv, TypeOK
<1>1. /\ q \in Loads /\ q.read /\ q.stale = l.stale /\ q.seen.analysed = rows \intersect raw
  <2>1. seen \in Views /\ seen.analysed = rows \intersect raw
    BY <1>0 DEF TypeOK, Views
  <2>. HIDE DEF seen
  <2>. QED BY <2>1, <1>0 DEF Loads
<1>2. loads' = [loads EXCEPT ![f] = (loads[f] \ {l}) \union {q}]
    BY DEF Read
<1>. HIDE DEF seen, q
<1>3. /\ loads' \in [Front -> SUBSET Loads]
      /\ loads'[f] = (loads[f] \ {l}) \union {q}
      /\ \A g \in Front \ {f} : loads'[g] = loads[g]
    BY <1>0, <1>1, <1>2 DEF TypeOK
<1>4. UNCHANGED <<listed, rows, raw, control, failedAt, now, sync, view, paid>>
    BY DEF Read, stored
<1>5. TypeOK'
    BY <1>0, <1>3, <1>4 DEF TypeOK
<1>6. StillStored'
    BY <1>1, <1>3, <1>4 DEF SeasonInv, StillStored
<1>7. ASSUME NEW g \in Front, NEW k \in loads'[g], ~k.stale
      PROVE  /\ k.read => view'[g].analysed \subseteq k.seen.analysed
             /\ \A j \in loads'[g] : j.stale \/ j = k
  <2>1. CASE g # f
    BY <2>1, <1>3, <1>4, <1>7 DEF SeasonInv, OneLoadCounts
  <2>2. CASE g = f
    <3>1. \A j \in loads[f] : \A i \in loads[f] : ~i.stale /\ ~j.stale => i = j
      BY DEF SeasonInv, OneLoadCounts
    <3>2. view'[f].analysed \subseteq rows \intersect raw
      BY <1>4 DEF SeasonInv, StillStored
    <3>3. \A j \in loads'[g] : j = q \/ (j \in loads[f] /\ j # l)
      BY <2>2, <1>3
    <3>4. k.read => view'[g].analysed \subseteq k.seen.analysed
      BY <3>2, <3>3, <2>2, <1>1, <1>4, <1>7 DEF SeasonInv, OneLoadCounts
    <3>5. \A j \in loads'[g] : j.stale \/ j = k
      BY <3>1, <3>3, <1>1, <1>7
    <3>. QED BY <3>4, <3>5
  <2>. QED BY <2>1, <2>2
<1>. QED BY <1>5, <1>6, <1>7 DEF SeasonInv, OneLoadCounts

\* What the arriving season shows is what was read, or what was shown before.
LEMMA ShownTyped ==
    ASSUME SeasonInv, NEW f \in Front, NEW l \in loads[f]
    PROVE  /\ Shown(f, l) \in Views
           /\ view[f].analysed \subseteq Shown(f, l).analysed
           /\ Shown(f, l).analysed \subseteq rows \intersect raw
           /\ l.stale => Shown(f, l) = view[f]
<1>1. l \in Loads /\ view[f] \in Views
    BY DEF SeasonInv, TypeOK
<1>. QED BY <1>1 DEF SeasonInv, StillStored, OneLoadCounts, Shown, Loads

LEMMA ArriveStep ==
    ASSUME SeasonInv, NEW f \in Front, NEW l \in loads[f], Arrive(f, l) PROVE SeasonInv'
<1>. DEFINE v == Shown(f, l)
<1>0. TypeOK
    BY DEF SeasonInv
<1>1. v \in Views /\ view[f].analysed \subseteq v.analysed /\ v.analysed \subseteq rows \intersect raw /\ (l.stale => v = view[f])
    BY ShownTyped
<1>2. view' = [view EXCEPT ![f] = v] /\ loads' = [loads EXCEPT ![f] = loads[f] \ {l}]
    BY DEF Arrive
<1>3. sync' \in [Front -> Syncs]
    BY <1>0, RequestedTyped, IdleTyped, OneSync DEF Arrive, Ends, TypeOK
<1>4. UNCHANGED <<listed, rows, raw, control, failedAt, now, paid>>
    BY DEF Arrive, stored
<1>. HIDE DEF v
<1>5. /\ view' \in [Front -> Views] /\ view'[f] = v /\ \A g \in Front \ {f} : view'[g] = view[g]
      /\ loads' \in [Front -> SUBSET Loads] /\ loads'[f] = loads[f] \ {l} /\ \A g \in Front \ {f} : loads'[g] = loads[g]
    BY <1>0, <1>1, <1>2 DEF TypeOK
<1>6. TypeOK'
    BY <1>0, <1>3, <1>4, <1>5 DEF TypeOK
<1>7. StillStored'
    BY <1>1, <1>4, <1>5 DEF SeasonInv, StillStored
<1>8. ASSUME NEW g \in Front, NEW k \in loads'[g], ~k.stale
      PROVE  /\ k.read => view'[g].analysed \subseteq k.seen.analysed
             /\ \A j \in loads'[g] : j.stale \/ j = k
  <2>1. k \in loads[g] /\ loads'[g] \subseteq loads[g]
    BY <1>5, <1>8
  <2>2. \A j \in loads'[g] : j.stale \/ j = k
    BY <2>1, <1>8 DEF SeasonInv, OneLoadCounts
  <2>3. CASE g # f
    BY <2>1, <2>2, <2>3, <1>5, <1>8 DEF SeasonInv, OneLoadCounts
  <2>4. CASE g = f
    <3>1. l.stale
      BY <2>1, <2>4, <1>5, <1>8 DEF SeasonInv, OneLoadCounts
    <3>. QED BY <3>1, <2>1, <2>2, <2>4, <1>1, <1>5, <1>8 DEF SeasonInv, OneLoadCounts
  <2>. QED BY <2>3, <2>4
<1>. QED BY <1>6, <1>7, <1>8 DEF SeasonInv, OneLoadCounts

\* Everybody else: a played run, a lookup, the clock, a restart, a refusal.
LEMMA OtherStep ==
    ASSUME SeasonInv, Play \/ Lookup \/ Tick \/ Crash \/ \E f \in Front : Refuse(f) PROVE SeasonInv'
<1>0. TypeOK
    BY DEF SeasonInv
<1>1. /\ UNCHANGED <<control, failedAt, view, loads, paid>>
      /\ listed' \in 0..MaxRuns /\ rows \subseteq rows' /\ rows' \subseteq 1..listed'
      /\ raw \subseteq raw' /\ raw' \subseteq Run /\ now' \in 0..MaxTime
      /\ sync' \in [Front -> Syncs]
  <2>1. CASE Play
    BY <2>1, <1>0, SyncConstants DEF SyncConstants, Play, stored, TypeOK
  <2>2. CASE Lookup
    <3>1. 1..listed \subseteq Run /\ rows \subseteq 1..listed /\ rows' = 1..listed /\ raw \subseteq raw'
      BY <2>2, <1>0, SyncConstants DEF SyncConstants, Lookup, TypeOK, Run
    <3>2. raw' \subseteq Run
      BY <2>2, <1>0, <3>1 DEF Lookup, TypeOK
    <3>. QED BY <2>2, <1>0, <3>1, <3>2 DEF Lookup, TypeOK
  <2>3. CASE Tick
    BY <2>3, <1>0, SyncConstants DEF SyncConstants, Tick, stored, TypeOK
  <2>4. CASE Crash
    BY <2>4, <1>0, IdleTyped DEF Crash, stored, TypeOK
  <2>5. CASE \E f \in Front : Refuse(f)
    BY <2>5, <1>0, IdleTyped, OneSync DEF Refuse, Ends, stored, TypeOK
  <2>. QED BY <2>1, <2>2, <2>3, <2>4, <2>5
<1>2. TypeOK'
    BY <1>0, <1>1 DEF TypeOK
<1>. QED BY <1>1, <1>2, ShownKept DEF SeasonInv

LEMMA SeasonStep == SeasonInv /\ [Next]_vars => SeasonInv'
<1>. SUFFICES ASSUME SeasonInv, [Next]_vars PROVE SeasonInv'
    OBVIOUS
<1>1. CASE UNCHANGED vars
    BY <1>1 DEF vars, SeasonInv, TypeOK, StillStored, OneLoadCounts
<1>2. CASE \E f \in Front : Start(f) \/ Stop(f)
    BY <1>2, StartStep
<1>3. CASE \E f \in Front : Work(f)
    BY <1>3, PickStep, FetchStep, SettleStep, AnswerStep, WorkStep, SyncConstants DEF SyncConstants, Work
<1>4. CASE \E f \in Front, mine \in BOOLEAN : Load(f, mine)
    BY <1>4, ReadStep, ArriveStep DEF Load
<1>5. CASE Trouble
    BY <1>5, StartStep, AnswerStep, WorkStep, ArriveStep, OtherStep DEF Trouble
<1>. QED BY <1>1, <1>2, <1>3, <1>4, <1>5, OtherStep DEF Next

LEMMA SeasonInvariant == Spec => []SeasonInv
    BY SeasonInit, SeasonStep, PTL DEF Spec

-----------------------------------------------------------------------------
(* Season: what it promises.                                               *)

\* The rows, the loop and the request of each page, its view and its loads keep their types.
THEOREM SeasonTypes == Spec => []TypeOK
<1>1. SeasonInv => TypeOK
    BY DEF SeasonInv
<1>. QED BY <1>1, SeasonInvariant, PTL

\* However many pages sync, cancel, crash and reload at once, and in whatever order the seasons
\* they asked for are read and arrive, no page goes back to fewer analysed runs (useSeason's seq).
THEOREM NoRunIsLost == Spec => ViewForward
<1>1. ASSUME SeasonInv, [Next]_vars PROVE [\A f \in Front : view[f].analysed \subseteq view'[f].analysed]_vars
  <2>. SUFFICES ASSUME NEW f \in Front, Next PROVE view[f].analysed \subseteq view'[f].analysed
    BY <1>1
  <2>1. view' = view \/ \E g \in Front : \E l \in loads[g] : Arrive(g, l)
    BY DEF Next, Start, Work, Pick, Fetch, Settle, Answer, GotRaw, GotControl, GotNothing, Throw, Load, Read,
           Play, Lookup, Tick, Trouble, Crash, Refuse, Stop, Reload
  <2>2. ASSUME NEW g \in Front, NEW l \in loads[g], Arrive(g, l) PROVE view[f].analysed \subseteq view'[f].analysed
    BY <1>1, <2>2, ShownTyped DEF Arrive, SeasonInv, TypeOK
  <2>. QED BY <2>1, <2>2
<1>. QED BY <1>1, SeasonInvariant, PTL DEF Spec, ViewForward

\* Who asks for a report asked for it already, or it is not stored.
LEMMA AskedBefore ==
    ASSUME SeasonInv, Next, NEW f \in Front, NEW r \in Run, sync'[f].work[r] = "raw", r \in raw
    PROVE  sync[f].work[r] = "raw"
<1>0. TypeOK
    BY DEF SeasonInv
<1>1. sync \in [Front -> Syncs] /\ \A g \in Front : sync[g] \in Syncs /\ sync[g].work \in [Run -> Works]
  BY <1>0 DEF TypeOK, Syncs
<1>2. Idle.work[r] # "raw" /\ \A g \in Front, b \in BOOLEAN : Requested(g, b).work[r] # "raw"
  BY <1>0, RequestedTyped, IdleTyped DEF NoWork
<1>3. ASSUME NEW g \in Front, NEW s, s.work[r] # "raw" \/ s.work[r] = sync[g].work[r], sync' = [sync EXCEPT ![g] = s]
      PROVE  sync[f].work[r] = "raw"
  BY <1>1, <1>3
<1>4. CASE sync' = sync
  BY <1>4
<1>5. CASE \E g \in Front : Start(g) \/ Stop(g) \/ Refuse(g)
  <2>. PICK g \in Front : Start(g) \/ Stop(g) \/ Refuse(g)
    BY <1>5
  <2>1. [sync[g] EXCEPT !.stop = TRUE].work = sync[g].work
    BY <1>1 DEF Syncs
  <2>. QED BY <1>2, <1>3, <2>1 DEF Start, Stop, Refuse, Ends
<1>6. CASE \E g \in Front : Pick(g) \/ Settle(g) \/ Answer(g)
  <2>. PICK g \in Front : Pick(g) \/ Settle(g) \/ Answer(g)
    BY <1>6
  <2>1. CASE Pick(g)
    <3>. DEFINE batch == Picked(Pending(Known(g), sync[g].at))
                p == IF batch = {} THEN "spent" ELSE "checking"
    <3>1. sync' = [sync EXCEPT ![g] = [sync[g] EXCEPT !.phase = p, !.batch = batch]]
      BY <2>1 DEF Pick
    <3>. HIDE DEF p, batch
    <3>2. [sync[g] EXCEPT !.phase = p, !.batch = batch].work = sync[g].work
      BY <1>1 DEF Syncs
    <3>. QED BY <1>3, <3>1, <3>2
  <2>2. CASE Settle(g) \/ Answer(g)
    <3>1. \A a, m : /\ [Idle EXCEPT !.phase = "spent", !.stop = sync[g].stop, !.at = a, !.moved = TRUE].work = Idle.work
                    /\ [Idle EXCEPT !.phase = "loading", !.more = m].work = Idle.work
      BY IdleTyped
    <3>2. CASE Settle(g)
      <4>. DEFINE s == [Idle EXCEPT !.phase = "spent", !.stop = sync[g].stop, !.at = sync[g].at, !.moved = TRUE]
      <4>1. s.work[r] # "raw"
        BY <1>2, <3>1
      <4>2. sync' = [sync EXCEPT ![g] = s] \/ sync' = [sync EXCEPT ![g] = Idle]
        BY <3>2 DEF Settle, Ends
      <4>. HIDE DEF s
      <4>. QED BY <1>2, <1>3, <4>1, <4>2
    <3>3. CASE Answer(g)
      BY <1>2, <1>3, <1>4, <3>1, <3>3 DEF Answer, Ends
    <3>. QED BY <2>2, <3>2, <3>3
  <2>. QED BY <2>1, <2>2
<1>7. CASE \E g \in Front : Fetch(g)
  BY <1>0, <1>1, <1>7 DEF Fetch, FirstWork, NeedsRaw, TypeOK, Syncs
<1>8. CASE \E g \in Front : \E q \in Run : GotRaw(g, q) \/ GotControl(g, q) \/ GotNothing(g, q) \/ Throw(g, q)
  <2>. PICK g \in Front, q \in Run : GotRaw(g, q) \/ GotControl(g, q) \/ GotNothing(g, q) \/ Throw(g, q)
    BY <1>8
  <2>1. PICK w : sync' = [sync EXCEPT ![g] = [sync[g] EXCEPT !.work[q] = w]] /\ (w = "raw" => sync[g].work[q] = "raw")
    <3>1. CASE GotRaw(g, q)
      BY <3>1 DEF GotRaw, WorkGoes
    <3>2. CASE GotControl(g, q) \/ GotNothing(g, q)
      BY <3>2 DEF GotControl, GotNothing, WorkGoes
    <3>3. CASE Throw(g, q)
      <4>1. Threw(sync[g].work[q]) # "raw"
        BY DEF Threw
      <4>. QED BY <3>3, <4>1 DEF Throw, WorkGoes
    <3>. QED BY <3>1, <3>2, <3>3
  <2>2. [sync[g] EXCEPT !.work[q] = w].work = [sync[g].work EXCEPT ![q] = w]
    BY <1>1 DEF Syncs
  <2>3. [sync[g].work EXCEPT ![q] = w][r] = IF r = q THEN w ELSE sync[g].work[r]
    BY <1>0, <1>1
  <2>. QED BY <1>3, <2>1, <2>2, <2>3
<1>9. CASE \E g \in Front : \E l \in loads[g] : Arrive(g, l)
  BY <1>2, <1>3, <1>4, <1>9 DEF Arrive, Ends
<1>10. CASE Crash
  BY <1>0, <1>1, <1>2, <1>10 DEF Crash
<1>. QED BY <1>4, <1>5, <1>6, <1>7, <1>8, <1>9, <1>10, SyncConstants
         DEF SyncConstants, Next, Work, Load, Read, Play, Lookup, Tick, Trouble, Reload

\* The pages whose syncs wait for the report of run r.
Waiting(r) == {f \in Front : sync[f].work[r] = "raw"}

\* A report that is not stored was never paid for; one that was has as many payments left as syncs
\* wait for it.
PaidInv ==
    \A r \in Run :
        /\ r \notin raw => paid[r] = 0
        /\ paid[r] + Cardinality(Waiting(r)) <= Cardinality(Front)

LEMMA FrontsCounted ==
    ASSUME NEW S \in SUBSET Front
    PROVE  IsFiniteSet(S) /\ Cardinality(S) \in Nat /\ Cardinality(S) <= Cardinality(Front) /\ Cardinality(Front) \in Nat
    BY SyncConstants, FS_Subset, FS_CardinalityType DEF SyncConstants

\* WCL's answer ends the wait it is for, and no other step pays.
LEMMA WhoPays ==
    ASSUME SeasonInv, Next, NEW r \in Run
    PROVE  /\ raw \subseteq raw'
           /\ \/ paid'[r] = paid[r]
              \/ /\ paid'[r] = paid[r] + 1 /\ r \in raw'
                 /\ \E g \in Front : sync[g].work[r] = "raw" /\ sync'[g].work[r] # "raw"
<1>0. /\ paid \in [Run -> Nat] /\ sync \in [Front -> Syncs]
      /\ \A g \in Front : sync[g] \in Syncs /\ sync[g].work \in [Run -> Works]
    BY DEF SeasonInv, TypeOK, Syncs
<1>1. CASE \E g \in Front, q \in Run : GotRaw(g, q)
  <2>1. PICK g \in Front, q \in Run : GotRaw(g, q)
    BY <1>1
  <2>2. /\ sync[g].work[q] = "raw" /\ raw' = raw \union {q} /\ paid' = [paid EXCEPT ![q] = @ + 1]
        /\ \E w \in {"controlAfterRaw", "ok"} : sync' = [sync EXCEPT ![g].work[q] = w]
    BY <2>1 DEF GotRaw, WorkGoes
  <2>3. sync'[g].work[q] # "raw"
    BY <1>0, <2>2 DEF Syncs
  <2>4. CASE q = r
    BY <1>0, <2>2, <2>3, <2>4
  <2>5. CASE q # r
    BY <1>0, <2>2, <2>5
  <2>. QED BY <2>4, <2>5
<1>2. CASE ~\E g \in Front, q \in Run : GotRaw(g, q)
  <2>1. paid' = paid /\ raw \subseteq raw'
    BY <1>2, SyncConstants DEF SyncConstants, Next, Start, Work, Pick, Fetch, Settle, Answer, GotControl, GotNothing,
       Throw, Load, Read, Arrive, Play, Lookup, Tick, Trouble, Crash, Refuse, Stop, Reload, stored
  <2>. QED BY <2>1
<1>. QED BY <1>1, <1>2

LEMMA PaidStep ==
    ASSUME SeasonInv, PaidInv, [Next]_vars PROVE PaidInv'
<1>1. CASE UNCHANGED vars
    BY <1>1 DEF vars, PaidInv, Waiting
<1>2. ASSUME Next, NEW r \in Run
      PROVE  /\ r \notin raw' => paid'[r] = 0
             /\ paid'[r] + Cardinality(Waiting(r)') <= Cardinality(Front)
  <2>. DEFINE W == Waiting(r)
              V == Waiting(r)'
  <2>0. /\ W \subseteq Front /\ V \subseteq Front /\ paid[r] \in Nat /\ paid[r] + Cardinality(W) <= Cardinality(Front)
        /\ (r \notin raw => paid[r] = 0)
    BY DEF Waiting, PaidInv, SeasonInv, TypeOK
  <2>1. /\ raw \subseteq raw'
        /\ \/ paid'[r] = paid[r]
           \/ /\ paid'[r] = paid[r] + 1 /\ r \in raw'
              /\ \E g \in Front : g \in W /\ g \notin V
    BY <1>2, WhoPays DEF Waiting
  <2>2. r \in raw => V \subseteq W
    BY <1>2, AskedBefore DEF Waiting
  <2>. HIDE DEF W, V
  <2>3. /\ Cardinality(W) \in Nat /\ Cardinality(V) \in Nat /\ Cardinality(Front) \in Nat /\ IsFiniteSet(W)
        /\ IsFiniteSet(Front) /\ Cardinality(V) <= Cardinality(Front)
    BY <2>0, FrontsCounted
  <2>4. CASE paid'[r] = paid[r]
    <3>1. r \in raw => Cardinality(V) <= Cardinality(W)
      BY <2>2, <2>3, FS_Subset
    <3>. QED BY <2>0, <2>1, <2>3, <2>4, <3>1 DEF V
  <2>5. CASE paid'[r] = paid[r] + 1 /\ r \in raw' /\ \E g \in Front : g \in W /\ g \notin V
    <3>1. PICK g \in Front : g \in W /\ g \notin V
      BY <2>5
    <3>2. Cardinality(W \ {g}) = Cardinality(W) - 1 /\ Cardinality(Front \ {g}) = Cardinality(Front) - 1
      BY <2>3, <3>1, FS_RemoveElement
    <3>3. IsFiniteSet(W \ {g}) /\ IsFiniteSet(Front \ {g})
      BY <2>3, FS_RemoveElement, FS_Subset
    <3>4. Cardinality(V) <= Cardinality(Front \ {g}) /\ (r \in raw => Cardinality(V) <= Cardinality(W \ {g}))
      BY <2>0, <2>2, <3>1, <3>3, FS_Subset
    <3>. QED BY <2>0, <2>3, <2>5, <3>2, <3>4 DEF V
  <2>. QED BY <2>1, <2>4, <2>5
<1>. QED BY <1>1, <1>2 DEF PaidInv

\* However the syncs of any pages overlap with one another, with lookups, cancels and restarts, WCL
\* answers them with a report at most once for each page (needsRaw, syncBatch).
THEOREM PaidAtMostPerPage == Spec => []PaidPerPage
<1>1. Init => PaidInv
  <2>. SUFFICES ASSUME Init, NEW r \in Run
                PROVE  paid[r] = 0 /\ 0 + Cardinality(Waiting(r)) <= Cardinality(Front)
    BY DEF PaidInv, Init
  <2>1. paid[r] = 0 /\ Waiting(r) \in SUBSET Front
    BY DEF Init, Waiting
  <2>. QED BY <2>1, FrontsCounted
<1>2. PaidInv /\ SeasonInv => PaidPerPage
  <2>. SUFFICES ASSUME PaidInv, SeasonInv, NEW r \in Run PROVE paid[r] <= Cardinality(Front)
    BY DEF PaidPerPage
  <2>1. Waiting(r) \in SUBSET Front /\ paid[r] \in Nat
    BY DEF Waiting, SeasonInv, TypeOK
  <2>. QED BY <2>1, FrontsCounted DEF PaidInv
<1>. QED BY <1>1, <1>2, PaidStep, SeasonInvariant, PTL DEF Spec

-----------------------------------------------------------------------------
(* The candidate page: the inductive invariant                             *)

UrlFollows(p) == p.url = p.active \/ p.lagged

\* p shows a profile that is not there, and no render or effect of its own will ask for it.
Needs(p) ==
    /\ p.active \notin p.cache \union {None} /\ ~p.failed /\ ~p.dropped
    /\ p.active = p.ref /\ ~p.tick /\ ~p.due

\* Then a call is on its way that was sent for it.
Asked == Needs(page) => \E s \in Slot : call[s].kind = "entry" /\ call[s].key = page.active

\* A payload is asked for by its key, and nothing else continues a self-heal.
Proper(c) ==
    /\ c.kind = "entry" => c.key # None
    /\ c.kind \in {"history", "lookup"} => c.then # "heal"
Continues == \A s \in Slot : Proper(call[s])

ProfileInv == ProfileTypeOK /\ UrlFollows(page) /\ Asked /\ Continues

\* From p to q nothing is needed anew, and the address is not left behind.
Calmer(p, q) ==
    /\ q \in Pages /\ (UrlFollows(p) => UrlFollows(q))
    /\ Needs(q) => Needs(p) /\ p.active = q.active

-----------------------------------------------------------------------------
(* The candidate page: what a handler does to it                           *)

LEMMA TouchCalms == ASSUME NEW p \in Pages PROVE Calmer(p, Touch(p)) /\ ~Needs(Touch(p))
    BY DEF Pages, Touch, Calmer, Needs, UrlFollows

LEMMA CachesCalms ==
    ASSUME NEW p \in Pages, NEW k \in Key
    PROVE  Calmer(p, Caches(p, k)) /\ ~Needs(Caches(p, k)) /\ k \in Caches(p, k).cache
    BY DEF Pages, Touch, Caches, Calmer, Needs, UrlFollows

LEMMA ForgetsCalms ==
    ASSUME NEW p \in Pages, NEW K PROVE Calmer(p, Forgets(p, K)) /\ Forgets(p, K).cache = p.cache \ K
    BY DEF Pages, Forgets, Calmer, Needs, UrlFollows

LEMMA ListsCalms == ASSUME NEW p \in Pages, NEW K \in SUBSET Key PROVE Calmer(p, Lists(p, K))
<1>. DEFINE q == [p EXCEPT !.tabs = K]
<1>1. q \in Pages /\ Calmer(p, q)
    BY DEF Pages, Calmer, Needs, UrlFollows
<1>2. Lists(p, K) = Forgets(q, p.cache \ K)
    BY DEF Lists
<1>. HIDE DEF q
<1>. QED BY <1>1, <1>2, ForgetsCalms DEF Calmer

LEMMA ShowsNeeds ==
    ASSUME NEW p \in Pages, NEW k \in Key \union {None}
    PROVE  /\ Shows(p, k) \in Pages /\ UrlFollows(Shows(p, k)) /\ Shows(p, k).active = k
           /\ Shows(p, k).cache = p.cache
           /\ Needs(Shows(p, k)) => k \notin p.cache \union {None}
    BY DEF Pages, Activate, Shows, Needs, UrlFollows

LEMMA LandsNeeds ==
    ASSUME NEW p \in Pages, NEW from, NEW to \in Key \union {None}
    PROVE  /\ LandOn(p, from, to) \in Pages /\ (UrlFollows(p) => UrlFollows(LandOn(p, from, to)))
           /\ p.active # from => Calmer(p, LandOn(p, from, to))
           /\ p.active = from /\ Needs(LandOn(p, from, to)) =>
                 LandOn(p, from, to).active = to /\ to \notin p.cache \union {None}
<1>. DEFINE url == IF p.ref = from THEN to ELSE p.url
            behind == p.lagged \/ (p.ref = from) # (p.active = from)
            landed == [p EXCEPT !.url = url, !.lagged = behind]
            shown == IF to = p.active THEN landed ELSE [landed EXCEPT !.active = to, !.failed = FALSE, !.dropped = FALSE]
<1>1. LandOn(p, from, to) = IF p.active = from THEN shown ELSE landed
    BY DEF LandOn, Lands, Activate, Pages
<1>2. landed \in Pages /\ (p.active # from /\ UrlFollows(p) => UrlFollows(landed)) /\ (Needs(landed) => Needs(p))
      /\ landed.active = p.active /\ landed.cache = p.cache /\ landed.url = url /\ landed.lagged = behind
  <2>1. url \in Key \union {None} /\ behind \in BOOLEAN /\ (p.active # from => url = p.url \/ behind) /\ (p.lagged => behind)
    BY DEF Pages
  <2>. HIDE DEF url, behind
  <2>2. /\ landed \in Pages /\ landed.url = url /\ landed.lagged = behind
        /\ landed.active = p.active /\ landed.cache = p.cache /\ landed.ref = p.ref
        /\ landed.failed = p.failed /\ landed.dropped = p.dropped /\ landed.tick = p.tick /\ landed.due = p.due
    BY <2>1 DEF Pages
  <2>. HIDE DEF landed
  <2>. QED BY <2>1, <2>2 DEF Needs, UrlFollows
<1>. HIDE DEF landed
<1>3. shown \in Pages /\ shown.active = to /\ shown.cache = p.cache /\ shown.url = url /\ shown.lagged = behind
  <2>. DEFINE moved == [landed EXCEPT !.active = to, !.failed = FALSE, !.dropped = FALSE]
  <2>. HIDE DEF url, behind
  <2>1. /\ moved \in Pages /\ moved.active = to
        /\ moved.cache = landed.cache /\ moved.url = landed.url /\ moved.lagged = landed.lagged
    BY <1>2 DEF Pages
  <2>2. shown = IF to = p.active THEN landed ELSE moved
    OBVIOUS
  <2>. HIDE DEF moved, shown
  <2>. QED BY <1>2, <2>1, <2>2
<1>4. p.active = from => UrlFollows(shown)
    BY <1>3 DEF UrlFollows
<1>. HIDE DEF shown
<1>5. Needs(shown) => to \notin p.cache \union {None}
    BY <1>3 DEF Needs
<1>. QED BY <1>1, <1>2, <1>3, <1>4, <1>5 DEF Calmer

LEMMA NothingAsked == NoCall \in Calls /\ Proper(NoCall)
    BY DEF Request, NoCall, Calls, Proper

LEMMA FetchedTyped ==
    ASSUME NEW p \in Pages, NEW k \in Key \union {None}, NEW then \in {"show", "fallback", "heal"}
    PROVE  /\ Fetched(p, k, then) \in Calls /\ Proper(Fetched(p, k, then))
           /\ k \notin p.cache \union {None} => Fetched(p, k, then).kind = "entry" /\ Fetched(p, k, then).key = k
<1>1. /\ Request("entry", k, then, FALSE) \in Calls
      /\ Request("entry", k, then, FALSE).kind = "entry" /\ Request("entry", k, then, FALSE).key = k
      /\ NoCall \in Calls /\ NoCall.kind = "none"
    BY DEF Request, NoCall, Calls
<1>. QED BY <1>1 DEF Fetched, Proper

-----------------------------------------------------------------------------
(* The candidate page: the steps                                           *)

LEMMA ProfileStarts == ProfileInit => ProfileInv
<1>. SUFFICES ASSUME ProfileInit PROVE ProfileInv
    OBVIOUS
<1>1. page \in Pages /\ UrlFollows(page) /\ ~Needs(page)
    BY DEF ProfileInit, Pages, UrlFollows, Needs
<1>2. Request("history", None, "boot", FALSE) \in Calls /\ Proper(Request("history", None, "boot", FALSE)) /\ NoCall \in Calls /\ Proper(NoCall)
    BY DEF Request, NoCall, Calls, Proper
<1>3. call \in [Slot -> Calls] /\ Continues
    BY <1>2 DEF ProfileInit, Continues
<1>4. history \subseteq Key /\ done \in 0..MaxDone
    BY ProfileConstants DEF ProfileConstants, ProfileInit
<1>. QED BY <1>1, <1>3, <1>4 DEF ProfileInv, ProfileTypeOK, Asked

\* A free slot, or one whose call has been answered, gets a request: nothing is left unasked,
\* if what the page newly needs is requested, and the answer gave what its call was sent for.
LEMMA GoesKeeps ==
    ASSUME ProfileInv, NEW s \in Slot, NEW q \in Pages, NEW request \in Calls,
           page' = q, call' = [call EXCEPT ![s] = request], history' \subseteq Key, done' \in 0..MaxDone,
           UrlFollows(q),
           Needs(q) => \/ request.kind = "entry" /\ request.key = q.active
                       \/ Needs(page) /\ page.active = q.active /\ (call[s].kind = "entry" => call[s].key # q.active),
           Proper(request)
    PROVE  ProfileInv'
<1>1. call \in [Slot -> Calls]
    BY DEF ProfileInv, ProfileTypeOK
<1>2. call' \in [Slot -> Calls] /\ call'[s] = request /\ \A r \in Slot \ {s} : call'[r] = call[r]
    BY <1>1
<1>3. Continues'
    BY <1>2 DEF ProfileInv, Continues
<1>4. Asked'
  <2>. SUFFICES ASSUME Needs(q) PROVE \E r \in Slot : call'[r].kind = "entry" /\ call'[r].key = q.active
    BY DEF Asked, Needs
  <2>1. CASE request.kind = "entry" /\ request.key = q.active
    BY <1>2, <2>1
  <2>2. CASE Needs(page) /\ page.active = q.active /\ (call[s].kind = "entry" => call[s].key # q.active)
    BY <1>2, <2>2 DEF ProfileInv, Asked
  <2>. QED BY <2>1, <2>2
<1>5. UrlFollows(page)'
    BY DEF UrlFollows
<1>. QED BY <1>2, <1>3, <1>4, <1>5 DEF ProfileInv, ProfileTypeOK

\* The same where the page only becomes calmer.
LEMMA CalmKeeps ==
    ASSUME ProfileInv, NEW s \in Slot, NEW q \in Pages, NEW request \in Calls,
           page' = q, call' = [call EXCEPT ![s] = request], history' \subseteq Key, done' \in 0..MaxDone,
           Calmer(page, q), call[s].kind = "entry" => ~Needs(q) \/ call[s].key # q.active,
           Proper(request)
    PROVE  ProfileInv'
    BY GoesKeeps DEF Calmer, ProfileInv

LEMMA CalmSelf == ASSUME ProfileInv PROVE page \in Pages /\ Calmer(page, page)
    BY DEF ProfileInv, ProfileTypeOK, Calmer

\* The member asks for something.
LEMMA MemberStep ==
    ASSUME ProfileInv, NEW s \in Slot, done' \in 0..MaxDone,
           \/ LookUp(s) \/ Reevaluate(s) \/ ClearAll(s) \/ ReloadActive(s)
           \/ \E k \in Key : CloseTab(s, k) \/ \E cached \in BOOLEAN : Watched(s, k, cached)
    PROVE  ProfileInv'
<1>0. page \in Pages /\ call \in [Slot -> Calls] /\ history \subseteq Key
    BY DEF ProfileInv, ProfileTypeOK
<1>1. page.ref \in Key \union {None} /\ page.cache \subseteq Key /\ call[s].kind # "entry"
    BY <1>0 DEF Pages, LookUp, Reevaluate, ClearAll, ReloadActive, CloseTab, Watched, Free
<1>2. CASE LookUp(s) \/ Reevaluate(s) \/ ClearAll(s)
  <2>1. PICK request \in Calls : Proper(request) /\ call' = [call EXCEPT ![s] = request]
    <3>1. \A k \in Key \union {None} :
             /\ Request("lookup", None, "none", FALSE) \in Calls /\ Proper(Request("lookup", None, "none", FALSE))
             /\ Request("lookup", k, "reevaluate", FALSE) \in Calls /\ Proper(Request("lookup", k, "reevaluate", FALSE))
             /\ Request("clear", None, "none", FALSE) \in Calls /\ Proper(Request("clear", None, "none", FALSE))
      BY DEF Request, Calls, Proper
    <3>. QED BY <1>1, <1>2, <3>1 DEF LookUp, Reevaluate, ClearAll, Sends
  <2>2. page' = page /\ history' = history
    BY <1>2 DEF LookUp, Reevaluate, ClearAll
  <2>. QED BY <1>0, <1>1, <2>1, <2>2, CalmSelf, CalmKeeps
<1>3. ASSUME NEW k \in Key, CloseTab(s, k) \/ \E cached \in BOOLEAN : Watched(s, k, cached) PROVE ProfileInv'
  <2>1. PICK request \in Calls : Proper(request) /\ call' = [call EXCEPT ![s] = request]
    <3>1. CASE CloseTab(s, k)
      <4>1. Request("remove", k, "close", k = page.ref) \in Calls /\ Proper(Request("remove", k, "close", k = page.ref))
        BY DEF Request, Calls, Proper
      <4>. QED BY <3>1, <4>1 DEF CloseTab, Sends
    <3>2. CASE \E cached \in BOOLEAN : Watched(s, k, cached)
      <4>1. \A cached \in BOOLEAN : Request("history", k, "result", cached) \in Calls /\ Proper(Request("history", k, "result", cached))
        BY DEF Request, Calls, Proper
      <4>. QED BY <3>2, <4>1 DEF Watched, Sends
    <3>. QED BY <1>3, <3>1, <3>2
  <2>2. page' = page /\ history' \subseteq Key
    BY <1>0, <1>3 DEF CloseTab, Watched
  <2>. QED BY <1>0, <1>1, <2>1, <2>2, CalmSelf, CalmKeeps
<1>4. CASE ReloadActive(s)
  <2>. DEFINE p == Forgets(page, page.cache \ {page.ref})
  <2>1. p \in Pages /\ Calmer(page, p) /\ Touch(p) \in Pages /\ Calmer(page, Touch(p))
    BY <1>0, ForgetsCalms, TouchCalms DEF Calmer
  <2>2. CASE page.ref = None
    <3>1. page' = Touch(p) /\ call' = call /\ history' = history
      BY <1>4, <2>2 DEF ReloadActive
    <3>2. ~Needs(Touch(p))
      BY <2>1, TouchCalms
    <3>. HIDE DEF p
    <3>3. ~Needs(page)' /\ UrlFollows(page)'
      BY <2>1, <3>1, <3>2 DEF Calmer, ProfileInv, Needs, UrlFollows
    <3>. QED BY <1>0, <2>1, <3>1, <3>3 DEF ProfileInv, ProfileTypeOK, Asked, Continues
  <2>3. CASE page.ref # None
    <3>1. page' = p /\ call' = [call EXCEPT ![s] = Request("entry", page.ref, "reload", FALSE)] /\ history' = history
      BY <1>4, <2>3 DEF ReloadActive, Sends
    <3>2. Request("entry", page.ref, "reload", FALSE) \in Calls /\ Proper(Request("entry", page.ref, "reload", FALSE))
      BY <1>1, <2>3 DEF Request, Calls, Proper
    <3>. HIDE DEF p
    <3>. QED BY <1>0, <1>1, <2>1, <3>1, <3>2, CalmKeeps
  <2>. QED BY <2>2, <2>3
<1>. QED BY <1>2, <1>3, <1>4

LEMMA OpenStep ==
    ASSUME ProfileInv, NEW s \in Slot, NEW k \in Key, OpenProfile(s, k), done' \in 0..MaxDone PROVE ProfileInv'
<1>. DEFINE p == Shows(page, k)
            q == Rendered(p)
            request == Fetched(page, k, "show")
<1>0. page \in Pages /\ call \in [Slot -> Calls] /\ history \subseteq Key /\ call[s].kind = "none"
    BY DEF ProfileInv, ProfileTypeOK, OpenProfile, Free
<1>1. p \in Pages /\ UrlFollows(p) /\ p.active = k /\ p.cache = page.cache /\ (Needs(p) => k \notin page.cache \union {None})
    BY <1>0, ShowsNeeds
<1>2. q \in Pages /\ UrlFollows(q) /\ q.active = k /\ (Needs(q) => k \notin page.cache \union {None})
  <2>1. p \in Pages /\ UrlFollows(p) /\ p.active = k /\ p.cache = page.cache
    BY <1>1
  <2>. HIDE DEF p
  <2>. QED BY <2>1 DEF Pages, Rendered, HealsOn, Needs, UrlFollows
<1>3. request \in Calls /\ Proper(request) /\ (k \notin page.cache \union {None} => request.kind = "entry" /\ request.key = k)
    BY <1>0, FetchedTyped
<1>4. page' = q /\ call' = [call EXCEPT ![s] = request] /\ history' = history
    BY DEF OpenProfile, Sends
<1>. HIDE DEF p, q, request
<1>. QED BY <1>0, <1>2, <1>3, <1>4, GoesKeeps

LEMMA RenderStep == ASSUME ProfileInv, Render, UNCHANGED done PROVE ProfileInv'
<1>1. page \in Pages /\ page' = Rendered(page) /\ call' = call /\ history' = history /\ UrlFollows(page)
    BY DEF ProfileInv, ProfileTypeOK, Render
<1>2. page.tick \/ page.active # page.ref
    BY DEF Render
<1>3. page' \in Pages /\ UrlFollows(page') /\ ~Needs(page')
    BY <1>1, <1>2 DEF Pages, Rendered, HealsOn, Needs, UrlFollows
<1>4. UrlFollows(page)' /\ Asked'
    BY <1>3 DEF UrlFollows, Asked, Needs
<1>. QED BY <1>1, <1>3, <1>4 DEF ProfileInv, ProfileTypeOK, Continues

LEMMA HealStep == ASSUME ProfileInv, NEW s \in Slot, SelfHeal(s), UNCHANGED done PROVE ProfileInv'
<1>. DEFINE q == [page EXCEPT !.due = FALSE, !.dropped = FALSE]
            request == Fetched(page, page.ref, "heal")
<1>0. page \in Pages /\ history \subseteq Key /\ UrlFollows(page) /\ call[s].kind = "none" /\ done \in 0..MaxDone
    BY DEF ProfileInv, ProfileTypeOK, SelfHeal, Free
<1>1. q \in Pages /\ UrlFollows(q) /\ (Needs(q) => page.ref \notin page.cache \union {None} /\ q.active = page.ref)
    BY <1>0 DEF Pages, Needs, UrlFollows
<1>2. /\ request \in Calls /\ Proper(request)
      /\ page.ref \notin page.cache \union {None} => request.kind = "entry" /\ request.key = page.ref
  <2>1. page.ref \in Key \union {None}
    BY <1>0 DEF Pages
  <2>. QED BY <1>0, <2>1, FetchedTyped
<1>3. page' = q /\ call' = [call EXCEPT ![s] = request] /\ history' = history
    BY DEF SelfHeal, Sends
<1>. HIDE DEF q, request
<1>. QED BY <1>0, <1>1, <1>2, <1>3, GoesKeeps

\* The server's part leaves the page and what the calls are for alone.
LEMMA ServeStep ==
    ASSUME ProfileInv, (UNCHANGED done /\ \E s \in Slot : Serve(s)) \/ (done' \in 0..MaxDone /\ \E k \in Key : Evict(k))
    PROVE  ProfileInv'
<1>0. page \in Pages /\ call \in [Slot -> Calls] /\ history \subseteq Key /\ done \in 0..MaxDone
    BY DEF ProfileInv, ProfileTypeOK
<1>1. /\ page' = page /\ history' \subseteq Key /\ call' \in [Slot -> Calls] /\ done' \in 0..MaxDone
      /\ \A r \in Slot : call'[r].kind = call[r].kind /\ call'[r].key = call[r].key /\ call'[r].then = call[r].then
  <2>1. CASE UNCHANGED done /\ \E s \in Slot : Serve(s)
    <3>. PICK s \in Slot : Serve(s)
      BY <2>1
    <3>1. PICK h \in SUBSET Key, seen \in SUBSET Key : Serves(s, h, seen)
      <4>1. call[s].key \in Key => history \ {call[s].key} \in SUBSET Key
        BY <1>0
      <4>. QED BY <1>0, <4>1 DEF Serve
    <3>2. call[s] \in Calls
      BY <1>0
    <3>3. /\ [call[s] EXCEPT !.served = TRUE, !.seen = seen] \in Calls
          /\ [call[s] EXCEPT !.served = TRUE, !.seen = seen].kind = call[s].kind
          /\ [call[s] EXCEPT !.served = TRUE, !.seen = seen].key = call[s].key
          /\ [call[s] EXCEPT !.served = TRUE, !.seen = seen].then = call[s].then
      BY <3>2 DEF Calls
    <3>4. call' = [call EXCEPT ![s] = [call[s] EXCEPT !.served = TRUE, !.seen = seen]]
      BY <1>0, <3>1 DEF Serves
    <3>5. call' \in [Slot -> Calls] /\ \A r \in Slot : call'[r] = IF r = s THEN [call[s] EXCEPT !.served = TRUE, !.seen = seen] ELSE call[r]
      BY <1>0, <3>3, <3>4
    <3>. QED BY <1>0, <2>1, <3>1, <3>3, <3>5 DEF Serves
  <2>2. CASE done' \in 0..MaxDone /\ \E k \in Key : Evict(k)
    BY <1>0, <2>2 DEF Evict
  <2>. QED BY <2>1, <2>2
<1>2. (Needs(page)' <=> Needs(page)) /\ (UrlFollows(page)' <=> UrlFollows(page))
    BY <1>1 DEF Needs, UrlFollows
<1>3. Asked' /\ Continues'
    BY <1>1, <1>2 DEF ProfileInv, Asked, Continues, Proper
<1>. QED BY <1>0, <1>1, <1>2, <1>3 DEF ProfileInv, ProfileTypeOK

-----------------------------------------------------------------------------
(* The candidate page: the answers                                         *)

\* What an answer leads to keeps the invariant.
LEMMA GoesCalm ==
    ASSUME ProfileInv, NEW s \in Slot, NEW q, NEW request \in Calls, Goes(s, q, request), done' \in 0..MaxDone,
           Calmer(page, q), call[s].kind = "entry" => ~Needs(q) \/ call[s].key # q.active,
           Proper(request)
    PROVE  ProfileInv'
<1>1. page' = q /\ call' = [call EXCEPT ![s] = request] /\ history' \subseteq Key
    BY DEF Goes, Sends, ProfileInv, ProfileTypeOK
<1>. QED BY <1>1, CalmKeeps DEF Calmer

LEMMA GoesAsking ==
    ASSUME ProfileInv, NEW s \in Slot, NEW q \in Pages, NEW request \in Calls, Goes(s, q, request), done' \in 0..MaxDone,
           UrlFollows(q), Needs(q) => request.kind = "entry" /\ request.key = q.active,
           Proper(request)
    PROVE  ProfileInv'
<1>1. page' = q /\ call' = [call EXCEPT ![s] = request] /\ history' \subseteq Key
    BY DEF Goes, Sends, ProfileInv, ProfileTypeOK
<1>. QED BY <1>1, GoesKeeps

LEMMA ListStep ==
    ASSUME ProfileInv, NEW s \in Slot, call[s].kind = "history", NEW p \in Pages, Calmer(page, p),
           NEW items \in SUBSET Key, ListArrives(s, p, items), done' \in 0..MaxDone
    PROVE  ProfileInv'
<1>0. /\ UrlFollows(p) /\ call[s] \in Calls /\ call[s].key \in Key \union {None} /\ call[s].flag \in BOOLEAN
      /\ call[s].then \in {"none", "boot", "show", "fallback", "reload", "close", "result", "reevaluate"}
    BY DEF ProfileInv, ProfileTypeOK, Calmer, Calls, Continues, Proper
<1>1. ASSUME Goes(s, p, NoCall) PROVE ProfileInv'
    BY <1>1, GoesCalm, NothingAsked
<1>2. ASSUME NEW q \in Pages, NEW k \in Key \union {None}, UrlFollows(q),
             Goes(s, Shows(q, k), Fetched(q, k, "show"))
      PROVE  ProfileInv'
  <2>1. Shows(q, k) \in Pages /\ UrlFollows(Shows(q, k)) /\ Shows(q, k).active = k
        /\ (Needs(Shows(q, k)) => k \notin q.cache \union {None})
    BY ShowsNeeds
  <2>2. Fetched(q, k, "show") \in Calls /\ Proper(Fetched(q, k, "show"))
        /\ (k \notin q.cache \union {None} => Fetched(q, k, "show").kind = "entry" /\ Fetched(q, k, "show").key = k)
    BY FetchedTyped
  <2>. QED BY <1>2, <2>1, <2>2, GoesAsking
<1>3. ASSUME NEW k \in Key \union {None}, NEW request \in Calls, Proper(request),
             k \notin p.cache \union {None} => request.kind = "entry" /\ request.key = k,
             Goes(s, LandOn(p, call[s].key, k), request)
      PROVE  ProfileInv'
  <2>1. /\ LandOn(p, call[s].key, k) \in Pages /\ UrlFollows(LandOn(p, call[s].key, k))
        /\ p.active # call[s].key => Calmer(p, LandOn(p, call[s].key, k))
        /\ p.active = call[s].key /\ Needs(LandOn(p, call[s].key, k)) =>
              LandOn(p, call[s].key, k).active = k /\ k \notin p.cache \union {None}
    BY <1>0, LandsNeeds
  <2>2. CASE p.active = call[s].key
    BY <1>3, <2>1, <2>2, GoesAsking
  <2>3. CASE p.active # call[s].key
    <3>1. Calmer(page, LandOn(p, call[s].key, k))
      BY <2>1, <2>3 DEF Calmer
    <3>. QED BY <1>3, <3>1, GoesCalm
  <2>. QED BY <2>2, <2>3
<1>4. \A k \in First(items) : k \in Key \union {None}
    BY DEF First
<1>5. CASE call[s].then = "none" \/ (call[s].then = "close" /\ ~call[s].flag)
    BY <1>1, <1>5 DEF ListArrives
<1>6. CASE call[s].then = "boot" \/ (call[s].then = "close" /\ call[s].flag)
  <2>1. PICK k \in First(items) : Goes(s, p, NoCall) \/ Goes(s, Shows(p, k), Fetched(p, k, "show"))
    BY <1>6 DEF ListArrives
  <2>. QED BY <1>0, <1>1, <1>2, <1>4, <2>1
<1>7. CASE call[s].then = "reload"
  <2>1. Goes(s, Touch(p), NoCall)
    BY <1>7 DEF ListArrives
  <2>2. Calmer(page, Touch(p)) /\ ~Needs(Touch(p))
    BY TouchCalms DEF Calmer
  <2>. QED BY <2>1, <2>2, GoesCalm, NothingAsked
<1>8. CASE call[s].then = "show"
  <2>1. PICK k \in First(items) : Goes(s, LandOn(p, call[s].key, k), Fetched(p, k, "fallback"))
    BY <1>8 DEF ListArrives
  <2>2. Fetched(p, k, "fallback") \in Calls /\ Proper(Fetched(p, k, "fallback"))
        /\ (k \notin p.cache \union {None} => Fetched(p, k, "fallback").kind = "entry" /\ Fetched(p, k, "fallback").key = k)
    BY <1>4, FetchedTyped
  <2>. QED BY <1>3, <1>4, <2>1, <2>2
<1>9. CASE call[s].then = "fallback"
  <2>1. Goes(s, LandOn(p, call[s].key, None), NoCall)
    BY <1>9 DEF ListArrives
  <2>. QED BY <1>3, <2>1, NothingAsked
<1>10. CASE call[s].then = "result"
  <2>. DEFINE q == IF call[s].flag THEN p ELSE Forgets(p, {call[s].key})
  <2>1. Goes(s, Shows(q, call[s].key), Fetched(q, call[s].key, "show"))
    BY <1>10 DEF ListArrives
  <2>2. q \in Pages /\ UrlFollows(q)
    BY <1>0, ForgetsCalms DEF Calmer
  <2>. HIDE DEF q
  <2>. QED BY <1>0, <1>2, <2>1, <2>2
<1>11. CASE call[s].then = "reevaluate"
  <2>1. Goes(s, p, Request("remove", call[s].key, "reevaluate", FALSE))
    BY <1>11 DEF ListArrives
  <2>2. Request("remove", call[s].key, "reevaluate", FALSE) \in Calls /\ Proper(Request("remove", call[s].key, "reevaluate", FALSE))
    BY <1>0 DEF Request, Calls, Proper
  <2>. QED BY <2>1, <2>2, GoesCalm
<1>. QED BY <1>0, <1>5, <1>6, <1>7, <1>8, <1>9, <1>10, <1>11

LEMMA HistoryStep ==
    ASSUME ProfileInv, NEW s \in Slot, NEW ok \in BOOLEAN, HistoryArrives(s, ok), done' \in 0..MaxDone PROVE ProfileInv'
<1>1. call[s].seen \in SUBSET Key /\ call[s].kind = "history" /\ page \in Pages
    BY DEF ProfileInv, ProfileTypeOK, Calls, HistoryArrives
<1>2. Calmer(page, page) /\ Calmer(page, Lists(page, call[s].seen)) /\ Lists(page, call[s].seen) \in Pages
    BY <1>1, CalmSelf, ListsCalms DEF Calmer
<1>. QED BY <1>1, <1>2, ListStep DEF HistoryArrives

\* The payload is there, or its request has failed: in either case nothing more is needed.
LEMMA EntryStep ==
    ASSUME ProfileInv, NEW s \in Slot, NEW ok \in BOOLEAN, EntryArrives(s, ok), done' \in 0..MaxDone PROVE ProfileInv'
<1>. DEFINE k == call[s].key
            then == IF call[s].then = "heal" THEN "none" ELSE call[s].then
            q == [page EXCEPT !.failed = page.failed \/ page.active = k]
<1>0. page \in Pages /\ call[s] \in Calls /\ k \in Key /\ call[s].kind = "entry"
    BY DEF ProfileInv, ProfileTypeOK, Calls, EntryArrives, Continues, Proper
<1>1. CASE ok /\ call[s].seen # {}
  <2>1. Goes(s, Caches(page, k), NoCall)
    BY <1>1 DEF EntryArrives
  <2>2. Calmer(page, Caches(page, k)) /\ ~Needs(Caches(page, k))
    BY <1>0, CachesCalms
  <2>. QED BY <2>1, <2>2, GoesCalm, NothingAsked
<1>2. CASE ~(ok /\ call[s].seen # {})
  <2>1. Goes(s, q, Request("history", k, then, FALSE))
    BY <1>2 DEF EntryArrives
  <2>2. then \in {"none", "boot", "show", "fallback", "reload", "close", "result", "reevaluate"}
    BY <1>0 DEF Calls
  <2>3. Request("history", k, then, FALSE) \in Calls /\ Proper(Request("history", k, then, FALSE))
    <3>. HIDE DEF then
    <3>. QED BY <1>0, <2>2 DEF Request, Calls, Proper
  <2>4. Calmer(page, q) /\ q \in Pages /\ (Needs(q) => q.active # k)
    BY <1>0 DEF Pages, Calmer, Needs, UrlFollows
  <2>. HIDE DEF q
  <2>. QED BY <2>1, <2>3, <2>4, GoesCalm
<1>. QED BY <1>1, <1>2

LEMMA LookupStep ==
    ASSUME ProfileInv, NEW s \in Slot, NEW ok \in BOOLEAN, LookupArrives(s, ok), done' \in 0..MaxDone PROVE ProfileInv'
<1>0. /\ page \in Pages /\ call[s] \in Calls /\ call[s].key \in Key \union {None} /\ call[s].seen \subseteq Key
      /\ call[s].kind = "lookup" /\ call[s].then # "heal"
    BY DEF ProfileInv, ProfileTypeOK, Calls, LookupArrives, Continues, Proper
<1>1. CASE ok
  <2>. DEFINE request == Request("history", call[s].key, call[s].then, FALSE)
  <2>1. PICK k \in call[s].seen : Goes(s, Shows(Caches(page, k), k), request)
    BY <1>1 DEF LookupArrives
  <2>2. Caches(page, k) \in Pages /\ k \in Caches(page, k).cache /\ k \in Key
    BY <1>0, CachesCalms DEF Calmer
  <2>3. Calmer(page, Shows(Caches(page, k), k)) /\ ~Needs(Shows(Caches(page, k), k))
    BY <2>2, ShowsNeeds DEF Calmer
  <2>4. request \in Calls /\ Proper(request)
    BY <1>0 DEF Request, Calls, Proper
  <2>. HIDE DEF request
  <2>. QED BY <2>1, <2>3, <2>4, GoesCalm
<1>2. CASE ~ok
  <2>1. Goes(s, page, NoCall)
    BY <1>2 DEF LookupArrives
  <2>. QED BY <1>0, <2>1, CalmSelf, GoesCalm, NothingAsked
<1>. QED BY <1>1, <1>2

LEMMA RemoveStep ==
    ASSUME ProfileInv, NEW s \in Slot, RemoveArrives(s), done' \in 0..MaxDone PROVE ProfileInv'
<1>0. /\ page \in Pages /\ call[s] \in Calls /\ call[s].key \in Key \union {None} /\ call[s].flag \in BOOLEAN
      /\ call[s].kind # "entry"
    BY DEF ProfileInv, ProfileTypeOK, Calls, RemoveArrives
<1>1. /\ Request("history", call[s].key, "close", call[s].flag) \in Calls
      /\ Proper(Request("history", call[s].key, "close", call[s].flag))
      /\ Request("history", None, "none", FALSE) \in Calls /\ Proper(Request("history", None, "none", FALSE))
    BY <1>0 DEF Request, Calls, Proper
<1>2. CASE call[s].kind = "remove"
  <2>. DEFINE request == IF call[s].then = "close" THEN Request("history", call[s].key, "close", call[s].flag)
                         ELSE Request("history", None, "none", FALSE)
  <2>1. Goes(s, Forgets(page, {call[s].key}), request)
    BY <1>2 DEF RemoveArrives
  <2>2. request \in Calls /\ Proper(request)
    BY <1>1
  <2>. HIDE DEF request
  <2>3. Calmer(page, Forgets(page, {call[s].key}))
    BY <1>0, ForgetsCalms
  <2>. QED BY <1>0, <2>1, <2>2, <2>3, GoesCalm
<1>3. CASE call[s].kind = "clear"
  <2>. DEFINE p == Forgets(page, page.cache)
  <2>1. Goes(s, Shows(p, None), Request("history", None, "none", FALSE))
    BY <1>3 DEF RemoveArrives
  <2>2. p \in Pages
    BY <1>0, ForgetsCalms DEF Calmer
  <2>. HIDE DEF p
  <2>3. Calmer(page, Shows(p, None))
    BY <2>2, ShowsNeeds DEF Calmer
  <2>. QED BY <1>0, <1>1, <2>1, <2>3, GoesCalm
<1>. QED BY <1>2, <1>3 DEF RemoveArrives

LEMMA ProfileStep == ProfileInv /\ [ProfileNext]_profileVars => ProfileInv'
<1>. SUFFICES ASSUME ProfileInv, [ProfileNext]_profileVars PROVE ProfileInv'
    OBVIOUS
<1>1. CASE UNCHANGED profileVars
    BY <1>1 DEF profileVars, ProfileInv, ProfileTypeOK, UrlFollows, Needs, Asked, Continues
<1>2. ASSUME NEW s \in Slot, NEW ok \in BOOLEAN, Arrives(s, ok), done' \in 0..MaxDone PROVE ProfileInv'
    BY <1>2, HistoryStep, EntryStep, LookupStep, RemoveStep DEF Arrives
<1>3. CASE Does /\ done < MaxDone /\ done' = done + 1
  <2>1. done' \in 0..MaxDone
    BY <1>3, ProfileConstants DEF ProfileConstants, ProfileInv, ProfileTypeOK
  <2>. QED BY <1>2, <1>3, <2>1, MemberStep, OpenStep, ServeStep DEF Does
<1>4. CASE Proceeds /\ UNCHANGED done
  <2>1. done' \in 0..MaxDone
    BY <1>4 DEF ProfileInv, ProfileTypeOK
  <2>. QED BY <1>2, <1>4, <2>1, RenderStep, HealStep, ServeStep DEF Proceeds
<1>. QED BY <1>1, <1>3, <1>4 DEF ProfileNext

LEMMA ProfileInvariant == ProfileSpec => []ProfileInv
    BY ProfileStarts, ProfileStep, PTL DEF ProfileSpec

-----------------------------------------------------------------------------
(* The candidate page: what it promises                                    *)

\* The tabs, the calls on their way and what they continue keep their types, whatever arrives.
THEOREM ProfileTypes == ProfileSpec => []ProfileTypeOK
<1>1. ProfileInv => ProfileTypeOK
    BY DEF ProfileInv
<1>. QED BY <1>1, ProfileInvariant, PTL

\* However many profiles are opened, looked up, closed and evicted while answers are on their
\* way, the address names the one that is shown, but for a landing before another's render
\* (App.tsx:268).
THEOREM AddressFollows == ProfileSpec => []UrlShown
<1>1. ProfileInv => UrlShown
    BY DEF ProfileInv, UrlFollows, UrlShown
<1>. QED BY <1>1, ProfileInvariant, PTL

\* With any number of calls on their way, the active profile that is not there is asked for, has
\* failed, or was dropped with nothing after it that would ask again (App.tsx:340-344).
THEOREM ProfileHeals == ProfileSpec => []Heals
<1>1. ProfileInv => Heals
    BY DEF ProfileInv, Asked, Needs, Heals, AtRest, Free
<1>. QED BY <1>1, ProfileInvariant, PTL

-----------------------------------------------------------------------------
(* The deep dive: the inductive invariant                                  *)

\* What the fight has of the spells ids.
CastsOf(ids) == {c \in fight.casts : c.spell \in ids}

\* A row holds casts of the fight, all of the spells it was fetched for if it is not truncated.
RowHonest(row) ==
    /\ Potion \in row.ids
    /\ row.events \subseteq CastsOf(row.ids)
    /\ ~row.truncated => row.events = CastsOf(row.ids)

\* An analysis under way has read the casts before the time it goes on from.
ReadUpTo(d) ==
    /\ Potion \in d.row.ids /\ ~d.row.truncated
    /\ d.row.events = {c \in CastsOf(d.row.ids) : c.at < d.from}
    /\ d.pages < MaxPages

DivingHonest ==
    \A m \in Diver :
        /\ diving[m].step \in {"ping", "pages"} => ReadUpTo(diving[m])
        /\ diving[m].step = "health" => RowHonest(diving[m].row)

DiveInv == DiveTypeOK /\ DivingHonest /\ (dive.fetched => RowHonest(dive))

LEMMA FightTyped ==
    ASSUME DiveTypeOK
    PROVE  /\ fight \in Fights /\ IsFiniteSet(fight.casts)
           /\ \A c \in fight.casts : c.at \in Nat /\ c \in Casts
    BY DiveConstants DEF DiveConstants, DiveTypeOK, Fights, Casts

LEMMA DiveStarts == DiveInit => DiveInv
<1>. SUFFICES ASSUME DiveInit PROVE DiveInv
    OBVIOUS
<1>1. NoDive \in Dives /\ ~NoDive.fetched
    BY DEF NoDive, Dives
<1>2. NotDiving \in Divings /\ NotDiving.step = "idle"
    BY <1>1, DiveConstants DEF DiveConstants, NotDiving, Divings
<1>3. steps \in [dives: 0..MaxDives, edits: 0..MaxEdits]
    BY DiveConstants DEF DiveConstants, DiveInit
<1>. QED BY <1>1, <1>2, <1>3 DEF DiveInit, DiveInv, DiveTypeOK, DivingHonest

-----------------------------------------------------------------------------
(* The deep dive: the steps                                                *)

\* One member's analysis goes on; the row and the tables do not change.
LEMMA DivingKeeps ==
    ASSUME DiveInv, NEW m \in Diver, NEW d \in Divings, diving' = [diving EXCEPT ![m] = d],
           UNCHANGED <<fight, table, dive>>, steps' \in [dives: 0..MaxDives, edits: 0..MaxEdits],
           d.step \in {"ping", "pages"} => ReadUpTo(d), d.step = "health" => RowHonest(d.row)
    PROVE  DiveInv'
<1>1. diving' \in [Diver -> Divings] /\ diving'[m] = d /\ \A n \in Diver \ {m} : diving'[n] = diving[n]
    BY DEF DiveInv, DiveTypeOK
<1>2. DiveTypeOK'
    BY <1>1 DEF DiveInv, DiveTypeOK
<1>3. DivingHonest'
    BY <1>1 DEF DiveInv, DivingHonest, ReadUpTo, RowHonest, CastsOf
<1>4. (dive.fetched => RowHonest(dive))'
    BY DEF DiveInv, RowHonest, CastsOf
<1>. QED BY <1>2, <1>3, <1>4 DEF DiveInv

LEMMA AnalyzeStep ==
    ASSUME DiveInv, NEW m \in Diver, NEW force \in BOOLEAN, Analyze(m, force) PROVE DiveInv'
<1>. DEFINE d == [NotDiving EXCEPT !.step = "ping", !.row.ids = FetchIds(table[m])]
<1>1. FetchIds(table[m]) \subseteq Spell \union {Potion} /\ Potion \in FetchIds(table[m])
    BY DEF FetchIds, Listed
<1>2. /\ d \in Divings /\ d.step = "ping" /\ d.from = 0 /\ d.pages = 0 /\ d.row.ids = FetchIds(table[m])
      /\ d.row.events = {} /\ ~d.row.truncated
  <2>. DEFINE row == [NoDive EXCEPT !.ids = FetchIds(table[m])]
  <2>1. row \in Dives /\ row.ids = FetchIds(table[m]) /\ row.events = {} /\ ~row.truncated
    BY <1>1 DEF NoDive, Dives
  <2>2. d = [NotDiving EXCEPT !.step = "ping", !.row = row]
    BY DEF NotDiving
  <2>. HIDE DEF row, d
  <2>3. d = [step |-> "ping", from |-> 0, pages |-> 0, row |-> row]
    BY <2>2 DEF NotDiving
  <2>. QED BY <2>1, <2>3, DiveConstants DEF DiveConstants, Divings
<1>3. ReadUpTo(d)
  <2>1. \A c \in CastsOf(d.row.ids) : ~(c.at < 0)
    BY FightTyped DEF CastsOf, DiveInv
  <2>. QED BY <1>1, <1>2, <2>1, DiveConstants DEF DiveConstants, ReadUpTo
<1>4. steps' \in [dives: 0..MaxDives, edits: 0..MaxEdits]
    BY DiveConstants DEF DiveConstants, Analyze, DiveInv, DiveTypeOK
<1>5. diving' = [diving EXCEPT ![m] = d] /\ UNCHANGED <<fight, table, dive>>
    BY DEF Analyze
<1>. HIDE DEF d
<1>. QED BY <1>2, <1>3, <1>4, <1>5, DivingKeeps

LEMMA PingStep == ASSUME DiveInv, NEW m \in Diver, Ping(m) PROVE DiveInv'
<1>. DEFINE d == [diving[m] EXCEPT !.step = "pages"]
<1>1. diving[m] \in Divings /\ diving[m].step = "ping" /\ ReadUpTo(diving[m])
    BY DEF DiveInv, DiveTypeOK, DivingHonest, Ping
<1>2. d \in Divings /\ d.step = "pages" /\ d.from = diving[m].from /\ d.pages = diving[m].pages /\ d.row = diving[m].row
    BY <1>1 DEF Divings
<1>3. ReadUpTo(d)
    BY <1>1, <1>2 DEF ReadUpTo
<1>4. diving' = [diving EXCEPT ![m] = d] /\ UNCHANGED <<fight, table, dive, steps>>
    BY DEF Ping
<1>. HIDE DEF d
<1>. QED BY <1>2, <1>3, <1>4, DivingKeeps DEF DiveInv, DiveTypeOK

\* A set of times has an earliest one, and Min is it.
LEMMA MinIsLeast ==
    ASSUME NEW S \in SUBSET Nat, S # {}
    PROVE  Min(S) \in S /\ \A x \in S : Min(S) <= x
<1>1. PICK x \in S : \A y \in S : ~(<<y, x>> \in OpToRel(<, Nat))
    BY WFMin, NatLessThanWellFounded, Zenon
<1>2. ASSUME NEW y \in S PROVE x <= y
  <2>1. x \in Nat /\ y \in Nat /\ ~(y < x)
    BY <1>1 DEF OpToRel
  <2>. QED BY <2>1
<1>. QED BY <1>2 DEF Min

\* A page adds the casts before the time the next one begins at, or all that is left.
LEMMA PageReads ==
    ASSUME DiveTypeOK, NEW d, ReadUpTo(d), d.from \in Nat, RestOf(d) # {}
    PROVE  LET from == Min({c.at : c \in RestOf(d)}) IN
           from \in Nat /\ d.row.events \union PageOf(d) = {c \in CastsOf(d.row.ids) : c.at < from}
<1>. DEFINE S == {c.at : c \in RestOf(d)}
            from == Min(S)
<1>1. /\ \A c \in Wanted(d) : c \in CastsOf(d.row.ids) /\ c.at \in Nat /\ c.at >= d.from
      /\ \A c \in CastsOf(d.row.ids) : c.at \in Nat /\ (c.at >= d.from => c \in Wanted(d))
    BY FightTyped DEF Wanted, CastsOf
<1>2. S \in SUBSET Nat /\ S # {}
    BY <1>1 DEF RestOf
<1>3. from \in S /\ \A x \in S : from <= x
    BY <1>2, MinIsLeast
<1>. HIDE DEF from
<1>4. PICK e \in RestOf(d) : from = e.at
    BY <1>3
<1>5. PICK g \in Wanted(d) : g.at < e.at
    BY <1>1, <1>4 DEF RestOf, PageOf
<1>6. \A c \in PageOf(d) : c \in CastsOf(d.row.ids) /\ c.at < from
    BY <1>1, <1>2, <1>4, <1>5 DEF PageOf, RestOf
<1>7. d.from < from
    BY <1>1, <1>4, <1>5 DEF RestOf, ReadUpTo
<1>8. ASSUME NEW c \in CastsOf(d.row.ids), c.at < from PROVE c.at < d.from \/ c \in PageOf(d)
  <2>1. c.at >= d.from => c \in Wanted(d) /\ c \notin RestOf(d)
    <3>1. c.at \in Nat /\ from \in Nat /\ (c \in RestOf(d) => from <= c.at)
      BY <1>1, <1>2, <1>3
    <3>. QED BY <1>1, <1>8, <3>1
  <2>. QED BY <1>1, <2>1 DEF RestOf
<1>9. d.row.events = {c \in CastsOf(d.row.ids) : c.at < d.from}
    BY DEF ReadUpTo
<1>10. \A c \in CastsOf(d.row.ids) : c.at < d.from => c.at < from
    BY <1>1, <1>2, <1>3, <1>7
<1>. QED BY <1>2, <1>3, <1>6, <1>8, <1>9, <1>10 DEF from

LEMMA LastPageReads ==
    ASSUME DiveTypeOK, NEW d, ReadUpTo(d), d.from \in Nat
    PROVE  /\ d.row.events \union PageOf(d) \subseteq CastsOf(d.row.ids)
           /\ RestOf(d) = {} => d.row.events \union PageOf(d) = CastsOf(d.row.ids)
<1>1. /\ \A c \in PageOf(d) : c \in CastsOf(d.row.ids)
      /\ \A c \in CastsOf(d.row.ids) : c.at < d.from \/ c \in Wanted(d)
    BY FightTyped DEF PageOf, Wanted, CastsOf
<1>2. d.row.events = {c \in CastsOf(d.row.ids) : c.at < d.from}
    BY DEF ReadUpTo
<1>. QED BY <1>1, <1>2 DEF RestOf

LEMMA PageStep == ASSUME DiveInv, NEW m \in Diver, PageArrives(m) PROVE DiveInv'
<1>. DEFINE d == diving[m]
            read == d.row.events \union PageOf(d)
            from == Min({c.at : c \in RestOf(d)})
            row == [d.row EXCEPT !.events = read]
            cut == [d.row EXCEPT !.events = read, !.truncated = TRUE]
            more == [d EXCEPT !.row = row, !.pages = d.pages + 1, !.from = from]
            whole == [d EXCEPT !.row = row, !.pages = d.pages + 1, !.step = "health"]
            broken == [d EXCEPT !.row = cut, !.pages = d.pages + 1, !.step = "health"]
<1>0. DiveTypeOK /\ d \in Divings /\ d.step = "pages" /\ ReadUpTo(d)
    BY DEF DiveInv, DiveTypeOK, DivingHonest, PageArrives
<1>1. /\ d.row \in Dives /\ d.from \in Nat /\ d.pages \in 0..MaxPages /\ d.pages < MaxPages
      /\ Potion \in d.row.ids /\ ~d.row.truncated /\ MaxPages \in Nat
    BY <1>0, DiveConstants DEF DiveConstants, Divings, ReadUpTo
<1>2. /\ read \subseteq CastsOf(d.row.ids) /\ (RestOf(d) = {} => read = CastsOf(d.row.ids))
      /\ RestOf(d) # {} => from \in Nat /\ read = {c \in CastsOf(d.row.ids) : c.at < from}
    BY <1>0, <1>1, PageReads, LastPageReads
<1>3. read \subseteq Casts
    BY <1>0, <1>2, FightTyped DEF CastsOf
<1>4. diving' = [diving EXCEPT ![m] =
          IF RestOf(d) = {} THEN whole ELSE IF d.pages + 1 >= MaxPages THEN broken ELSE more]
    BY <1>0, <1>1 DEF PageArrives, Divings, Dives
<1>5. UNCHANGED <<fight, table, dive, steps>>
    BY DEF PageArrives
<1>. HIDE DEF d, read, from
<1>6. /\ row \in Dives /\ row.ids = d.row.ids /\ row.events = read /\ ~row.truncated
      /\ cut \in Dives /\ cut.ids = d.row.ids /\ cut.events = read /\ cut.truncated
    BY <1>1, <1>3 DEF Dives
<1>. HIDE DEF row, cut
<1>7. d.pages + 1 \in 0..MaxPages
    BY <1>1
<1>8. /\ whole \in Divings /\ whole.step = "health" /\ whole.row = row
      /\ broken \in Divings /\ broken.step = "health" /\ broken.row = cut
    BY <1>0, <1>6, <1>7 DEF Divings
<1>9. from \in Nat => more \in Divings /\ more.step = "pages" /\ more.row = row /\ more.from = from /\ more.pages = d.pages + 1
    BY <1>0, <1>6, <1>7 DEF Divings
<1>. HIDE DEF more, whole, broken
<1>10. RowHonest(cut) /\ (RestOf(d) = {} => RowHonest(row))
    BY <1>1, <1>2, <1>6 DEF RowHonest
<1>11. RestOf(d) # {} /\ d.pages + 1 < MaxPages => ReadUpTo(more)
    BY <1>1, <1>2, <1>6, <1>9 DEF ReadUpTo
<1>12. CASE RestOf(d) = {}
    BY <1>4, <1>5, <1>8, <1>10, <1>12, DivingKeeps DEF DiveInv, DiveTypeOK
<1>13. CASE RestOf(d) # {} /\ d.pages + 1 >= MaxPages
    BY <1>4, <1>5, <1>8, <1>10, <1>13, DivingKeeps DEF DiveInv, DiveTypeOK
<1>14. CASE RestOf(d) # {} /\ ~(d.pages + 1 >= MaxPages)
  <2>1. ReadUpTo(more) /\ more \in Divings /\ more.step = "pages"
    BY <1>1, <1>2, <1>9, <1>11, <1>14
  <2>. QED BY <1>4, <1>5, <1>14, <2>1, DivingKeeps DEF DiveInv, DiveTypeOK
<1>. QED BY <1>12, <1>13, <1>14

\* What is paid for is kept, also when the health request fails.
LEMMA HealthStep == ASSUME DiveInv, NEW m \in Diver, NEW ok \in BOOLEAN, HealthArrives(m, ok) PROVE DiveInv'
<1>. DEFINE row == [diving[m].row EXCEPT !.fetched = TRUE, !.health = ok]
<1>0. DiveTypeOK /\ diving[m].row \in Dives /\ RowHonest(diving[m].row)
    BY DEF DiveInv, DiveTypeOK, DivingHonest, Divings, HealthArrives
<1>1. row \in Dives /\ RowHonest(row)
    BY <1>0 DEF RowHonest, Dives
<1>2. dive' = row /\ diving' = [diving EXCEPT ![m] = NotDiving] /\ UNCHANGED <<fight, table, steps>>
    BY DEF HealthArrives
<1>. HIDE DEF row
<1>3. NotDiving \in Divings /\ NotDiving.step = "idle"
    BY DiveConstants DEF DiveConstants, NotDiving, Divings, NoDive, Dives
<1>4. diving' \in [Diver -> Divings] /\ diving'[m] = NotDiving /\ \A n \in Diver \ {m} : diving'[n] = diving[n]
    BY <1>0, <1>2, <1>3 DEF DiveTypeOK
<1>5. DiveTypeOK'
    BY <1>0, <1>1, <1>2, <1>4 DEF DiveTypeOK
<1>6. DivingHonest'
    BY <1>2, <1>3, <1>4 DEF DiveInv, DivingHonest, ReadUpTo, RowHonest, CastsOf
<1>7. RowHonest(dive)'
    BY <1>1, <1>2 DEF RowHonest, CastsOf
<1>. QED BY <1>5, <1>6, <1>7 DEF DiveInv

LEMMA GivesUpStep == ASSUME DiveInv, NEW m \in Diver, GivesUp(m) PROVE DiveInv'
<1>1. NotDiving \in Divings /\ NotDiving.step = "idle"
    BY DiveConstants DEF DiveConstants, NotDiving, Divings, NoDive, Dives
<1>. QED BY <1>1, DivingKeeps DEF GivesUp, DiveInv, DiveTypeOK

LEMMA CorrectionStep ==
    ASSUME DiveInv, NEW M \in SUBSET Diver, NEW s \in Spell, NEW listing \in Listing \union {Unlisted},
           Correction(M, s, listing)
    PROVE  DiveInv'
<1>0. DiveTypeOK
    BY DEF DiveInv
<1>1. table' \in [Diver -> [Spell -> Listing \union {Unlisted}]]
    BY <1>0 DEF Correction, DiveTypeOK
<1>2. steps' \in [dives: 0..MaxDives, edits: 0..MaxEdits]
    BY <1>0, DiveConstants DEF DiveConstants, Correction, DiveTypeOK
<1>3. UNCHANGED <<fight, dive, diving>>
    BY DEF Correction
<1>. QED BY <1>0, <1>1, <1>2, <1>3 DEF DiveInv, DiveTypeOK, DivingHonest, ReadUpTo, RowHonest, CastsOf

LEMMA DiveStep == DiveInv /\ [DiveNext]_diveVars => DiveInv'
<1>. SUFFICES ASSUME DiveInv, [DiveNext]_diveVars PROVE DiveInv'
    OBVIOUS
<1>1. CASE UNCHANGED diveVars
    BY <1>1 DEF diveVars, DiveInv, DiveTypeOK, DivingHonest, ReadUpTo, RowHonest, CastsOf
<1>2. CASE \E M \in {{m} : m \in Diver} \union {Diver}, s \in Spell, listing \in Listing \union {Unlisted} :
              Correction(M, s, listing)
  <2>1. \A M \in {{m} : m \in Diver} \union {Diver} : M \in SUBSET Diver
    OBVIOUS
  <2>. QED BY <1>2, <2>1, CorrectionStep
<1>. QED BY <1>1, <1>2, AnalyzeStep, HealthStep, PingStep, PageStep, GivesUpStep DEF DiveNext

LEMMA DiveInvariant == DiveSpec => []DiveInv
    BY DiveStarts, DiveStep, PTL DEF DiveSpec

-----------------------------------------------------------------------------
(* The deep dive: what a member is told                                    *)

\* The greater of two numbers.
LEMMA MaxOfTwo == ASSUME NEW a \in Nat, NEW b \in Nat PROVE Max({a, b}) = IF a >= b THEN a ELSE b
<1>1. \E x \in {a, b} : \A y \in {a, b} : x >= y
    OBVIOUS
<1>2. Max({a, b}) \in {a, b} /\ \A y \in {a, b} : Max({a, b}) >= y
    BY <1>1 DEF Max
<1>. QED BY <1>2

\* What was seen of a spell is in the fight, and all there is of one the row was fetched for.
LEMMA SeenInFight ==
    ASSUME DiveTypeOK, RowHonest(dive), NEW s
    PROVE  /\ Seen(s) \subseteq Times(fight.casts, s) /\ Times(fight.casts, s) \subseteq Nat
           /\ ~dive.truncated /\ Judged(s) => Seen(s) = Times(fight.casts, s)
<1>1. \A c \in dive.events : c \in fight.casts
    BY DEF RowHonest, CastsOf
<1>2. ~dive.truncated /\ Judged(s) => \A c \in fight.casts : c.spell = s => c \in dive.events
    BY DEF RowHonest, CastsOf, Judged
<1>. QED BY <1>1, <1>2, FightTyped DEF Seen, Times

LEMMA TimesFinite ==
    ASSUME DiveTypeOK, NEW s
    PROVE  IsFiniteSet(Times(fight.casts, s)) /\ Cardinality(Times(fight.casts, s)) \in Nat
<1>. DEFINE C == {c \in fight.casts : c.spell = s}
            F == [c \in C |-> c.at]
            T == Times(fight.casts, s)
<1>1. IsFiniteSet(C)
    BY FightTyped, FS_Subset
<1>2. F \in Surjection(C, T)
    BY DEF Surjection, Times
<1>. HIDE DEF C, F, T
<1>3. IsFiniteSet(T)
    BY <1>1, <1>2, FS_Surjection
<1>4. Cardinality(T) \in Nat
    BY <1>3, FS_CardinalityType
<1>. QED BY <1>3, <1>4 DEF T

\* A cast is within a span of the row exactly when it is within it of the fight.
LEMMA WithinFight ==
    ASSUME DiveTypeOK, RowHonest(dive), ~dive.truncated, NEW s, Judged(s), NEW at, NEW span
    PROVE  Within(dive.events, s, at, span) <=> Within(fight.casts, s, at, span)
    BY SeenInFight DEF Within, Seen

LEMMA UsageTrue ==
    ASSUME DiveTypeOK, RowHonest(dive), NEW m \in Diver PROVE UsageHonest(table[m])
<1>. DEFINE t == table[m]
<1>0. \A s \in Spell : t[s] \in Listing \union {Unlisted} /\ t[s].cooldown \in Nat
    BY DiveConstants DEF DiveConstants, DiveTypeOK, Unlisted
<1>. HIDE DEF t
<1>1. ASSUME NEW s \in Listed(t), fight.total \/ (Judged(s) /\ ~dive.truncated)
      PROVE  CastCount(s) = Cardinality(Times(fight.casts, s))
  <2>. DEFINE n == Cardinality(Times(fight.casts, s))
              k == Cardinality(Seen(s))
  <2>1. IsFiniteSet(Times(fight.casts, s)) /\ n \in Nat /\ Seen(s) \subseteq Times(fight.casts, s)
    BY TimesFinite, SeenInFight
  <2>2. IsFiniteSet(Seen(s)) /\ k <= n
    BY <2>1, FS_Subset
  <2>3. k \in Nat
    BY <2>2, FS_CardinalityType
  <2>4. CASE fight.total
    <3>1. CastCount(s) = Max({k, n})
      BY <2>4 DEF CastCount, Total
    <3>. HIDE DEF n, k
    <3>2. CastCount(s) = n
      BY <2>1, <2>2, <2>3, <3>1, MaxOfTwo
    <3>. QED BY <3>2 DEF n
  <2>5. CASE ~fight.total
    <3>1. k = n
      BY <1>1, <2>5, SeenInFight
    <3>2. CastCount(s) = Max({k, 0})
      BY <2>5 DEF CastCount, Total
    <3>. HIDE DEF n, k
    <3>3. CastCount(s) = n
      BY <2>1, <3>1, <3>2, MaxOfTwo
    <3>. QED BY <3>3 DEF n
  <2>. QED BY <2>4, <2>5
<1>2. ASSUME NEW s \in Listed(t), CdMismatch(s, t[s])
      PROVE  \E a, b \in Times(fight.casts, s) : a < b /\ b - a < t[s].cooldown
  <2>1. PICK a, b \in Seen(s) : a < b /\ 10 * (b - a) < 9 * t[s].cooldown
    BY <1>2 DEF CdMismatch
  <2>2. a \in Times(fight.casts, s) /\ b \in Times(fight.casts, s) /\ a \in Nat /\ b \in Nat /\ t[s].cooldown \in Nat
    BY <1>0, <2>1, SeenInFight DEF Listed
  <2>. DEFINE cooldown == t[s].cooldown
  <2>. HIDE DEF cooldown
  <2>3. 10 * (b - a) < 9 * cooldown /\ cooldown \in Nat
    BY <2>1, <2>2 DEF cooldown
  <2>4. b - a < cooldown
    BY <2>1, <2>2, <2>3
  <2>5. b - a < t[s].cooldown
    BY <2>4 DEF cooldown
  <2>. QED BY <2>1, <2>2, <2>5
<1>3. UsageHonest(t)
    BY <1>1, <1>2 DEF UsageHonest
<1>. QED BY <1>3 DEF t

LEMMA DeathTrue ==
    ASSUME DiveTypeOK, RowHonest(dive), ~dive.truncated, NEW m \in Diver PROVE DeathHonest(table[m])
<1>. DEFINE t == table[m]
            free(kind) == \E s \in Listed(t) : t[s].kind = kind /\ Available(s, t[s])
            active == \E s \in Listed(t) : t[s].kind # "minor" /\ Active(s, t[s])
            v == Verdict(t)
<1>. HIDE DEF t
<1>1. /\ v = "immunity available" => free("immunity")
      /\ v = "defensive available" => free("major")
      /\ v = "heal available" => ToolSaves
      /\ v \in {"covered", "nothing available"} => ~free("immunity")
      /\ v = "nothing available" => ~active /\ ~free("major")
    BY DEF Verdict
<1>. HIDE DEF v
<1>2. ASSUME NEW s, Available(s, t[s]) PROVE Ready(s, t[s])
    BY <1>2, WithinFight DEF Available, OnCooldown, Ready
<1>3. ToolSaves => ~Within(fight.casts, Potion, UsedAt, ToolCooldown)
    BY WithinFight DEF ToolSaves, Judged
<1>4. ASSUME NEW s, Judged(s), ~Available(s, t[s]), Ready(s, t[s]) PROVE Active(s, t[s])
    BY <1>4, WithinFight DEF Available, OnCooldown, Ready
<1>5. ASSUME v \in {"covered", "nothing available"}, ~StaleTable(t), NEW s \in Listed(t)
      PROVE  /\ t[s].kind = "immunity" /\ Ready(s, t[s]) => Active(s, t[s])
             /\ v = "nothing available" /\ t[s].kind = "major" => ~Ready(s, t[s])
  <2>1. Judged(s)
    BY <1>5 DEF StaleTable, Judged
  <2>2. t[s].kind = "immunity" => ~Available(s, t[s])
    BY <1>1, <1>5
  <2>3. v = "nothing available" /\ t[s].kind = "major" => ~Available(s, t[s]) /\ ~Active(s, t[s])
    BY <1>1, <1>5
  <2>. QED BY <1>4, <2>1, <2>2, <2>3
<1>6. v = "immunity available" => \E s \in Listed(t) : t[s].kind = "immunity" /\ Ready(s, t[s])
    BY <1>1, <1>2
<1>7. v = "defensive available" => \E s \in Listed(t) : t[s].kind = "major" /\ Ready(s, t[s])
    BY <1>1, <1>2
<1>8. v = "heal available" => ~Within(fight.casts, Potion, UsedAt, ToolCooldown)
    BY <1>1, <1>3
<1>9. DeathHonest(t)
    BY <1>5, <1>6, <1>7, <1>8 DEF DeathHonest, v
<1>. QED BY <1>9 DEF t

\* The rows, the tables and the analyses under way keep their types, for any fight.
THEOREM DiveTypes == DiveSpec => []DiveTypeOK
<1>1. DiveInv => DiveTypeOK
    BY DEF DiveInv
<1>. QED BY <1>1, DiveInvariant, PTL

\* For every fight, every table and every correction of it, and whoever fetched the row: what a
\* member reads in it is true of the fight (docs/deep-dive.md:24-33, analyze.ts).
THEOREM ReadsAreTrue == DiveSpec => []AnalysisHonest
<1>1. DiveInv => AnalysisHonest
    BY UsageTrue, DeathTrue DEF DiveInv, AnalysisHonest
<1>. QED BY <1>1, DiveInvariant, PTL
=============================================================================
