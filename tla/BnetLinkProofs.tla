---------------------------- MODULE BnetLinkProofs ----------------------------
(***************************************************************************)
(* For any number of members, accounts, characters, callbacks and rounds:  *)
(* what a member keeps belongs to the account he linked, which nobody else *)
(* holds; a round leaves nothing older than the 30 days behind; a date     *)
(* never goes back.  The argument follows the entries a round has read     *)
(* while members change the lists it will write to.                        *)
(***************************************************************************)
EXTENDS BnetLink, TLAPS

-----------------------------------------------------------------------------
(* The inductive invariant                                                 *)

\* A list, and what a round has read of it, has an entry for a character at most once.
Once(entries) == \A e, f \in entries : e.char = f.char => e = f
ListsOnce == \A u \in User : Once(list[u]) /\ Once(round.due[u])

\* Nothing is dated after now.
DatesPast == round.at <= now /\ \A u \in User : \A e \in list[u] : e.verifiedAt <= now

\* A member is asked about while something of his is due, and Blizzard's failure keeps
\* an entry that is not too old.
AskedAreDue ==
    round.user # NoUser =>
        /\ round.due[round.user] # {}
        /\ \A e \in round.due[round.user] :
              round.out[e.char] = "failed" => round.at <= e.verifiedAt + MaxAge

\* Of a member the round has still to write to, what it has not read is not too old.
UnreadFresh ==
    \A u \in User : round.due[u] # {} =>
        \A e \in list[u] : e \in round.due[u] \/ round.at <= e.verifiedAt + MaxAge

IInv == TypeOK /\ Owned /\ ListsOnce /\ DatesPast /\ AskedAreDue /\ UnreadFresh /\ Retention

-----------------------------------------------------------------------------
(* The steps.                                                              *)


LEMMA TypeStep ==
    TypeOK /\ [Next]_vars => TypeOK'
<1>. USE DEF TypeOK
<1>. SUFFICES ASSUME TypeOK, [Next]_vars PROVE TypeOK'
    OBVIOUS
<1>1. CASE Tick
    BY <1>1, LinkConstants DEF Tick
<1>2. CASE EndRound
    BY <1>2 DEF EndRound, Rounds
<1>3. ASSUME NEW t \in Tab, Abandon(t) PROVE TypeOK'
    BY <1>3 DEF Abandon, NoCallback
<1>4. ASSUME NEW t \in Tab, NEW u \in User, NEW a \in Account, Identify(t, u, a) PROVE TypeOK'
    BY <1>4 DEF Identify
<1>5. ASSUME NEW t \in Tab, NEW seen \in SUBSET Char, Import(t, seen) PROVE TypeOK'
  <2>1. callback[t].user \in User \union {NoUser} /\ callback[t].account \in Account \union {NoAccount}
    OBVIOUS
  <2>2. NewImport(seen) \in {NoImport} \union [chars: (SUBSET Char) \ {{}}, at: Nat]
    BY DEF NewImport
  <2>3. link' \in [User -> Account \union {NoAccount}]
    BY <1>5, <2>1 DEF Import
  <2>4. imports' \in [User -> {NoImport} \union [chars: (SUBSET Char) \ {{}}, at: Nat]]
    BY <1>5, <2>1, <2>2 DEF Import
  <2>5. callback' \in [Tab -> [user: User \union {NoUser}, account: Account \union {NoAccount}]]
    BY <1>5 DEF Import, NoCallback
  <2>. QED
    BY <1>5, <2>3, <2>4, <2>5 DEF Import
<1>6. ASSUME NEW u \in User, DropImport(u) PROVE TypeOK'
    BY <1>6 DEF DropImport
<1>7. ASSUME NEW u \in User, Unlink(u) PROVE TypeOK'
    BY <1>7 DEF Unlink
<1>8. ASSUME NEW u \in User, NEW picks \in SUBSET imports[u].chars, Pick(u, picks) PROVE TypeOK'
  <2>1. imports[u].chars \subseteq Char
    BY DEF NoImport
  <2>2. [char: picks, verifiedAt: {now}] \subseteq Entries
    BY <2>1 DEF Entries
  <2>. QED
    BY <1>8, <2>2 DEF Pick
<1>9. ASSUME NEW u \in User, NEW entries \in SUBSET list[u], Keep(u, entries) PROVE TypeOK'
    BY <1>9 DEF Keep
<1>10. ASSUME NEW token \in BOOLEAN, StartRound(token) PROVE TypeOK'
  <2>1. [u \in User |-> DueOf(u)] \in [User -> SUBSET Entries]
    BY DEF DueOf
  <2>2. Unasked \in [Char -> Outcomes] /\ round.n + 1 \in Nat
    BY DEF Unasked, Outcomes, Rounds
  <2>3. round' \in Rounds
    BY <1>10, <2>1, <2>2 DEF StartRound, Rounds
  <2>. QED
    BY <1>10, <2>3 DEF StartRound
<1>11. ASSUME NEW u \in User, NextMember(u) PROVE TypeOK'
  <2>1. Unasked \in [Char -> Outcomes]
    BY DEF Unasked, Outcomes
  <2>. QED
    BY <1>11, <2>1 DEF NextMember, Rounds
<1>12. ASSUME NEW u \in User, NEW e \in round.due[u], NEW answer \in Answers, Ask(e, answer) PROVE TypeOK'
  <2>1. Outcome(e, answer) \in Outcomes
    BY DEF Outcome, Outcomes, Answers
  <2>2. round' \in Rounds
    BY <1>12, <2>1 DEF Ask, Rounds
  <2>. QED
    BY <1>12, <2>2 DEF Ask
<1>13. ASSUME NEW u \in User, Apply(u) PROVE TypeOK'
  <2>. DEFINE written == {IF round.out[e.char] = "valid" THEN Confirmed(e) ELSE e :
                            e \in {e \in list[u] : ~Removes(e)}}
  <2>1. \A e \in list[u] : Confirmed(e) \in Entries
    BY DEF Confirmed, MaxOf, Entries, Rounds
  <2>2. list' = [list EXCEPT ![u] = written]
    BY <1>13 DEF Apply, ListToApply
  <2>3. written \subseteq Entries
    BY <2>1
  <2>4. {e.char : e \in {e \in list[u] : Removes(e)}} \subseteq Char
    BY DEF Entries
  <2>5. labels' \in [User -> SUBSET Char]
    BY <1>13, <2>4 DEF Apply, ListToApply
  <2>6. hasty' \subseteq User \X Char
    BY <1>13 DEF Apply, ListToApply, Entries
  <2>7. round' \in Rounds
    BY <1>13 DEF Apply, Rounds, Unasked, Outcomes
  <2>8. UNCHANGED <<now, link, imports, callback>>
    BY <1>13 DEF Apply
  <2>. HIDE DEF written
  <2>9. list' \in [User -> SUBSET Entries]
    BY <2>2, <2>3
  <2>. QED
    BY <2>5, <2>6, <2>7, <2>8, <2>9
<1>14. ASSUME NEW u \in User, ApplyFails(u) PROVE TypeOK'
  <2>1. Unasked \in [Char -> Outcomes]
    BY DEF Unasked, Outcomes
  <2>. QED
    BY <1>14, <2>1 DEF ApplyFails, Rounds
<1>15. CASE UNCHANGED vars
    BY <1>15 DEF vars
<1>. QED
    BY <1>1, <1>2, <1>3, <1>4, <1>5, <1>6, <1>7, <1>8, <1>9, <1>10, <1>11, <1>12, <1>13, <1>14, <1>15
       DEF Next

\* What is written back to a list: entries of the same characters, dated no earlier, of which
\* those the round removes are missing.
LEMMA Written ==
    ASSUME TypeOK, NEW u \in User, Apply(u)
    PROVE  /\ \A v \in User \ {u} : list'[v] = list[v]
           /\ \A f \in list'[u] : \E e \in list[u] :
                 /\ ~Removes(e) /\ f.char = e.char /\ e.verifiedAt <= f.verifiedAt
                 /\ f = IF round.out[e.char] = "valid" THEN Confirmed(e) ELSE e
                 /\ f.verifiedAt = e.verifiedAt \/ f.verifiedAt = round.at
                 /\ round.out[e.char] = "valid" => round.at <= f.verifiedAt
<1>1. list' = [list EXCEPT ![u] =
                 {IF round.out[e.char] = "valid" THEN Confirmed(e) ELSE e :
                     e \in {e \in list[u] : ~Removes(e)}}]
    BY DEF Apply, ListToApply
<1>2. list \in [User -> SUBSET Entries] /\ round.at \in Nat
    BY DEF TypeOK, Rounds
<1>3. \A e \in list[u] : /\ Confirmed(e).char = e.char
                         /\ e.verifiedAt <= Confirmed(e).verifiedAt /\ round.at <= Confirmed(e).verifiedAt
                         /\ Confirmed(e).verifiedAt \in {e.verifiedAt, round.at}
                         /\ e.verifiedAt <= e.verifiedAt
    BY <1>2 DEF Confirmed, MaxOf, Entries
<1>. QED
    BY <1>1, <1>2, <1>3

-----------------------------------------------------------------------------
(* Each part of the invariant is kept.                                     *)

LEMMA OwnedStep ==
    TypeOK /\ Owned /\ [Next]_vars => Owned'
<1>. SUFFICES ASSUME TypeOK, Owned, [Next]_vars PROVE Owned'
    OBVIOUS
<1>. USE DEF Owned, CharsOf
<1>0. CASE UNCHANGED <<link, labels, imports, list>>
    BY <1>0
<1>1. CASE Tick \/ EndRound
    BY <1>0, <1>1 DEF Tick, EndRound
<1>2. ASSUME NEW t \in Tab, Abandon(t) \/ \E u \in User, a \in Account : Identify(t, u, a) PROVE Owned'
    BY <1>0, <1>2 DEF Abandon, Identify
<1>3. ASSUME NEW t \in Tab, NEW seen \in SUBSET Char, Import(t, seen) PROVE Owned'
  <2>. DEFINE u == callback[t].user
              a == callback[t].account
  <2>1. /\ \A v \in User \ {u} : link[v] # a
        /\ \A c \in seen : AccountOf[c] = a
        /\ link' = [link EXCEPT ![u] = a]
        /\ labels' = [labels EXCEPT ![u] = IF Relinks(u, a) THEN {} ELSE @]
        /\ list' = [list EXCEPT ![u] = IF Relinks(u, a) THEN {} ELSE @]
        /\ imports' = [imports EXCEPT ![u] = NewImport(seen)]
    BY <1>3 DEF Import, HeldByOther
  <2>2. NewImport(seen).chars = seen
    BY DEF NewImport, NoImport
  <2>. HIDE DEF u, a
  <2>3. ASSUME NEW v \in User \ {u}
        PROVE  UNCHANGED <<link[v], labels[v], list[v], imports[v]>>
    BY <2>1 DEF TypeOK
  <2>4. CASE u \in User
    <3>1. link'[u] = a /\ imports'[u].chars = seen
      BY <2>1, <2>2, <2>4 DEF TypeOK
    <3>2. \A c \in labels'[u] \union {e.char : e \in list'[u]} : AccountOf[c] = a
      <4>1. CASE Relinks(u, a)
        BY <2>1, <2>4, <4>1 DEF TypeOK
      <4>2. CASE link[u] = a
        BY <2>1, <2>4, <4>2 DEF TypeOK
      <4>3. CASE link[u] = NoAccount
        <5>1. labels[u] = {} /\ list[u] = {}
          BY <2>4, <4>3, LinkConstants DEF TypeOK, Entries
        <5>. QED
          BY <2>1, <2>4, <5>1 DEF TypeOK
      <4>. QED
        BY <4>1, <4>2, <4>3 DEF Relinks
    <3>. QED
      BY <2>1, <2>3, <3>1, <3>2
  <2>5. CASE u \notin User
    BY <2>1, <2>3, <2>5
  <2>. QED
    BY <2>4, <2>5
<1>4. ASSUME NEW u \in User, DropImport(u) PROVE Owned'
    BY <1>4 DEF DropImport, NoImport, TypeOK
<1>5. ASSUME NEW u \in User, Unlink(u) PROVE Owned'
    BY <1>5 DEF Unlink, NoImport, TypeOK
<1>6. ASSUME NEW u \in User, NEW picks \in SUBSET imports[u].chars, Pick(u, picks) PROVE Owned'
    BY <1>6 DEF Pick, NoImport, TypeOK
<1>7. ASSUME NEW u \in User, NEW entries \in SUBSET list[u], Keep(u, entries) PROVE Owned'
    BY <1>7 DEF Keep, TypeOK
<1>8. ASSUME NEW u \in User, NextMember(u) \/ ApplyFails(u) PROVE Owned'
    BY <1>0, <1>8 DEF NextMember, ApplyFails
<1>9. ASSUME NEW u \in User, NEW e \in round.due[u], NEW answer \in Answers, Ask(e, answer) PROVE Owned'
    BY <1>0, <1>9 DEF Ask
<1>10. ASSUME NEW u \in User, Apply(u) PROVE Owned'
  <2>1. link' = link /\ imports' = imports
    BY <1>10 DEF Apply
  <2>2. \A v \in User : \A f \in list'[v] : \E e \in list[v] : f.char = e.char
    BY <1>10, Written
  <2>3. \A v \in User : labels'[v] \subseteq labels[v] \union {e.char : e \in list[v]}
    BY <1>10 DEF Apply, ListToApply, TypeOK
  <2>. QED
    BY <2>1, <2>2, <2>3
<1>11. ASSUME NEW token \in BOOLEAN, StartRound(token) PROVE Owned'
    BY <1>0, <1>11 DEF StartRound
<1>12. CASE UNCHANGED vars
    BY <1>0, <1>12 DEF vars
<1>. QED
    BY <1>1, <1>2, <1>3, <1>4, <1>5, <1>6, <1>7, <1>8, <1>9, <1>10, <1>11, <1>12 DEF Next

\* The other parts are about dates, and a step is one of three kinds to them: a list is cut
\* down or picked anew while the round stands still; the round goes on; or it writes a list.
PickedNow(u) == \A f \in list'[u] : f.verifiedAt = now /\ \A g \in list'[u] : f.char = g.char => f = g
MemberStep ==
    /\ round' = round /\ now' \in Nat /\ now <= now'
    /\ \A u \in User : list'[u] \subseteq list[u] \/ PickedNow(u)
RoundStep ==
    /\ UNCHANGED <<list, now>>
    /\ \/ EndRound
       \/ \E token \in BOOLEAN : StartRound(token)
       \/ \E u \in User : NextMember(u) \/ ApplyFails(u) \/ \E e \in round.due[u], answer \in Answers : Ask(e, answer)

LEMMA StepKinds ==
    ASSUME TypeOK, [Next]_vars
    PROVE  MemberStep \/ RoundStep \/ \E u \in User : Apply(u)
<1>0. now \in Nat /\ list \in [User -> SUBSET Entries]
    BY DEF TypeOK
<1>1. CASE Tick
    BY <1>0, <1>1 DEF Tick, MemberStep
<1>2. ASSUME NEW t \in Tab, Abandon(t) \/ \E u \in User, a \in Account : Identify(t, u, a) PROVE MemberStep
    BY <1>0, <1>2 DEF Abandon, Identify, MemberStep
<1>3. ASSUME NEW t \in Tab, NEW seen \in SUBSET Char, Import(t, seen) PROVE MemberStep
    BY <1>0, <1>3 DEF Import, MemberStep
<1>4. ASSUME NEW u \in User, DropImport(u) \/ Unlink(u) PROVE MemberStep
    BY <1>0, <1>4 DEF DropImport, Unlink, MemberStep
<1>5. ASSUME NEW u \in User, NEW picks \in SUBSET imports[u].chars, Pick(u, picks) PROVE MemberStep
    BY <1>0, <1>5 DEF Pick, MemberStep, PickedNow
<1>6. ASSUME NEW u \in User, NEW entries \in SUBSET list[u], Keep(u, entries) PROVE MemberStep
    BY <1>0, <1>6 DEF Keep, MemberStep
<1>7. CASE EndRound
    BY <1>7 DEF EndRound, RoundStep
<1>8. ASSUME NEW u \in User, NextMember(u) \/ ApplyFails(u) PROVE RoundStep
    BY <1>8 DEF NextMember, ApplyFails, RoundStep
<1>9. ASSUME NEW u \in User, NEW e \in round.due[u], NEW answer \in Answers, Ask(e, answer) PROVE RoundStep
    BY <1>9 DEF Ask, RoundStep
<1>10. ASSUME NEW token \in BOOLEAN, StartRound(token) PROVE RoundStep
    BY <1>10 DEF StartRound, RoundStep
<1>11. CASE UNCHANGED vars
    BY <1>0, <1>11 DEF vars, MemberStep
<1>. QED
    BY <1>1, <1>2, <1>3, <1>4, <1>5, <1>6, <1>7, <1>8, <1>9, <1>10, <1>11 DEF Next

\* The round after each of its steps, field by field.
LEMMA RoundEnded ==
    ASSUME TypeOK, EndRound
    PROVE  UNCHANGED <<now, list, round.at, round.due, round.user, round.out, round.checked>>
    BY DEF EndRound, TypeOK, Rounds

LEMMA RoundStarted ==
    ASSUME TypeOK, NEW token \in BOOLEAN, StartRound(token)
    PROVE  /\ round'.at = now /\ round'.due = [v \in User |-> DueOf(v)] /\ round'.user = NoUser
           /\ round'.checked = {v \in User : DueOf(v) = {}}
           /\ UNCHANGED <<now, list>>
    BY DEF StartRound, TypeOK, Rounds

LEMMA MemberAsked ==
    ASSUME TypeOK, NEW u \in User, NextMember(u)
    PROVE  /\ round'.user = u /\ round.due[u] # {} /\ \A c \in Char : round'.out[c] = "unasked"
           /\ UNCHANGED <<now, list, round.at, round.due, round.checked>>
    BY DEF NextMember, TypeOK, Rounds, Unasked

LEMMA CharAsked ==
    ASSUME TypeOK, NEW e, NEW answer, Ask(e, answer)
    PROVE  /\ round.user # NoUser /\ round.user \in User /\ e \in round.due[round.user]
           /\ round'.out = [round.out EXCEPT ![e.char] = Outcome(e, answer)]
           /\ UNCHANGED <<now, list, round.at, round.due, round.user, round.checked>>
    BY DEF Ask, TypeOK, Rounds

LEMMA MemberDone ==
    ASSUME TypeOK, NEW u \in User, Apply(u) \/ ApplyFails(u)
    PROVE  /\ round.on /\ round.user = u /\ round'.user = NoUser
           /\ round'.due = [round.due EXCEPT ![u] = {}]
           /\ round'.at = round.at /\ now' = now
           /\ round'.checked = IF Apply(u) THEN round.checked \union {u} ELSE round.checked
<1>. USE DEF TypeOK, Rounds
<1>1. CASE Apply(u)
    BY <1>1 DEF Apply
<1>2. CASE ApplyFails(u) /\ ~Apply(u)
    BY <1>2 DEF ApplyFails
<1>. QED
    BY <1>1, <1>2

LEMMA DueChanges ==
    ASSUME TypeOK, RoundStep \/ \E u \in User : Apply(u)
    PROVE  /\ round'.at \in {round.at, now}
           /\ \A v \in User : round'.due[v] \in {{}, round.due[v], DueOf(v)}
<1>0. round.due \in [User -> SUBSET Entries]
    BY DEF TypeOK, Rounds
<1>. DEFINE Goal == /\ round'.at \in {round.at, now}
                    /\ \A v \in User : round'.due[v] \in {{}, round.due[v], DueOf(v)}
<1>1. CASE EndRound
    BY <1>1, RoundEnded
<1>2. ASSUME NEW token \in BOOLEAN, StartRound(token) PROVE Goal
    BY <1>2, RoundStarted
<1>3. ASSUME NEW u \in User, NextMember(u) PROVE Goal
    BY <1>3, MemberAsked
<1>4. ASSUME NEW u \in User, Apply(u) \/ ApplyFails(u) PROVE Goal
  <2>1. round'.due = [round.due EXCEPT ![u] = {}] /\ round'.at = round.at
    BY <1>4, MemberDone, Zenon
  <2>. QED
    BY <1>0, <2>1
<1>5. ASSUME NEW e, NEW answer, Ask(e, answer) PROVE Goal
    BY <1>5, CharAsked
<1>. QED
    BY <1>1, <1>2, <1>3, <1>4, <1>5 DEF RoundStep

LEMMA ListsOnceStep ==
    ASSUME TypeOK, ListsOnce, [Next]_vars
    PROVE  ListsOnce'
<1>. USE DEF ListsOnce, Once
<1>1. CASE MemberStep
    BY <1>1 DEF MemberStep, PickedNow
<1>2. CASE RoundStep
  <2>1. list' = list
    BY <1>2 DEF RoundStep
  <2>2. \A v \in User : Once(DueOf(v))
    BY DEF DueOf
  <2>. QED
    BY <1>2, <2>1, <2>2, DueChanges
<1>3. ASSUME NEW u \in User, Apply(u) PROVE ListsOnce'
  <2>1. \A v \in User \ {u} : list'[v] = list[v]
    BY <1>3, Written
  <2>2. Once(list'[u])
    BY <1>3, Written
  <2>3. \A v \in User : Once(round'.due[v])
    BY <1>3, DueChanges DEF DueOf
  <2>. QED
    BY <2>1, <2>2, <2>3
<1>. QED
    BY <1>1, <1>2, <1>3, StepKinds

LEMMA DatesPastStep ==
    ASSUME TypeOK, TypeOK', DatesPast, [Next]_vars
    PROVE  DatesPast'
<1>. USE DEF DatesPast
<1>0. /\ now \in Nat /\ now' \in Nat /\ round.at \in Nat
      /\ \A u \in User : \A e \in list[u] : e.verifiedAt \in Nat
    BY DEF TypeOK, Rounds, Entries
<1>1. CASE MemberStep
    BY <1>0, <1>1 DEF MemberStep, PickedNow
<1>2. CASE RoundStep
  <2>1. round'.at \in {round.at, now}
    BY <1>2, DueChanges
  <2>. QED
    BY <1>0, <1>2, <2>1 DEF RoundStep
<1>3. ASSUME NEW u \in User, Apply(u) PROVE DatesPast'
  <2>1. now' = now /\ round'.at = round.at
    BY <1>3 DEF Apply, TypeOK, Rounds
  <2>2. \A f \in list'[u] : f.verifiedAt <= now
    BY <1>0, <1>3, Written
  <2>3. \A v \in User \ {u} : list'[v] = list[v]
    BY <1>3, Written
  <2>. QED
    BY <2>1, <2>2, <2>3
<1>. QED
    BY <1>1, <1>2, <1>3, StepKinds

LEMMA AskedAreDueStep ==
    ASSUME TypeOK, ListsOnce, AskedAreDue, [Next]_vars
    PROVE  AskedAreDue'
<1>. USE DEF AskedAreDue
<1>1. CASE MemberStep
    BY <1>1 DEF MemberStep
<1>2. CASE EndRound
    BY <1>2, RoundEnded
<1>3. ASSUME NEW token \in BOOLEAN, StartRound(token) PROVE AskedAreDue'
    BY <1>3, RoundStarted
<1>4. ASSUME NEW u \in User, NextMember(u) PROVE AskedAreDue'
    BY <1>4, MemberAsked DEF TypeOK, Rounds, Entries
<1>5. ASSUME NEW u \in User, ApplyFails(u) \/ Apply(u) PROVE AskedAreDue'
    BY <1>5, MemberDone
<1>6. ASSUME NEW u \in User, NEW e \in round.due[u], NEW answer \in Answers, Ask(e, answer)
      PROVE  AskedAreDue'
  <2>1. /\ e \in round.due[round.user] /\ round.user \in User /\ round.user # NoUser
        /\ round'.out = [round.out EXCEPT ![e.char] = Outcome(e, answer)]
        /\ UNCHANGED <<round.at, round.due, round.user>>
    BY <1>6, CharAsked
  <2>2. Outcome(e, answer) = "failed" => round.at <= e.verifiedAt + MaxAge
    BY <2>1, LinkConstants DEF Outcome, Answers, TypeOK, Rounds, Entries
  <2>4. ASSUME NEW f \in round.due[round.user], round'.out[f.char] = "failed"
        PROVE  round.at <= f.verifiedAt + MaxAge
    <3>1. CASE f.char = e.char
      BY <2>1, <2>2, <2>4, <3>1 DEF ListsOnce, Once, TypeOK, Rounds, Entries
    <3>2. CASE f.char # e.char
      BY <2>1, <2>4, <3>2 DEF TypeOK, Rounds
    <3>. QED
      BY <3>1, <3>2
  <2>. QED
    BY <2>1, <2>4
<1>. QED
    BY <1>1, <1>2, <1>3, <1>4, <1>5, <1>6, StepKinds DEF RoundStep

\* What is not due when the round begins is recent: an age of CheckAfter is no more than MaxAge.
LEMMA NotDueIsFresh ==
    ASSUME TypeOK, NEW u \in User, NEW e \in list[u], e \notin DueOf(u)
    PROVE  now <= e.verifiedAt + MaxAge
    BY LinkConstants DEF DueOf, TypeOK, Entries

LEMMA UnreadFreshStep ==
    ASSUME TypeOK, DatesPast, UnreadFresh, [Next]_vars
    PROVE  UnreadFresh'
<1>. USE DEF UnreadFresh
<1>0. round.at \in Nat /\ now \in Nat /\ MaxAge \in Nat /\ round.at <= now
    BY LinkConstants DEF TypeOK, Rounds, DatesPast
<1>1. CASE MemberStep
    BY <1>0, <1>1 DEF MemberStep, PickedNow
<1>2. CASE EndRound
    BY <1>2, RoundEnded
<1>3. ASSUME NEW token \in BOOLEAN, StartRound(token) PROVE UnreadFresh'
    BY <1>3, RoundStarted, NotDueIsFresh, Zenon
<1>4. ASSUME NEW u \in User, NextMember(u) PROVE UnreadFresh'
    BY <1>4, MemberAsked
<1>5. ASSUME NEW u \in User, ApplyFails(u) PROVE UnreadFresh'
    BY <1>5, MemberDone DEF ApplyFails, TypeOK, Rounds
<1>6. ASSUME NEW u \in User, Apply(u) PROVE UnreadFresh'
  <2>1. /\ round'.at = round.at /\ round'.due = [round.due EXCEPT ![u] = {}]
        /\ round.due \in [User -> SUBSET Entries]
    BY <1>6, MemberDone DEF TypeOK, Rounds
  <2>2. \A v \in User \ {u} : list'[v] = list[v]
    BY <1>6, Written
  <2>. QED
    BY <2>1, <2>2
<1>7. ASSUME NEW u \in User, NEW e \in round.due[u], NEW answer \in Answers, Ask(e, answer)
      PROVE  UnreadFresh'
    BY <1>7, CharAsked
<1>. QED
    BY <1>1, <1>2, <1>3, <1>4, <1>5, <1>6, <1>7, StepKinds DEF RoundStep

LEMMA RetentionStep ==
    ASSUME TypeOK, DatesPast, AskedAreDue, UnreadFresh, Retention, [Next]_vars
    PROVE  Retention'
<1>. USE DEF Retention
<1>0. round.at \in Nat /\ now \in Nat /\ MaxAge \in Nat /\ round.at <= now /\ round.checked \subseteq User
    BY LinkConstants DEF TypeOK, Rounds, DatesPast
<1>1. CASE MemberStep
    BY <1>0, <1>1 DEF MemberStep, PickedNow
<1>2. CASE EndRound
    BY <1>2, RoundEnded
<1>3. ASSUME NEW token \in BOOLEAN, StartRound(token) PROVE Retention'
    BY <1>3, RoundStarted, NotDueIsFresh, Zenon
<1>4. ASSUME NEW u \in User, NextMember(u) \/ (ApplyFails(u) /\ ~Apply(u)) PROVE Retention'
    BY <1>4, MemberAsked, MemberDone DEF ApplyFails
<1>5. ASSUME NEW u \in User, Apply(u) PROVE Retention'
  <2>1. ASSUME NEW f \in list'[u] PROVE round.at <= f.verifiedAt + MaxAge
    <3>1. PICK e \in list[u] :
             /\ ~Removes(e) /\ f = IF round.out[e.char] = "valid" THEN Confirmed(e) ELSE e
             /\ e.verifiedAt <= f.verifiedAt
             /\ f.verifiedAt = e.verifiedAt \/ f.verifiedAt = round.at
             /\ round.out[e.char] = "valid" => round.at <= f.verifiedAt
      BY <1>5, <2>1, Written
    <3>2. e.char \in Char /\ e.verifiedAt \in Nat /\ f.verifiedAt \in Nat
      BY <1>0, <3>1 DEF TypeOK, Entries
    <3>3. CASE round.out[e.char] = "valid"
      BY <1>0, <3>1, <3>2, <3>3
    <3>4. CASE e \notin round.due[u]
      <4>1. round.due[u] # {}
        BY <1>5, MemberDone, LinkConstants DEF AskedAreDue
      <4>2. round.at <= e.verifiedAt + MaxAge
        BY <3>1, <3>4, <4>1 DEF UnreadFresh
      <4>. QED
        BY <1>0, <3>1, <3>2, <4>2
    <3>5. CASE e \in round.due[u] /\ round.out[e.char] = "failed"
      BY <1>0, <1>5, <3>1, <3>2, <3>5, MemberDone, LinkConstants DEF AskedAreDue
    <3>. QED
      BY <1>5, <3>1, <3>2, <3>3, <3>4, <3>5 DEF Apply, Removes, TypeOK, Rounds, Outcomes
  <2>2. round'.at = round.at /\ round'.checked = round.checked \union {u}
    BY <1>5, MemberDone
  <2>3. \A v \in User \ {u} : list'[v] = list[v]
    BY <1>5, Written
  <2>. QED
    BY <1>0, <2>1, <2>2, <2>3
<1>6. ASSUME NEW u \in User, NEW e \in round.due[u], NEW answer \in Answers, Ask(e, answer)
      PROVE  Retention'
    BY <1>6, CharAsked
<1>. QED
    BY <1>1, <1>2, <1>3, <1>4, <1>5, <1>6, StepKinds DEF RoundStep

-----------------------------------------------------------------------------
(* The theorems.                                                           *)

LEMMA Start == Init => IInv
<1>. SUFFICES ASSUME Init PROVE IInv
    OBVIOUS
<1>1. TypeOK
    BY LinkConstants DEF Init, TypeOK, Rounds, Unasked, Outcomes, NothingDue, NoImport, NoCallback
<1>2. Owned
    BY DEF Init, Owned, CharsOf, NoImport
<1>. QED
    BY <1>1, <1>2 DEF Init, IInv, ListsOnce, Once, DatesPast, AskedAreDue, UnreadFresh, Retention, NothingDue

LEMMA Step == IInv /\ [Next]_vars => IInv'
    BY TypeStep, OwnedStep, ListsOnceStep, DatesPastStep, AskedAreDueStep, UnreadFreshStep, RetentionStep
       DEF IInv

LEMMA Invariant == Spec => []IInv
    BY Start, Step, PTL DEF Spec

\* Lists, imports, labels and the round are what they are declared to be.
THEOREM TypeCorrect == Spec => []TypeOK
    BY Invariant, PTL DEF IInv

\* However the callbacks of several members, their edits and the round's late answers
\* interleave, nothing of another account is kept and no account has two holders.
THEOREM KeptIsOwned == Spec => []Owned
    BY Invariant, PTL DEF IInv

\* Once the round is done with a member, nothing he keeps was older than the 30 days when
\* it began, though Blizzard never answers and the member edits his list meanwhile.
THEOREM NothingTooOld == Spec => []Retention
    BY Invariant, PTL DEF IInv

\* No step takes back the date of a check or of a pick.
THEOREM DatesForward == Spec => VerifiedForward
<1>1. ASSUME IInv, [Next]_vars, NEW u \in User, NEW e \in list[u], NEW f \in list'[u], e.char = f.char
      PROVE  e.verifiedAt <= f.verifiedAt
  <2>0. /\ TypeOK /\ now \in Nat /\ e.verifiedAt \in Nat /\ e.verifiedAt <= now
        /\ \A g \in list[u] : g.char = e.char => g = e
    BY <1>1 DEF IInv, TypeOK, Entries, DatesPast, ListsOnce, Once
  <2>1. CASE MemberStep
    BY <1>1, <2>0, <2>1 DEF MemberStep, PickedNow
  <2>2. CASE RoundStep
    BY <1>1, <2>0, <2>2 DEF RoundStep
  <2>3. ASSUME NEW v \in User, Apply(v) PROVE e.verifiedAt <= f.verifiedAt
    BY <1>1, <2>0, <2>3, Written
  <2>. QED
    BY <1>1, <2>0, <2>1, <2>2, <2>3, StepKinds
<1>2. IInv /\ [Next]_vars =>
        [\A u \in User : \A e \in list[u] : \A f \in list'[u] :
           e.char = f.char => e.verifiedAt <= f.verifiedAt]_vars
    BY <1>1
<1>. QED
    BY <1>2, Invariant, PTL DEF Spec, VerifiedForward
=============================================================================
