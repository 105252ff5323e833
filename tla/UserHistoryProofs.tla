-------------------------- MODULE UserHistoryProofs --------------------------
(***************************************************************************)
(* The tabs, the aliases and the sharing of the members' histories, for    *)
(* any number of members, characters, levels and rows.  The argument is    *)
(* about the two tables: a key has one row and an auto request one alias,  *)
(* an alias leads to a row that is no older than itself, a badge has its   *)
(* alias, and the eviction after a write takes both or neither.            *)
(***************************************************************************)
EXTENDS UserHistory, FiniteSetTheorems, WellFoundedInduction, TLAPS

-----------------------------------------------------------------------------
(* The inductive invariant, of the two tables.                              *)

SameTab(a, r) == a.user = r.user /\ a.who = r.who /\ a.level = r.level

\* PRIMARY KEY (user_id, key), and the order of a member's rows.
Keyed(T) ==
    \A r, s \in T : r.user = s.user /\ (r.seq = s.seq \/ (r.who = s.who /\ r.level = s.level)) => r = s
OneAlias(A) == \A a, b \in A : a.user = b.user /\ a.who = b.who => a = b
Capped(T) == \A v \in User : Cardinality(Of(T, v)) <= MaxRows

\* The two halves of AliasTabs; and a row is no older than the alias that leads to it.
Leads(A, T) == \A a \in A : \E r \in T : SameTab(a, r)
Badged(A, T) == \A r \in T : r.auto => \E a \in A : SameTab(a, r)
Dated(A, T) == \A a \in A, r \in T : SameTab(a, r) => a.setAt <= r.fetchedAt

\* A payload, and what was derived from it, is of the fetch that dates it.
Honest(T) == \A r \in T : r.fetched = r.fetchedAt /\ r.summary = r.fetched

Tables(T, A) ==
    /\ T \subseteq Rows /\ IsFiniteSet(T) /\ A \subseteq Aliases
    /\ Keyed(T) /\ OneAlias(A)
    /\ Leads(A, T) /\ Badged(A, T) /\ Dated(A, T) /\ Honest(T)

IInv ==
    /\ now \in Nat /\ now <= MaxTime /\ Tables(rows, aliases) /\ Capped(rows)
    /\ \A r \in rows : r.fetchedAt <= now
    /\ reads \subseteq Reads /\ \A q \in reads : q.fetched = q.fetchedAt

LEMMA InvType == IInv => TypeOK
<1>. SUFFICES ASSUME IInv PROVE TypeOK
    OBVIOUS
<1>1. \A r, s \in rows : r.user = s.user /\ (r.seq = s.seq \/ <<r.who, r.level>> = <<s.who, s.level>>) => r = s
    BY DEF IInv, Tables, Keyed
<1>2. \A a, b \in aliases : a.user = b.user /\ a.who = b.who => a = b
    BY DEF IInv, Tables, OneAlias
<1>3. \A u \in User : Cardinality(Of(rows, u)) <= MaxRows
    BY DEF IInv, Capped
<1>4. now \in Nat /\ rows \subseteq Rows /\ aliases \subseteq Aliases /\ reads \subseteq Reads
    BY DEF IInv, Tables
<1>. QED
    BY <1>1, <1>2, <1>3, <1>4 DEF TypeOK

LEMMA InvAliasTabs == IInv => AliasTabs
<1>. SUFFICES ASSUME IInv PROVE AliasTabs
    OBVIOUS
<1>1. \A a \in aliases : At(rows, a.user, a.who, a.level) # {}
    BY DEF IInv, Tables, Leads, SameTab, At
<1>2. \A r \in rows : r.auto => \E a \in AliasOf(r.user, r.who) : a.level = r.level
    BY DEF IInv, Tables, Badged, SameTab, AliasOf
<1>. QED
    BY <1>1, <1>2 DEF AliasTabs

-----------------------------------------------------------------------------
(* The eviction of a write.                                                 *)

\* A non-empty set of numbered rows has one of the smallest number.
LEMMA OldestExists ==
    ASSUME NEW T, T # {}, \A r \in T : r.seq \in Nat
    PROVE  \E m \in T : \A r \in T : m.seq <= r.seq
<1>. DEFINE S == {r.seq : r \in T}
<1>1. S \subseteq Nat /\ S # {}
    OBVIOUS
<1>2. PICK n \in S : \A k \in S : ~(<<k, n>> \in OpToRel(<, Nat))
  <2>. HIDE DEF S
  <2>. QED
    BY <1>1, WFMin, NatLessThanWellFounded, Zenon
<1>3. PICK m \in T : m.seq = n
    OBVIOUS
<1>4. ASSUME NEW r \in T PROVE m.seq <= r.seq
  <2>1. r.seq \in S /\ r.seq \in Nat /\ n \in Nat
    BY <1>1, <1>3
  <2>2. ~(r.seq < n)
    BY <1>2, <2>1 DEF OpToRel
  <2>. QED
    BY <1>3, <2>1, <2>2
<1>. QED
    BY <1>4

\* Of a member's rows, at most MaxRows have fewer than MaxRows newer ones.
LEMMA EvictionCaps ==
    ASSUME NEW T, IsFiniteSet(T), T \subseteq Rows, Keyed(T), NEW u \in User
    PROVE  Cardinality(Of(T \ Past(T, u), u)) <= MaxRows
<1>. DEFINE Newer(r) == {s \in Of(T, u) : s.seq > r.seq}
            K == Of(T \ Past(T, u), u)
<1>. USE HistoryConstants DEF HistoryConstants
<1>1. /\ K \in SUBSET T /\ Of(T, u) \in SUBSET T
      /\ \A r \in T : r.seq \in Nat
    BY DEF Of, Rows
<1>2. IsFiniteSet(K) /\ Cardinality(K) \in Nat /\ IsFiniteSet(Of(T, u))
    BY <1>1, FS_Subset, FS_CardinalityType
<1>3. CASE K = {}
  <2>1. Cardinality(K) = 0
    BY <1>3, FS_EmptySet
  <2>. QED
    BY <2>1
<1>4. CASE K # {}
  <2>1. PICK m \in K : \A r \in K : m.seq <= r.seq
    BY <1>1, <1>4, OldestExists
  <2>2. Newer(m) \in SUBSET Of(T, u)
    OBVIOUS
  <2>3. IsFiniteSet(Newer(m)) /\ Cardinality(Newer(m)) \in Nat
    BY <1>2, <2>2, FS_Subset, FS_CardinalityType
  <2>4. ~(Cardinality(Newer(m)) >= MaxRows)
    BY <2>1 DEF Past, Of
  <2>5. K \ {m} \in SUBSET Newer(m)
    <3>1. SUFFICES ASSUME NEW r \in K, r # m PROVE r \in Newer(m)
        OBVIOUS
    <3>2. r \in T /\ m \in T /\ r.user = u /\ m.user = u /\ r \in Of(T, u)
        BY <3>1 DEF Of
    <3>3. r.seq # m.seq
        BY <3>1, <3>2 DEF Keyed
    <3>4. m.seq <= r.seq /\ m.seq \in Nat /\ r.seq \in Nat
        BY <1>1, <2>1, <3>2
    <3>5. r.seq > m.seq
        BY <3>3, <3>4
    <3>. QED
        BY <3>2, <3>5
  <2>6. Cardinality(K \ {m}) <= Cardinality(Newer(m))
    BY <2>3, <2>5, FS_Subset
  <2>7. Cardinality(K \ {m}) = Cardinality(K) - 1
    BY <1>2, <2>1, FS_RemoveElement
  <2>. HIDE DEF K, Newer
  <2>8. Cardinality(K) <= MaxRows
    BY <1>2, <2>3, <2>4, <2>6, <2>7
  <2>. QED
    BY <2>8 DEF K
<1>. QED
    BY <1>3, <1>4

\* Rows that go take the aliases that led to them, and no other: the tables stay whole.
LEMMA ForgettingKeeps ==
    ASSUME NEW T, NEW A, Tables(T, A), NEW G \in SUBSET T
    PROVE  Tables(T \ G, Forgotten(A, G))
<1>. DEFINE B == Forgotten(A, G)
            U == T \ G
<1>1. B \subseteq A /\ \A a \in B, r \in G : ~SameTab(a, r)
    BY DEF Forgotten, SameTab
<1>2. U \subseteq Rows /\ IsFiniteSet(U) /\ B \subseteq Aliases
    BY <1>1, FS_Subset DEF Tables
<1>3. Keyed(U) /\ OneAlias(B) /\ Dated(B, U) /\ Honest(U)
    BY <1>1 DEF Tables, Keyed, OneAlias, Dated, Honest
<1>4. Leads(B, U)
    BY <1>1 DEF Tables, Leads
<1>5. Badged(B, U)
  <2>. SUFFICES ASSUME NEW r \in U, r.auto PROVE \E a \in B : SameTab(a, r)
    BY DEF Badged
  <2>1. PICK a \in A : SameTab(a, r)
    BY DEF Tables, Badged
  <2>2. ASSUME NEW g \in G, g.user = a.user, g.who = a.who, g.level = a.level PROVE FALSE
    <3>1. g.user = r.user /\ g.who = r.who /\ g.level = r.level
        BY <2>1, <2>2 DEF SameTab
    <3>2. g = r
        BY <3>1 DEF Tables, Keyed
    <3>. QED
        BY <2>2, <3>2
  <2>3. a \in B
    BY <2>2 DEF Forgotten
  <2>. QED
    BY <2>1, <2>3
<1>. QED
    BY <1>2, <1>3, <1>4, <1>5 DEF Tables

-----------------------------------------------------------------------------
(* The steps.                                                               *)

LEMMA StaleRow ==
    ASSUME NEW u, NEW w, NEW asked, NEW level, NEW r \in rows
    PROVE  r \in StaleAuto(u, w, asked, level) <=>
             /\ asked = NoLevel /\ r.user = u /\ r.who = w /\ r.level # level /\ r.auto
             /\ \E a \in AliasOf(u, w) : a.level = r.level
    BY Zenon DEF StaleAuto

\* What a write keeps of the rows, the alias and the row it adds, and the aliases with its own.
Kept(u, w, asked, level) == rows \ (StaleAuto(u, w, asked, level) \union At(rows, u, w, level))
NewAlias(u, w, level, at) == [user |-> u, who |-> w, level |-> level, setAt |-> at]
NewRow(u, w, asked, level, at, n) ==
    [user |-> u, who |-> w, level |-> level, auto |-> (asked = NoLevel),
     fetchedAt |-> at, seq |-> n, fetched |-> at, summary |-> at]
Pointed(u, w, asked, level, at) ==
    IF asked = NoLevel THEN (aliases \ AliasOf(u, w)) \union {NewAlias(u, w, level, at)} ELSE aliases

\* What write stores before it evicts: the stale auto row is gone, the row and the alias
\* are the new ones.
LEMMA StoringKeeps ==
    ASSUME IInv, NEW u \in User, NEW w \in Who, NEW asked \in Level \union {NoLevel},
           NEW level \in Level, asked \in {NoLevel, level}, NEW at \in Nat, NEW n \in Nat,
           IsNextSeq(rows \ StaleAuto(u, w, asked, level), u, n),
           \A a \in aliases : asked # NoLevel /\ a.user = u /\ a.who = w /\ a.level = level => a.setAt <= at
    PROVE  Tables(Kept(u, w, asked, level) \union {NewRow(u, w, asked, level, at, n)},
                  Pointed(u, w, asked, level, at))
<1>. DEFINE alias == NewAlias(u, w, level, at)
            row == NewRow(u, w, asked, level, at, n)
<1>. alias \in Aliases /\ alias.user = u /\ alias.who = w /\ alias.level = level /\ alias.setAt = at
    BY DEF Aliases, NewAlias
<1>. /\ row \in Rows /\ row.user = u /\ row.who = w /\ row.level = level
     /\ row.auto = (asked = NoLevel) /\ row.fetchedAt = at /\ row.seq = n
     /\ row.fetched = at /\ row.summary = at
    BY DEF Rows, NewRow
<1>. DEFINE kept == rows \ (StaleAuto(u, w, asked, level) \union At(rows, u, w, level))
            pointed == IF asked = NoLevel THEN (aliases \ AliasOf(u, w)) \union {alias} ELSE aliases
            stored == kept \union {row}
<1>. HIDE DEF alias, row
<1>0. /\ Tables(rows, aliases) /\ rows \subseteq Rows /\ aliases \subseteq Aliases
      /\ Keyed(rows) /\ OneAlias(aliases) /\ Leads(aliases, rows) /\ Badged(aliases, rows)
      /\ Dated(aliases, rows) /\ Honest(rows) /\ IsFiniteSet(rows)
    BY DEF IInv, Tables
<1>1. /\ kept \subseteq rows
      /\ \A r \in kept : ~(r.user = u /\ r.who = w /\ r.level = level)
      /\ \A r \in kept : r.user = u => r.seq < n
  <2>1. kept \subseteq rows /\ \A r \in kept : ~(r.user = u /\ r.who = w /\ r.level = level)
    BY DEF At
  <2>2. \A r \in kept : r.user = u => r.seq < n
    BY DEF IsNextSeq, Of
  <2>. QED
    BY <2>1, <2>2
<1>2. /\ asked # NoLevel => asked = level
      /\ \A r \in rows : r \in StaleAuto(u, w, asked, level) => asked = NoLevel /\ r.user = u /\ r.who = w
    BY StaleRow
<1>3. asked = NoLevel => \A r \in kept : r.user = u /\ r.who = w =>
                        ~(r.auto /\ \E a \in aliases : SameTab(a, r))
  <2>. SUFFICES ASSUME asked = NoLevel, NEW r \in kept, r.user = u, r.who = w, r.auto,
                       NEW a \in aliases, SameTab(a, r)
                PROVE  FALSE
    OBVIOUS
  <2>1. r.level # level /\ r \in rows
    BY <1>1
  <2>2. a \in AliasOf(u, w) /\ a.level = r.level
    BY DEF AliasOf, SameTab
  <2>3. r \in StaleAuto(u, w, asked, level)
    BY <2>1, <2>2 DEF StaleAuto
  <2>. QED
    BY <2>3
<1>4. IF asked = NoLevel
      THEN pointed = {a \in aliases : ~(a.user = u /\ a.who = w)} \union {alias}
      ELSE pointed = aliases
    BY DEF AliasOf
<1>. HIDE DEF kept, pointed
<1>5. stored \subseteq Rows /\ IsFiniteSet(stored) /\ pointed \subseteq Aliases
  <2>1. IsFiniteSet(kept)
    BY <1>0, <1>1, FS_Subset
  <2>2. IsFiniteSet(stored)
    BY <2>1, FS_AddElement
  <2>3. pointed \subseteq Aliases
    BY <1>0, <1>4
  <2>. QED
    BY <1>0, <1>1, <2>2, <2>3
<1>6. Keyed(stored)
  <2>. SUFFICES ASSUME NEW r \in stored, NEW s \in stored, r.user = s.user,
                       r.seq = s.seq \/ (r.who = s.who /\ r.level = s.level)
                PROVE  r = s
    BY DEF Keyed
  <2>1. CASE r \in kept /\ s \in kept
    BY <1>0, <1>1, <2>1 DEF Keyed
  <2>2. \A k \in kept : k.user = u => k.seq # n
    <3>1. \A k \in kept : k.seq \in Nat
        BY <1>0, <1>1 DEF Rows
    <3>. QED
        BY <1>1, <3>1
  <2>3. CASE r = row /\ s \in kept
    BY <1>1, <2>2, <2>3
  <2>4. CASE s = row /\ r \in kept
    BY <1>1, <2>2, <2>4
  <2>. QED
    BY <2>1, <2>3, <2>4
<1>7. OneAlias(pointed)
    BY <1>0, <1>4 DEF OneAlias
<1>8. Leads(pointed, stored)
  <2>. SUFFICES ASSUME NEW a \in pointed PROVE \E r \in stored : SameTab(a, r)
    BY DEF Leads
  <2>1. CASE a.user = u /\ a.who = w /\ a.level = level
    BY <2>1 DEF SameTab
  <2>2. CASE ~(a.user = u /\ a.who = w /\ a.level = level)
    <3>1. a \in aliases /\ (asked = NoLevel => ~(a.user = u /\ a.who = w))
        BY <1>4, <2>2
    <3>2. PICK r \in rows : SameTab(a, r)
        BY <1>0, <3>1 DEF Leads
    <3>3. r \notin At(rows, u, w, level)
        BY <2>2, <3>2 DEF At, SameTab
    <3>4. r \notin StaleAuto(u, w, asked, level)
        BY <1>2, <3>1, <3>2 DEF SameTab
    <3>5. r \in kept
        BY <3>3, <3>4 DEF kept
    <3>. QED
        BY <3>2, <3>5
  <2>. QED
    BY <2>1, <2>2
<1>9. Badged(pointed, stored)
  <2>. SUFFICES ASSUME NEW r \in stored, r.auto PROVE \E a \in pointed : SameTab(a, r)
    BY DEF Badged
  <2>1. CASE r = row
    BY <1>4, <2>1 DEF SameTab
  <2>2. CASE r \in kept
    <3>1. PICK a \in aliases : SameTab(a, r)
        BY <1>0, <1>1, <2>2 DEF Badged
    <3>2. asked = NoLevel => ~(r.user = u /\ r.who = w)
        BY <1>3, <2>2, <3>1
    <3>3. a \in pointed
        BY <1>4, <3>1, <3>2 DEF SameTab
    <3>. QED
        BY <3>1, <3>3
  <2>. QED
    BY <2>1, <2>2
<1>10. Dated(pointed, stored)
  <2>. SUFFICES ASSUME NEW a \in pointed, NEW r \in stored, SameTab(a, r)
                PROVE  a.setAt <= r.fetchedAt
    BY DEF Dated
  <2>1. CASE r \in kept
    <3>1. a # alias
        BY <1>1, <2>1 DEF SameTab
    <3>2. a \in aliases
        BY <1>4, <3>1
    <3>. QED
        BY <1>0, <1>1, <2>1, <3>2 DEF Dated
  <2>2. CASE r = row
    <3>1. CASE a = alias
        BY <2>2, <3>1
    <3>2. CASE a # alias
      <4>1. a \in aliases /\ asked # NoLevel
        BY <1>4, <2>2, <3>2 DEF SameTab
      <4>. QED
        BY <2>2, <4>1 DEF SameTab
    <3>. QED
        BY <3>1, <3>2
  <2>. QED
    BY <2>1, <2>2
<1>11. Honest(stored)
    BY <1>0, <1>1 DEF Honest
<1>12. Tables(stored, pointed)
    BY <1>5, <1>6, <1>7, <1>8, <1>9, <1>10, <1>11 DEF Tables
<1>. QED
    BY <1>12, Zenon DEF kept, pointed, alias, row, Kept, Pointed

\* write as a whole: whatever is evicted, the tables stay whole and within the cap.
LEMMA WriteKeeps ==
    ASSUME IInv, NEW u \in User, NEW w \in Who, NEW asked \in Level \union {NoLevel},
           NEW level \in Level, asked \in {NoLevel, level}, NEW at \in Nat, at <= now,
           Write(u, w, asked, level, at, at),
           \A a \in aliases : asked # NoLevel /\ a.user = u /\ a.who = w /\ a.level = level => a.setAt <= at
    PROVE  /\ IInv'
           /\ \A r \in rows' : \/ r \in rows
                               \/ r.user = u /\ r.who = w /\ r.level = level /\ r.fetched = at
<1>. USE HistoryConstants DEF HistoryConstants
<1>. DEFINE kept == Kept(u, w, asked, level)
            pointed == Pointed(u, w, asked, level, at)
            newRow(n) == NewRow(u, w, asked, level, at, n)
<1>1. PICK n \in 1..MaxSeq :
        /\ IsNextSeq(rows \ StaleAuto(u, w, asked, level), u, n)
        /\ rows' = (kept \union {newRow(n)}) \ Past(kept \union {newRow(n)}, u)
        /\ aliases' = Forgotten(pointed, Past(kept \union {newRow(n)}, u))
        /\ UNCHANGED <<now, reads>>
    BY Zenon DEF Write, AliasDate, Kept, Pointed, NewRow, NewAlias
<1>. DEFINE new == newRow(n)
            stored == kept \union {new}
            gone == Past(stored, u)
<1>3. n \in Nat /\ (asked = NoLevel) \in BOOLEAN
    OBVIOUS
<1>4. /\ new \in Rows /\ new.user = u /\ new.who = w /\ new.level = level
      /\ new.auto = (asked = NoLevel) /\ new.fetchedAt = at /\ new.seq = n
      /\ new.fetched = at /\ new.summary = at
    BY <1>3 DEF Rows, NewRow
<1>5. Tables(stored, pointed)
  <2>1. IsNextSeq(rows \ StaleAuto(u, w, asked, level), u, n)
    BY <1>1
  <2>. QED
    BY <1>3, <2>1, StoringKeeps, Zenon
<1>6. gone \subseteq stored /\ \A r \in gone : r.user = u
    BY DEF Past, Of
<1>. HIDE DEF new, kept, pointed
<1>7. rows' = stored \ gone /\ aliases' = Forgotten(pointed, gone) /\ now' = now /\ reads' = reads
    BY <1>1 DEF new, kept, pointed
<1>8. Tables(rows', aliases')
  <2>. HIDE DEF gone, stored
  <2>1. Tables(stored \ gone, Forgotten(pointed, gone))
    BY <1>5, <1>6, ForgettingKeeps
  <2>. QED
    BY <1>7, <2>1
<1>9. Capped(rows')
  <2>. SUFFICES ASSUME NEW v \in User PROVE Cardinality(Of(rows', v)) <= MaxRows
    BY DEF Capped
  <2>1. CASE v = u
    <3>1. Cardinality(Of(stored \ Past(stored, u), u)) <= MaxRows
      <4>. HIDE DEF stored
      <4>. QED
        BY <1>5, EvictionCaps DEF Tables
    <3>. QED
        BY <1>7, <2>1, <3>1
  <2>2. CASE v # u
    <3>1. \A r \in rows : r.user = v => r \in kept
        BY <2>2, StaleRow DEF kept, Kept, At
    <3>2. Of(rows', v) = Of(rows, v)
        BY <1>4, <1>6, <1>7, <2>2, <3>1 DEF Of, kept, Kept
    <3>. QED
        BY <3>2 DEF IInv, Capped
  <2>. QED
    BY <2>1, <2>2
<1>10. \A r \in rows' : r \in rows \/ r = new
    BY <1>7 DEF kept, Kept
<1>11. \A r \in rows' : r.fetchedAt <= now
    BY <1>4, <1>10 DEF IInv
<1>12. IInv'
    BY <1>7, <1>8, <1>9, <1>11 DEF IInv
<1>. QED
    BY <1>4, <1>10, <1>12

\* A lookup that fetched: its row is dated now.
LEMMA RecordWrites ==
    ASSUME IInv, NEW u \in User, NEW w \in Who, NEW asked \in Level \union {NoLevel},
           NEW level \in Level, Record(u, w, asked, level)
    PROVE  /\ asked \in {NoLevel, level} /\ Write(u, w, asked, level, now, now)
           /\ \A a \in aliases : a.setAt <= now
<1>1. asked \in {NoLevel, level} /\ Write(u, w, asked, level, now, now)
    BY DEF Record
<1>2. ASSUME NEW a \in aliases PROVE a.setAt <= now
  <2>1. PICK r \in rows : SameTab(a, r)
    BY DEF IInv, Tables, Leads
  <2>2. a.setAt <= r.fetchedAt /\ r.fetchedAt <= now
    BY <2>1 DEF IInv, Tables, Dated
  <2>3. a.setAt \in Nat /\ r.fetchedAt \in Nat /\ now \in Nat
    BY DEF IInv, Tables, Rows, Aliases
  <2>. QED
    BY <2>2, <2>3
<1>. QED
    BY <1>1, <1>2

LEMMA RecordKeeps ==
    ASSUME IInv, NEW u \in User, NEW w \in Who, NEW asked \in Level \union {NoLevel},
           NEW level \in Level, Record(u, w, asked, level)
    PROVE  IInv' /\ \A r \in rows' : r \in rows \/ r.fetched = now
<1>1. now \in Nat /\ now <= now
    BY DEF IInv
<1>. QED
    BY <1>1, RecordWrites, WriteKeeps

\* A copy of another member's fresh row carries that row's date.
LEMMA CopyWrites ==
    ASSUME IInv, NEW u \in User, NEW w \in Who, NEW asked \in Level \union {NoLevel},
           Copy(u, w, asked)
    PROVE  \E level \in Level, at \in Nat :
             /\ at <= now /\ at >= now - Ttl
             /\ asked \in {NoLevel, level} /\ Write(u, w, asked, level, at, at)
             /\ \A a \in aliases : asked # NoLevel /\ a.user = u /\ a.who = w /\ a.level = level => a.setAt <= at
<1>. USE HistoryConstants DEF HistoryConstants
<1>0. PICK level \in Level :
        /\ SharedLevel(w, asked, level)
        /\ \E r \in Shared(u, w, level) : Write(u, w, asked, level, r.fetchedAt, r.fetched)
    BY DEF Copy, CopyDate
<1>1. PICK r \in Shared(u, w, level) :
        SharedLevel(w, asked, level) /\ Write(u, w, asked, level, r.fetchedAt, r.fetched)
    BY <1>0
<1>2. /\ r \in rows /\ r.fetchedAt >= now - Ttl
      /\ r.fetchedAt \in Nat /\ r.fetchedAt <= now /\ r.fetched = r.fetchedAt
    BY DEF Shared, Fresh, IInv, Tables, Rows, Honest
<1>3. asked \in {NoLevel, level}
    BY <1>1 DEF SharedLevel
<1>4. asked # NoLevel =>
        \A a \in aliases : ~(a.user = u /\ a.who = w /\ a.level = level)
  <2>. SUFFICES ASSUME asked # NoLevel, NEW a \in aliases,
                       a.user = u, a.who = w, a.level = level
                PROVE  FALSE
    OBVIOUS
  <2>1. PICK s \in rows : SameTab(a, s)
    BY DEF IInv, Tables, Leads
  <2>2. s \in Own(u, w, asked)
    BY <1>3, <2>1 DEF Own, SameTab
  <2>. QED
    BY <2>2 DEF Copy
<1>5. Write(u, w, asked, level, r.fetchedAt, r.fetchedAt)
    BY <1>1, <1>2
<1>. QED
    BY <1>2, <1>3, <1>4, <1>5

LEMMA CopyKeeps ==
    ASSUME IInv, NEW u \in User, NEW w \in Who, NEW asked \in Level \union {NoLevel},
           Copy(u, w, asked)
    PROVE  IInv' /\ \A r \in rows' : r \in rows \/ r.fetched >= now - Ttl
<1>1. PICK level \in Level, at \in Nat :
         /\ at <= now /\ at >= now - Ttl
         /\ asked \in {NoLevel, level} /\ Write(u, w, asked, level, at, at)
         /\ \A a \in aliases : asked # NoLevel /\ a.user = u /\ a.who = w /\ a.level = level => a.setAt <= at
    BY CopyWrites
<1>2. IInv' /\ \A s \in rows' : s \in rows \/ s.fetched = at
    BY <1>1, WriteKeeps
<1>. QED
    BY <1>1, <1>2

\* A hit moves its row to the end of the order, and nothing else.
LEMMA TouchKeeps ==
    ASSUME IInv, NEW u \in User, NEW w \in Who, NEW asked \in Level \union {NoLevel},
           Touch(u, w, asked)
    PROVE  /\ IInv'
           /\ \A s \in rows' : \E r \in rows : SameTab(s, r) /\ s.fetched = r.fetched
<1>1. PICK r \in Own(u, w, asked), n \in 1..MaxSeq :
        /\ IsNextSeq(rows, u, n)
        /\ rows' = (rows \ {r}) \union {[r EXCEPT !.seq = n]}
        /\ UNCHANGED <<now, aliases, reads>>
    BY DEF Touch, Touched
<1>2. r \in rows /\ r \in Rows /\ r.user = u /\ n \in Nat /\ rows \subseteq Rows
    BY DEF Own, IInv, Tables
<1>. DEFINE t == [r EXCEPT !.seq = n]
<1>3. /\ t \in Rows /\ t.user = u /\ t.who = r.who /\ t.level = r.level /\ t.auto = r.auto
      /\ t.fetchedAt = r.fetchedAt /\ t.seq = n /\ t.fetched = r.fetched /\ t.summary = r.summary
    BY <1>2 DEF Rows
<1>. HIDE DEF t
<1>4. rows' = (rows \ {r}) \union {t} /\ now' = now /\ aliases' = aliases /\ reads' = reads
    BY <1>1 DEF t
<1>5. \A s \in rows : s.user = u => s.seq < n /\ s.seq \in Nat
    BY <1>1, <1>2 DEF IsNextSeq, Of, Rows
<1>6. \A s \in rows : SameTab(s, r) => s = r
    BY <1>2 DEF IInv, Tables, Keyed, SameTab
<1>7. /\ Tables(rows, aliases) /\ Keyed(rows) /\ OneAlias(aliases) /\ Leads(aliases, rows)
      /\ Badged(aliases, rows) /\ Dated(aliases, rows) /\ Honest(rows) /\ IsFiniteSet(rows)
      /\ aliases \subseteq Aliases
    BY DEF IInv, Tables
<1>8. rows' \subseteq Rows /\ IsFiniteSet(rows')
  <2>1. IsFiniteSet(rows \ {r})
    BY <1>7, FS_RemoveElement
  <2>. QED
    BY <1>2, <1>3, <1>4, <2>1, FS_AddElement
<1>9. Keyed(rows')
  <2>. SUFFICES ASSUME NEW p \in rows', NEW q \in rows', p.user = q.user,
                       p.seq = q.seq \/ (p.who = q.who /\ p.level = q.level)
                PROVE  p = q
    BY DEF Keyed
  <2>1. CASE p # t /\ q # t
    BY <1>4, <1>7, <2>1 DEF Keyed
  <2>2. ASSUME NEW s \in rows \ {r}, s.user = u PROVE s.seq # n /\ ~(s.who = t.who /\ s.level = t.level)
    <3>1. s.seq # n
        BY <1>2, <1>5, <2>2
    <3>2. ~SameTab(s, r)
        BY <1>6, <2>2
    <3>. QED
        BY <1>2, <1>3, <2>2, <3>1, <3>2 DEF SameTab
  <2>3. CASE p = t /\ q # t
    BY <1>3, <1>4, <2>2, <2>3
  <2>4. CASE p # t /\ q = t
    BY <1>3, <1>4, <2>2, <2>4
  <2>. QED
    BY <2>1, <2>3, <2>4
<1>10. \A a \in aliases : SameTab(a, t) <=> SameTab(a, r)
    BY <1>2, <1>3 DEF SameTab
<1>11. Leads(aliases, rows')
    BY <1>4, <1>7, <1>10 DEF Leads
<1>12. Badged(aliases, rows')
  <2>. SUFFICES ASSUME NEW s \in rows', s.auto PROVE \E a \in aliases : SameTab(a, s)
    BY DEF Badged
  <2>1. CASE s = t
    <3>1. r.auto
        BY <1>3, <2>1
    <3>2. PICK a \in aliases : SameTab(a, r)
        BY <1>2, <1>7, <3>1 DEF Badged
    <3>. QED
        BY <1>10, <2>1, <3>2
  <2>2. CASE s # t
    BY <1>4, <1>7, <2>2 DEF Badged
  <2>. QED
    BY <2>1, <2>2
<1>13. Dated(aliases, rows')
  <2>. SUFFICES ASSUME NEW a \in aliases, NEW s \in rows', SameTab(a, s)
                PROVE  a.setAt <= s.fetchedAt
    BY DEF Dated
  <2>1. CASE s = t
    BY <1>2, <1>3, <1>7, <1>10, <2>1 DEF Dated
  <2>2. CASE s # t
    BY <1>4, <1>7, <2>2 DEF Dated
  <2>. QED
    BY <2>1, <2>2
<1>14. Honest(rows') /\ \A s \in rows' : s.fetchedAt <= now
    BY <1>2, <1>3, <1>4, <1>7 DEF Honest, IInv
<1>15. Capped(rows')
  <2>. SUFFICES ASSUME NEW v \in User PROVE Cardinality(Of(rows', v)) <= MaxRows
    BY DEF Capped
  <2>1. Cardinality(Of(rows, v)) <= MaxRows
    BY DEF IInv, Capped
  <2>2. CASE v # u
    <3>1. Of(rows', v) = Of(rows, v)
        BY <1>2, <1>3, <1>4, <2>2 DEF Of
    <3>. QED
        BY <2>1, <3>1
  <2>3. CASE v = u
    <3>1. Of(rows', v) = (Of(rows, v) \ {r}) \union {t} /\ r \in Of(rows, v)
        BY <1>2, <1>3, <1>4, <2>3 DEF Of
    <3>2. t \notin Of(rows, v) \ {r}
        BY <1>3, <1>5, <1>2, <2>3 DEF Of
    <3>3. IsFiniteSet(Of(rows, v)) /\ Of(rows, v) \in SUBSET rows
        BY <1>7, FS_Subset DEF Of
    <3>. DEFINE O == Of(rows, v)
    <3>. HIDE DEF O
    <3>4. IsFiniteSet(O \ {r}) /\ Cardinality(O \ {r}) = Cardinality(O) - 1
        BY <3>1, <3>3, FS_RemoveElement DEF O
    <3>5. Cardinality((O \ {r}) \union {t}) = Cardinality(O \ {r}) + 1
        BY <3>2, <3>4, FS_AddElement DEF O
    <3>6. Cardinality(O) \in Nat
        BY <3>3, FS_CardinalityType DEF O
    <3>7. Cardinality((O \ {r}) \union {t}) = Cardinality(O)
        BY <3>4, <3>5, <3>6
    <3>. QED
        BY <2>1, <3>1, <3>7 DEF O
  <2>. QED
    BY <2>2, <2>3
<1>16. Tables(rows', aliases)
    BY <1>7, <1>8, <1>9, <1>11, <1>12, <1>13, <1>14 DEF Tables
<1>17. IInv'
    BY <1>4, <1>14, <1>15, <1>16 DEF IInv
<1>18. \A s \in rows' : \E q \in rows : SameTab(s, q) /\ s.fetched = q.fetched
    BY <1>2, <1>3, <1>4 DEF SameTab
<1>. QED
    BY <1>17, <1>18

\* Fewer rows are within the cap.
LEMMA FewerCapped ==
    ASSUME NEW T, IsFiniteSet(T), Capped(T), NEW S \in SUBSET T
    PROVE  Capped(S)
<1>. SUFFICES ASSUME NEW v \in User PROVE Cardinality(Of(S, v)) <= MaxRows
    BY DEF Capped
<1>1. Of(T, v) \in SUBSET T /\ Of(S, v) \in SUBSET Of(T, v)
    BY DEF Of
<1>2. IsFiniteSet(Of(T, v))
    BY <1>1, FS_Subset
<1>3. Cardinality(Of(S, v)) <= Cardinality(Of(T, v)) /\ Cardinality(Of(T, v)) <= MaxRows
    BY <1>1, <1>2, FS_Subset DEF Capped
<1>4. Cardinality(Of(S, v)) \in Nat /\ Cardinality(Of(T, v)) \in Nat
    BY <1>1, <1>2, FS_Subset, FS_CardinalityType
<1>. QED
    BY <1>3, <1>4, HistoryConstants DEF HistoryConstants

LEMMA DeleteKeeps ==
    ASSUME IInv, NEW u \in User, NEW w \in Who, NEW level \in Level, Delete(u, w, level)
    PROVE  IInv' /\ rows' \subseteq rows
<1>. DEFINE G == At(rows, u, w, level)
<1>1. /\ rows' = rows \ G /\ aliases' = Forgotten(aliases, G) /\ now' = now /\ reads' = reads
      /\ G \in SUBSET rows
    BY DEF Delete, At
<1>. HIDE DEF G
<1>2. Tables(rows', aliases')
    BY <1>1, ForgettingKeeps DEF IInv
<1>3. rows' \in SUBSET rows /\ IsFiniteSet(rows) /\ Capped(rows)
    BY <1>1 DEF IInv, Tables
<1>4. Capped(rows')
    BY <1>3, FewerCapped
<1>. QED
    BY <1>1, <1>2, <1>3, <1>4 DEF IInv

LEMMA ClearKeeps ==
    ASSUME IInv, NEW u \in User, Clear(u)
    PROVE  IInv' /\ rows' \subseteq rows
<1>1. /\ rows' = {r \in rows : r.user # u} /\ aliases' = {a \in aliases : a.user # u}
      /\ now' = now /\ reads' = reads
    BY DEF Clear, Of
<1>2. rows' \in SUBSET rows /\ IsFiniteSet(rows) /\ Capped(rows)
    BY <1>1 DEF IInv, Tables
<1>3. Capped(rows') /\ IsFiniteSet(rows')
    BY <1>2, FewerCapped, FS_Subset
<1>4. Leads(aliases', rows') /\ Badged(aliases', rows')
    BY <1>1 DEF IInv, Tables, Leads, Badged, SameTab
<1>5. Keyed(rows') /\ OneAlias(aliases') /\ Dated(aliases', rows') /\ Honest(rows')
    BY <1>1 DEF IInv, Tables, Keyed, OneAlias, Dated, Honest
<1>6. Tables(rows', aliases')
    BY <1>1, <1>3, <1>4, <1>5 DEF IInv, Tables
<1>. QED
    BY <1>1, <1>2, <1>3, <1>6 DEF IInv

\* A summary that is stored is the one that is there: the row read is the row written.
LEMMA SyncKeeps ==
    ASSUME IInv, NEW q \in reads, SyncSummary(q)
    PROVE  IInv' /\ rows' = rows
<1>1. \A r \in SyncTarget(q) : r \in rows /\ r \in Rows /\ r.summary = q.fetched
    BY DEF SyncTarget, At, IInv, Tables, Honest
<1>2. \A r \in SyncTarget(q) : [r EXCEPT !.summary = q.fetched] = r
    BY <1>1 DEF Rows
<1>3. {[r EXCEPT !.summary = q.fetched] : r \in SyncTarget(q)} = SyncTarget(q)
    BY <1>2
<1>4. SyncTarget(q) \subseteq rows
    BY <1>1
<1>5. rows' = rows
    BY <1>3, <1>4 DEF SyncSummary
<1>6. now' = now /\ aliases' = aliases /\ reads' \subseteq reads
    BY DEF SyncSummary
<1>. QED
    BY <1>5, <1>6 DEF IInv

LEMMA ReadKeeps ==
    ASSUME IInv, NEW u \in User, NEW w \in Who, NEW level \in Level, Read(u, w, level)
    PROVE  IInv' /\ rows' = rows
<1>1. PICK r \in At(rows, u, w, level) :
        reads' = reads \union {[user |-> u, who |-> w, level |-> level,
                                fetchedAt |-> r.fetchedAt, fetched |-> r.fetched]}
    BY DEF Read
<1>. DEFINE q == [user |-> u, who |-> w, level |-> level, fetchedAt |-> r.fetchedAt,
                  fetched |-> r.fetched]
<1>2. r.fetchedAt \in Nat /\ r.fetched = r.fetchedAt
    BY DEF At, IInv, Tables, Rows, Honest
<1>3. q \in Reads /\ q.fetched = q.fetchedAt
    BY <1>2 DEF Reads
<1>4. UNCHANGED <<now, rows, aliases>>
    BY DEF Read
<1>. QED
    BY <1>1, <1>3, <1>4 DEF IInv

\* Every operation of a store keeps its tables whole; and what it adds to a history was
\* fetched within Ttl.
LEMMA StepKeeps ==
    ASSUME IInv, [Next]_vars
    PROVE  /\ IInv'
           /\ \A r \in rows' : \/ r.fetched >= now - Ttl
                               \/ \E s \in rows : SameTab(r, s) /\ r.fetched = s.fetched
<1>. USE HistoryConstants DEF HistoryConstants
<1>0. /\ \A r \in rows : SameTab(r, r)
      /\ now \in Nat /\ now >= now - Ttl
    BY DEF SameTab, IInv
<1>1. ASSUME NEW u \in User, NEW w \in Who, NEW asked \in Level \union {NoLevel},
             NEW level \in Level, Record(u, w, asked, level)
      PROVE  IInv' /\ \A r \in rows' : r \in rows \/ r.fetched = now
    BY <1>1, RecordKeeps
<1>2. ASSUME NEW u \in User, NEW w \in Who, NEW asked \in Level \union {NoLevel},
             Touch(u, w, asked)
      PROVE  IInv' /\ \A r \in rows' : \E s \in rows : SameTab(r, s) /\ r.fetched = s.fetched
    BY <1>2, TouchKeeps
<1>3. ASSUME NEW u \in User, NEW w \in Who, NEW asked \in Level \union {NoLevel},
             Copy(u, w, asked)
      PROVE  IInv' /\ \A r \in rows' : r \in rows \/ r.fetched >= now - Ttl
    BY <1>3, CopyKeeps
<1>4. ASSUME NEW u \in User, NEW w \in Who, NEW level \in Level, Delete(u, w, level)
      PROVE  IInv' /\ rows' \subseteq rows
    BY <1>4, DeleteKeeps
<1>5. ASSUME NEW u \in User, NEW w \in Who, NEW level \in Level, Read(u, w, level)
      PROVE  IInv' /\ rows' \subseteq rows
    BY <1>5, ReadKeeps
<1>6. ASSUME NEW u \in User, Clear(u) PROVE IInv' /\ rows' \subseteq rows
    BY <1>6, ClearKeeps
<1>7. ASSUME NEW q \in reads, SyncSummary(q) PROVE IInv' /\ rows' \subseteq rows
    BY <1>7, SyncKeeps
<1>8. CASE Tick
  <2>1. now' = now + 1 /\ UNCHANGED <<rows, aliases, reads>>
    BY <1>8 DEF Tick
  <2>2. \A r \in rows : r.fetchedAt \in Nat
    BY DEF IInv, Tables, Rows
  <2>. QED
    BY <1>0, <1>8, <2>1, <2>2 DEF IInv, Capped, Tick
<1>9. CASE UNCHANGED vars
    BY <1>0, <1>9 DEF vars, IInv, Capped
<1>10. ASSUME IInv' /\ rows' \subseteq rows
       PROVE  /\ IInv'
              /\ \A r \in rows' : \/ r.fetched >= now - Ttl
                                  \/ \E s \in rows : SameTab(r, s) /\ r.fetched = s.fetched
    BY <1>0, <1>10
<1>11. CASE \E u \in User, w \in Who, asked \in Level \union {NoLevel}, level \in Level :
                Record(u, w, asked, level)
    BY <1>0, <1>1, <1>11
<1>12. CASE \E u \in User, w \in Who, asked \in Level \union {NoLevel} : Copy(u, w, asked)
    BY <1>0, <1>3, <1>12
<1>13. CASE \E u \in User, w \in Who, asked \in Level \union {NoLevel} : Touch(u, w, asked)
    BY <1>2, <1>13
<1>14. CASE \/ \E u \in User : Clear(u)
            \/ \E u \in User, w \in Who, level \in Level : Delete(u, w, level) \/ Read(u, w, level)
            \/ \E q \in reads : SyncSummary(q)
  <2>1. IInv' /\ rows' \subseteq rows
    BY <1>4, <1>5, <1>6, <1>7, <1>14
  <2>. QED
    BY <1>10, <2>1
<1>. QED
    BY <1>8, <1>9, <1>11, <1>12, <1>13, <1>14 DEF Next

LEMMA InvInit == Init => IInv
<1>. SUFFICES ASSUME Init PROVE IInv
    OBVIOUS
<1>1. Tables({}, {})
    BY FS_EmptySet DEF Tables, Keyed, OneAlias, Leads, Badged, Dated, Honest
<1>2. Capped({})
  <2>1. \A v : Of({}, v) = {}
    BY DEF Of
  <2>. QED
    BY <2>1, FS_EmptySet, HistoryConstants DEF Capped, HistoryConstants
<1>. QED
    BY <1>1, <1>2, HistoryConstants DEF Init, IInv, HistoryConstants

LEMMA Invariance == Spec => []IInv
<1>1. IInv /\ [Next]_vars => IInv'
    BY StepKeeps
<1>. QED
    BY <1>1, InvInit, PTL DEF Spec

-----------------------------------------------------------------------------
(* What the histories promise.                                              *)

\* The keys of both tables, and the cap after every write (history.ts:166-200).
THEOREM TypeCorrect == Spec => []TypeOK
    BY Invariance, InvType, PTL

\* However long the history of writes, deletions and evictions, an alias leads to a row
\* and the badge of a tab has its alias (write and forget, history.ts:166-191).
THEOREM AliasesLead == Spec => []AliasTabs
    BY Invariance, InvAliasTabs, PTL

\* A re-evaluation that a Refresh overtook never writes over the newer payload's summary
\* (syncSummary, history.ts:145-150).
THEOREM SummariesHonest == Spec => []SummaryOfPayload
<1>1. IInv => SummaryOfPayload
    BY DEF IInv, Tables, Honest, SummaryOfPayload
<1>. QED
    BY <1>1, Invariance, PTL

\* Copies of copies do not age a payload past Ttl (cached, history.ts:212-223).
THEOREM OnlyFreshShared == Spec => SharedIsFresh
<1>1. IInv /\ [Next]_vars =>
        [\A r \in rows' :
          \/ r.fetched >= now - Ttl
          \/ \E s \in rows : <<s.user, s.who, s.level, s.fetched>> = <<r.user, r.who, r.level, r.fetched>>]_vars
  <2>. SUFFICES ASSUME IInv, [Next]_vars
                PROVE  \A r \in rows' :
                         \/ r.fetched >= now - Ttl
                         \/ \E s \in rows : <<s.user, s.who, s.level, s.fetched>>
                                              = <<r.user, r.who, r.level, r.fetched>>
    OBVIOUS
  <2>1. \A r \in rows' : \/ r.fetched >= now - Ttl
                         \/ \E s \in rows : SameTab(r, s) /\ r.fetched = s.fetched
    BY StepKeeps
  <2>. QED
    BY <2>1 DEF SameTab
<1>. QED
    BY <1>1, Invariance, PTL DEF Spec, SharedIsFresh

-----------------------------------------------------------------------------
(* One fetch for all.                                                       *)

\* Of dates up to now there is a latest.
LEMMA LatestExists ==
    ASSUME NEW n \in Nat, NEW S \in SUBSET (0..n), S # {}
    PROVE  \E x \in S : \A y \in S : y <= x
<1>. DEFINE T == {n - x : x \in S}
<1>1. \A x \in S : x \in Nat /\ n - x \in Nat
  <2>. SUFFICES ASSUME NEW x \in 0..n PROVE x \in Nat /\ n - x \in Nat
    OBVIOUS
  <2>. QED
    OBVIOUS
<1>2. T \subseteq Nat /\ T # {}
    BY <1>1
<1>3. PICK t \in T : \A k \in T : ~(<<k, t>> \in OpToRel(<, Nat))
  <2>. HIDE DEF T
  <2>. QED
    BY <1>2, WFMin, NatLessThanWellFounded, Zenon
<1>4. PICK x \in S : t = n - x
    OBVIOUS
<1>5. ASSUME NEW y \in S PROVE y <= x
  <2>1. n - y \in T /\ n - y \in Nat /\ t \in Nat /\ x \in Nat /\ y \in Nat
    BY <1>1, <1>2
  <2>2. ~(n - y < t)
    BY <1>3, <2>1 DEF OpToRel
  <2>. QED
    BY <1>4, <2>1, <2>2
<1>. QED
    BY <1>5

\* While anyone's alias is fresh, the auto request of every member is a hit, his own row or
\* a fresh one of somebody else (shared, history.ts:202-208): the newest alias leads to a
\* row that is as fresh as itself.
THEOREM OneFetch == Spec => []OneFetchForAll
<1>1. ASSUME IInv, NEW a \in aliases, Fresh(a.setAt), NEW u \in User
      PROVE  \/ Own(u, a.who, NoLevel) # {}
             \/ \E level \in Level :
                  SharedLevel(a.who, NoLevel, level) /\ Shared(u, a.who, level) # {}
  <2>. USE HistoryConstants DEF HistoryConstants
  <2>. DEFINE w == a.who
              Sets == {b.setAt : b \in {b \in aliases : b.who = w}}
  <2>0. /\ now \in Nat /\ aliases \subseteq Aliases /\ rows \subseteq Rows
        /\ Leads(aliases, rows) /\ Dated(aliases, rows)
        /\ \A r \in rows : r.fetchedAt <= now /\ r.fetchedAt \in Nat
    BY <1>1 DEF IInv, Tables, Rows
  <2>1. \A b \in aliases : b.setAt \in 0..now
    <3>. SUFFICES ASSUME NEW b \in aliases PROVE b.setAt \in 0..now
        OBVIOUS
    <3>1. PICK r \in rows : SameTab(b, r)
        BY <2>0 DEF Leads
    <3>2. b.setAt <= r.fetchedAt /\ r.fetchedAt <= now /\ r.fetchedAt \in Nat /\ b.setAt \in Nat
        BY <2>0, <3>1 DEF Dated, Aliases
    <3>. QED
        BY <2>0, <3>2
  <2>2. Sets \in SUBSET (0..now) /\ Sets # {}
    BY <1>1, <2>1
  <2>3. PICK x \in Sets : \A y \in Sets : y <= x
    <3>. HIDE DEF Sets
    <3>. QED
        BY <2>0, <2>2, LatestExists
  <2>4. PICK b \in aliases : b.who = w /\ b.setAt = x
    OBVIOUS
  <2>5. \A c \in aliases : c.who = w => c.setAt <= b.setAt
    BY <2>3, <2>4
  <2>6. Fresh(b.setAt)
    <3>1. a.setAt <= b.setAt /\ a.setAt \in Nat /\ b.setAt \in Nat
        BY <1>1, <2>0, <2>5 DEF Aliases
    <3>. QED
        BY <1>1, <2>0, <3>1 DEF Fresh
  <2>7. PICK s \in rows : SameTab(b, s)
    BY <2>0 DEF Leads
  <2>8. b.setAt <= s.fetchedAt
    BY <2>0, <2>7 DEF Dated
  <2>9. CASE b.user = u
    <3>1. b \in AliasOf(u, w) /\ b.level = s.level
        BY <2>4, <2>7, <2>9 DEF AliasOf, SameTab
    <3>2. s \in Own(u, w, NoLevel)
        BY <2>4, <2>7, <2>9, <3>1 DEF Own, SameTab
    <3>. QED
        BY <3>2
  <2>10. CASE b.user # u
    <3>. DEFINE level == b.level
                Others == {r \in rows : r.user # u /\ r.who = w /\ r.level = level}
                Dates == {r.fetchedAt : r \in Others}
    <3>1. level \in Level
        BY <2>0, <2>4 DEF Aliases
    <3>2. s \in Others
        BY <2>4, <2>7, <2>10 DEF SameTab
    <3>3. Dates \in SUBSET (0..now) /\ Dates # {} /\ s.fetchedAt \in Dates
        BY <2>0, <3>2
    <3>4. PICK d \in Dates : \A e \in Dates : e <= d
      <4>. HIDE DEF Dates
      <4>. QED
        BY <2>0, <3>3, LatestExists
    <3>5. PICK t \in Others : t.fetchedAt = d
        OBVIOUS
    <3>6. \A r \in Others : r.fetchedAt <= t.fetchedAt
        BY <3>4, <3>5
    <3>7. Fresh(t.fetchedAt)
      <4>1. s.fetchedAt <= t.fetchedAt /\ t \in rows
        BY <3>2, <3>5, <3>6
      <4>2. {s.fetchedAt, t.fetchedAt, b.setAt} \subseteq Nat
        BY <2>0, <4>1 DEF Aliases
      <4>. QED
        BY <2>0, <2>6, <2>8, <4>1, <4>2 DEF Fresh
    <3>8. t \in Shared(u, w, level)
        BY <3>5, <3>6, <3>7 DEF Shared
    <3>9. SharedLevel(w, NoLevel, level)
        BY <2>4, <2>5, <2>6 DEF SharedLevel
    <3>. QED
        BY <3>1, <3>8, <3>9
  <2>. QED
    BY <2>9, <2>10
<1>2. IInv => OneFetchForAll
    BY <1>1 DEF OneFetchForAll
<1>. QED
    BY <1>2, Invariance, PTL

-----------------------------------------------------------------------------
(* The in-memory history of Member: the tabs of his rows tell them apart,   *)
(* so the entries, their order and the aliases follow the tables; the rows  *)
(* of the others show in none of the three.                                 *)

Strip(r) == [who |-> r.who, level |-> r.level, auto |-> r.auto, fetchedAt |-> r.fetchedAt,
             summary |-> r.summary]

LEMMA EntryOf ==
    ASSUME NEW T, NEW e
    PROVE  e \in EntriesOf(T) <=> \E r \in T : r.user = Member /\ e = Strip(r)
    BY DEF EntriesOf, Strip, Of

LEMMA PairOf ==
    ASSUME NEW T, NEW p
    PROVE  p \in OrderOf(T) <=>
             \E r, s \in T : /\ r.user = Member /\ s.user = Member /\ r.seq < s.seq
                             /\ p = <<TabOf(r), TabOf(s)>>
<1>1. ASSUME p \in OrderOf(T)
      PROVE  \E r, s \in T : /\ r.user = Member /\ s.user = Member /\ r.seq < s.seq
                             /\ p = <<TabOf(r), TabOf(s)>>
  <2>1. PICK q \in Of(T, Member) \X Of(T, Member) : q[1].seq < q[2].seq /\ p = <<TabOf(q[1]), TabOf(q[2])>>
    BY <1>1 DEF OrderOf
  <2>2. q[1] \in Of(T, Member) /\ q[2] \in Of(T, Member)
    BY <2>1
  <2>. QED
    BY <2>1, <2>2 DEF Of
<1>2. ASSUME NEW r \in T, NEW s \in T, r.user = Member, s.user = Member, r.seq < s.seq
      PROVE  <<TabOf(r), TabOf(s)>> \in OrderOf(T)
  <2>1. r \in Of(T, Member) /\ s \in Of(T, Member)
    BY <1>2 DEF Of
  <2>2. <<r, s>> \in Of(T, Member) \X Of(T, Member) /\ <<r, s>>[1] = r /\ <<r, s>>[2] = s
    BY <2>1
  <2>. QED
    BY <1>2, <2>2 DEF OrderOf
<1>. QED
    BY <1>1, <1>2

LEMMA TabStrip ==
    ASSUME NEW r
    PROVE  /\ Memory!Tab(Strip(r)) = TabOf(r)
           /\ Strip(r).who = r.who /\ Strip(r).level = r.level /\ Strip(r).auto = r.auto
           /\ Strip(r).fetchedAt = r.fetchedAt /\ Strip(r).summary = r.summary
    BY DEF Memory!Tab, Strip, TabOf

LEMMA SameTabOf ==
    ASSUME NEW r, NEW s
    PROVE  TabOf(r) = TabOf(s) <=> r.who = s.who /\ r.level = s.level
    BY DEF TabOf

\* A member's rows are told apart by their tabs, and so by their entries.
LEMMA TabsApart ==
    ASSUME NEW T, Keyed(T), NEW r \in T, NEW s \in T, r.user = Member, s.user = Member,
           TabOf(r) = TabOf(s) \/ Strip(r) = Strip(s)
    PROVE  r = s
<1>1. r.who = s.who /\ r.level = s.level
    BY SameTabOf, TabStrip
<1>. QED
    BY <1>1 DEF Keyed

\* The rows of other members show nowhere.
LEMMA OthersUnseen ==
    ASSUME NEW T, NEW U, Of(T, Member) = Of(U, Member)
    PROVE  EntriesOf(T) = EntriesOf(U) /\ OrderOf(T) = OrderOf(U) /\ AutoLevelOf(T) = AutoLevelOf(U)
    BY DEF EntriesOf, OrderOf, AutoLevelOf

LEMMA EntriesWithout ==
    ASSUME NEW T, Keyed(T), NEW G \in SUBSET T
    PROVE  EntriesOf(T \ G) = EntriesOf(T) \ EntriesOf(G)
<1>1. ASSUME NEW e \in EntriesOf(T \ G) PROVE e \in EntriesOf(T) \ EntriesOf(G)
  <2>1. PICK r \in T \ G : r.user = Member /\ e = Strip(r)
    BY EntryOf
  <2>2. ASSUME NEW g \in G, g.user = Member, e = Strip(g) PROVE FALSE
    <3>1. g = r
        BY <2>1, <2>2, TabsApart
    <3>. QED
        BY <2>1, <3>1
  <2>. QED
    BY <2>1, <2>2, EntryOf
<1>2. ASSUME NEW e \in EntriesOf(T) \ EntriesOf(G) PROVE e \in EntriesOf(T \ G)
  <2>1. PICK r \in T : r.user = Member /\ e = Strip(r)
    BY EntryOf
  <2>2. r \notin G
    BY <1>2, <2>1, EntryOf
  <2>. QED
    BY <2>1, <2>2, EntryOf
<1>. QED
    BY <1>1, <1>2

\* Rows that are left keep their order.
LEMMA OrderAmong ==
    ASSUME NEW T, Keyed(T), NEW K \in SUBSET T
    PROVE  Memory!Among(OrderOf(T), EntriesOf(K)) = OrderOf(K)
<1>1. ASSUME NEW p \in Memory!Among(OrderOf(T), EntriesOf(K)) PROVE p \in OrderOf(K)
  <2>1. /\ p \in OrderOf(T)
        /\ \E e \in EntriesOf(K) : p[1] = Memory!Tab(e)
        /\ \E e \in EntriesOf(K) : p[2] = Memory!Tab(e)
    BY <1>1 DEF Memory!Among
  <2>2. PICK r \in T, s \in T : /\ r.user = Member /\ s.user = Member /\ r.seq < s.seq
                                /\ p = <<TabOf(r), TabOf(s)>>
    BY <2>1, PairOf
  <2>3. PICK a \in K : a.user = Member /\ p[1] = TabOf(a)
    BY <2>1, EntryOf, TabStrip
  <2>4. PICK b \in K : b.user = Member /\ p[2] = TabOf(b)
    BY <2>1, EntryOf, TabStrip
  <2>5. a \in T /\ b \in T /\ TabOf(a) = TabOf(r) /\ TabOf(b) = TabOf(s)
    BY <2>2, <2>3, <2>4
  <2>6. a = r
    BY <2>2, <2>3, <2>5, TabsApart
  <2>7. b = s
    BY <2>2, <2>4, <2>5, TabsApart
  <2>. QED
    BY <2>2, <2>3, <2>4, <2>6, <2>7, PairOf
<1>2. ASSUME NEW p \in OrderOf(K) PROVE p \in Memory!Among(OrderOf(T), EntriesOf(K))
  <2>1. PICK r \in K, s \in K : /\ r.user = Member /\ s.user = Member /\ r.seq < s.seq
                                /\ p = <<TabOf(r), TabOf(s)>>
    BY PairOf
  <2>2. p \in OrderOf(T)
    BY <2>1, PairOf
  <2>3. Strip(r) \in EntriesOf(K) /\ Strip(s) \in EntriesOf(K)
    BY <2>1, EntryOf
  <2>4. p[1] = Memory!Tab(Strip(r)) /\ p[2] = Memory!Tab(Strip(s))
    BY <2>1, TabStrip
  <2>. QED
    BY <2>2, <2>3, <2>4 DEF Memory!Among
<1>. QED
    BY <1>1, <1>2

\* A row with a higher number than the others comes last.
LEMMA OrderNewest ==
    ASSUME NEW T, T \subseteq Rows, Keyed(T), NEW K \in SUBSET T, NEW new \in Rows,
           new.user = Member, \A r \in K : r.user = Member => r.seq < new.seq
    PROVE  Memory!Newest(OrderOf(T), EntriesOf(K), Strip(new)) = OrderOf(K \union {new})
<1>. DEFINE N == Memory!Newest(OrderOf(T), EntriesOf(K), Strip(new))
<1>0. N = OrderOf(K) \union {<<Memory!Tab(o), TabOf(new)>> : o \in EntriesOf(K)}
    BY OrderAmong, TabStrip DEF Memory!Newest
<1>. HIDE DEF N
<1>1. ASSUME NEW p \in N PROVE p \in OrderOf(K \union {new})
  <2>1. CASE p \in OrderOf(K)
    BY <2>1, PairOf
  <2>2. CASE \E o \in EntriesOf(K) : p = <<Memory!Tab(o), TabOf(new)>>
    <3>1. PICK r \in K : r.user = Member /\ p = <<TabOf(r), TabOf(new)>>
        BY <2>2, EntryOf, TabStrip
    <3>. QED
        BY <3>1, PairOf
  <2>. QED
    BY <1>0, <1>1, <2>1, <2>2
<1>2. ASSUME NEW p \in OrderOf(K \union {new}) PROVE p \in N
  <2>1. PICK r \in K \union {new}, s \in K \union {new} :
            /\ r.user = Member /\ s.user = Member /\ r.seq < s.seq
            /\ p = <<TabOf(r), TabOf(s)>>
    BY PairOf
  <2>2. r.seq \in Nat /\ s.seq \in Nat /\ new.seq \in Nat
    BY <2>1 DEF Rows
  <2>3. r \in K
    BY <2>1, <2>2
  <2>4. CASE s \in K
    BY <1>0, <2>1, <2>3, <2>4, PairOf
  <2>5. CASE s = new
    <3>1. Strip(r) \in EntriesOf(K) /\ Memory!Tab(Strip(r)) = TabOf(r)
        BY <2>1, <2>3, EntryOf, TabStrip
    <3>. QED
        BY <1>0, <2>1, <2>5, <3>1
  <2>. QED
    BY <2>1, <2>4, <2>5
<1>. QED
    BY <1>1, <1>2 DEF N

\* The instance counts as this module does.
LEMMA CountsAlike == \A S : Memory!Cardinality(S) = Cardinality(S)
    BY Zenon DEF Memory!Cardinality, Cardinality

\* The newest row is the newest entry, and those past the cap are the same.
LEMMA OverPast ==
    ASSUME NEW T, T \subseteq Rows, IsFiniteSet(T), Keyed(T)
    PROVE  Memory!Over(OrderOf(T), EntriesOf(T)) = EntriesOf(Past(T, Member))
<1>. DEFINE Newer(r) == {s \in Of(T, Member) : s.seq > r.seq}
            After(e) == {f \in EntriesOf(T) : <<Memory!Tab(e), Memory!Tab(f)>> \in OrderOf(T)}
<1>1. ASSUME NEW r \in T, r.user = Member
      PROVE  Cardinality(After(Strip(r))) = Cardinality(Newer(r))
  <2>. DEFINE A == Newer(r)
              B == After(Strip(r))
  <2>1. ASSUME NEW s \in A PROVE Strip(s) \in B
    <3>1. s \in T /\ s.user = Member /\ s.seq > r.seq /\ r.seq \in Nat /\ s.seq \in Nat
        BY <1>1 DEF Of, Rows
    <3>2. <<TabOf(r), TabOf(s)>> \in OrderOf(T)
        BY <1>1, <3>1, PairOf
    <3>3. Strip(s) \in EntriesOf(T)
        BY <3>1, EntryOf
    <3>. QED
        BY <3>2, <3>3, TabStrip
  <2>2. ASSUME NEW f \in B PROVE \E s \in A : f = Strip(s)
    <3>1. PICK s \in T : s.user = Member /\ f = Strip(s)
        BY EntryOf
    <3>2. <<TabOf(r), TabOf(s)>> \in OrderOf(T)
        BY <3>1, TabStrip
    <3>3. PICK a \in T, b \in T : /\ a.user = Member /\ b.user = Member /\ a.seq < b.seq
                                  /\ <<TabOf(r), TabOf(s)>> = <<TabOf(a), TabOf(b)>>
        BY <3>2, PairOf
    <3>4. TabOf(r) = TabOf(a) /\ TabOf(s) = TabOf(b)
        BY <3>3
    <3>5. r = a
        BY <1>1, <3>3, <3>4, TabsApart
    <3>6. s = b
        BY <3>1, <3>3, <3>4, TabsApart
    <3>7. s.seq > r.seq
        BY <3>3, <3>5, <3>6 DEF Rows
    <3>. QED
        BY <3>1, <3>7 DEF Of
  <2>3. A \in SUBSET T
    BY DEF Of
  <2>4. \A s, t \in A : Strip(s) = Strip(t) => s = t
    <3>. SUFFICES ASSUME NEW s \in A, NEW t \in A, Strip(s) = Strip(t) PROVE s = t
        OBVIOUS
    <3>1. s \in T /\ t \in T /\ s.user = Member /\ t.user = Member
        BY DEF Of
    <3>. QED
        BY <3>1, TabsApart
  <2>. HIDE DEF A, B
  <2>. DEFINE g == [s \in A |-> Strip(s)]
  <2>5. g \in Bijection(A, B)
    <3>1. g \in [A -> B]
        BY <2>1
    <3>2. \A s, t \in A : g[s] = g[t] => s = t
        BY <2>4
    <3>3. \A f \in B : \E s \in A : g[s] = f
        BY <2>2
    <3>. HIDE DEF g
    <3>. QED
        BY <3>1, <3>2, <3>3 DEF Bijection, Injection, Surjection, IsInjective
  <2>6. IsFiniteSet(A)
    BY <2>3, FS_Subset
  <2>. HIDE DEF g
  <2>7. Cardinality(A) = Cardinality(B)
    BY <2>5, <2>6, FS_Bijection DEF ExistsBijection
  <2>. QED
    BY <2>7 DEF A, B
<1>. HIDE DEF Newer, After
<1>2. Memory!Over(OrderOf(T), EntriesOf(T)) = {e \in EntriesOf(T) : Cardinality(After(e)) >= MaxRows}
    BY CountsAlike, Zenon DEF Memory!Over, After
<1>3. Past(T, Member) = {r \in Of(T, Member) : Cardinality(Newer(r)) >= MaxRows}
    BY DEF Past, Newer
<1>4. \A r : r \in Past(T, Member) <=> r \in T /\ r.user = Member /\ Cardinality(Newer(r)) >= MaxRows
    BY <1>3 DEF Of
<1>5. ASSUME NEW e
      PROVE  e \in Memory!Over(OrderOf(T), EntriesOf(T)) <=> e \in EntriesOf(Past(T, Member))
  <2>1. ASSUME e \in Memory!Over(OrderOf(T), EntriesOf(T)) PROVE e \in EntriesOf(Past(T, Member))
    <3>1. PICK r \in T : r.user = Member /\ e = Strip(r)
        BY <1>2, <2>1, EntryOf
    <3>2. r \in Past(T, Member)
        BY <1>1, <1>2, <1>4, <2>1, <3>1
    <3>. QED
        BY <3>1, <3>2, EntryOf
  <2>2. ASSUME e \in EntriesOf(Past(T, Member)) PROVE e \in Memory!Over(OrderOf(T), EntriesOf(T))
    <3>1. PICK r \in Past(T, Member) : r.user = Member /\ e = Strip(r)
        BY <2>2, EntryOf
    <3>2. r \in T /\ Cardinality(Newer(r)) >= MaxRows
        BY <1>4
    <3>3. e \in EntriesOf(T) /\ Cardinality(After(e)) >= MaxRows
        BY <1>1, <3>1, <3>2, EntryOf
    <3>. QED
        BY <1>2, <3>3
  <2>. QED
    BY <2>1, <2>2
<1>. QED
    BY <1>5

\* An alias goes with the entry it points at.
LEMMA ForgetForgotten ==
    ASSUME NEW A, NEW G, \A r \in G : r.user = Member
    PROVE  AutoLevelOf(Forgotten(A, G)) = Memory!Forget(AutoLevelOf(A), EntriesOf(G))
<1>1. ASSUME NEW t
      PROVE  t \in AutoLevelOf(Forgotten(A, G)) <=>
               \E a \in A : /\ a.user = Member /\ t = TabOf(a)
                            /\ ~ \E r \in G : r.who = a.who /\ r.level = a.level
    BY DEF AutoLevelOf, Forgotten, Of
<1>2. ASSUME NEW t
      PROVE  t \in Memory!Forget(AutoLevelOf(A), EntriesOf(G)) <=>
               \E a \in A : /\ a.user = Member /\ t = TabOf(a)
                            /\ ~ \E e \in EntriesOf(G) : Memory!Tab(e) = TabOf(a)
    BY DEF AutoLevelOf, Memory!Forget, Of
<1>3. ASSUME NEW a
      PROVE  (\E e \in EntriesOf(G) : Memory!Tab(e) = TabOf(a)) <=>
             (\E r \in G : r.who = a.who /\ r.level = a.level)
  <2>1. ASSUME NEW e \in EntriesOf(G), Memory!Tab(e) = TabOf(a)
        PROVE  \E r \in G : r.who = a.who /\ r.level = a.level
    BY <2>1, EntryOf, TabStrip, SameTabOf
  <2>2. ASSUME NEW r \in G, r.who = a.who, r.level = a.level
        PROVE  \E e \in EntriesOf(G) : Memory!Tab(e) = TabOf(a)
    <3>1. Strip(r) \in EntriesOf(G) /\ Memory!Tab(Strip(r)) = TabOf(a)
        BY <2>2, EntryOf, TabStrip, SameTabOf
    <3>. QED
        BY <3>1
  <2>. QED
    BY <2>1, <2>2
<1>. QED
    BY <1>1, <1>2, <1>3

LEMMA StaleEntries ==
    ASSUME Tables(rows, aliases), NEW w, NEW asked, NEW level
    PROVE  EntriesOf(StaleAuto(Member, w, asked, level)) = Memory!Stale(w, asked, level)
<1>1. ASSUME NEW e
      PROVE  e \in Memory!Stale(w, asked, level) <=>
               /\ e \in EntriesOf(rows) /\ asked = NoLevel /\ e.who = w /\ e.level # level /\ e.auto
               /\ Memory!Tab(e) \in AutoLevelOf(aliases)
    BY DEF Memory!Stale
<1>2. ASSUME NEW r \in rows, r.who = w
      PROVE  TabOf(r) \in AutoLevelOf(aliases) <=> \E a \in AliasOf(Member, w) : a.level = r.level
  <2>1. TabOf(r) \in AutoLevelOf(aliases) <=> \E a \in aliases : a.user = Member /\ TabOf(a) = TabOf(r)
    BY DEF AutoLevelOf, Of
  <2>. QED
    BY <1>2, <2>1, SameTabOf DEF AliasOf
<1>3. ASSUME NEW e \in EntriesOf(StaleAuto(Member, w, asked, level)) PROVE e \in Memory!Stale(w, asked, level)
  <2>1. PICK r \in StaleAuto(Member, w, asked, level) : r.user = Member /\ e = Strip(r)
    BY EntryOf
  <2>2. r \in rows
    BY DEF StaleAuto
  <2>3. /\ asked = NoLevel /\ r.who = w /\ r.level # level /\ r.auto
        /\ \E a \in AliasOf(Member, w) : a.level = r.level
    BY <2>2, StaleRow
  <2>4. e \in EntriesOf(rows) /\ Memory!Tab(e) \in AutoLevelOf(aliases)
    BY <1>2, <2>1, <2>2, <2>3, EntryOf, TabStrip
  <2>. QED
    BY <1>1, <2>1, <2>3, <2>4, TabStrip
<1>4. ASSUME NEW e \in Memory!Stale(w, asked, level) PROVE e \in EntriesOf(StaleAuto(Member, w, asked, level))
  <2>1. /\ e \in EntriesOf(rows) /\ asked = NoLevel /\ e.who = w /\ e.level # level /\ e.auto
        /\ Memory!Tab(e) \in AutoLevelOf(aliases)
    BY <1>1
  <2>2. PICK r \in rows : r.user = Member /\ e = Strip(r)
    BY <2>1, EntryOf
  <2>3. /\ r.who = w /\ r.level # level /\ r.auto
        /\ \E a \in AliasOf(Member, w) : a.level = r.level
    BY <1>2, <2>1, <2>2, TabStrip
  <2>4. r \in StaleAuto(Member, w, asked, level)
    BY <2>1, <2>2, <2>3, StaleRow
  <2>. QED
    BY <2>2, <2>4, EntryOf
<1>. QED
    BY <1>3, <1>4

\* A write of the member's is a record of the in-memory history.
LEMMA WriteRecords ==
    ASSUME IInv, NEW w \in Who, NEW asked \in Level \union {NoLevel},
           NEW level \in Level, asked \in {NoLevel, level}, NEW at \in Nat, at <= now,
           Write(Member, w, asked, level, at, at),
           \A a \in aliases : asked # NoLevel /\ a.user = Member /\ a.who = w /\ a.level = level => a.setAt <= at
    PROVE  Memory!HRecord(w, asked, level, at)
<1>. USE HistoryConstants DEF HistoryConstants
<1>. DEFINE kept == Kept(Member, w, asked, level)
            pointed == Pointed(Member, w, asked, level, at)
            newRow(n) == NewRow(Member, w, asked, level, at, n)
<1>1. PICK n \in 1..MaxSeq :
        /\ IsNextSeq(rows \ StaleAuto(Member, w, asked, level), Member, n)
        /\ rows' = (kept \union {newRow(n)}) \ Past(kept \union {newRow(n)}, Member)
        /\ aliases' = Forgotten(pointed, Past(kept \union {newRow(n)}, Member))
    BY Zenon DEF Write, AliasDate, Kept, Pointed, NewRow, NewAlias
<1>. DEFINE new == newRow(n)
            stored == kept \union {new}
            gone == Past(stored, Member)
            e == [who |-> w, level |-> level, auto |-> (asked = NoLevel), fetchedAt |-> at, summary |-> at]
            left == {o \in EntriesOf(rows) \ Memory!Stale(w, asked, level) : Memory!Tab(o) # Memory!Tab(e)}
            order == Memory!Newest(OrderOf(rows), left, e)
            hgone == Memory!Over(order, left \union {e})
            hpointed == IF asked = NoLevel
                        THEN {t \in AutoLevelOf(aliases) : t.who # w} \union {Memory!Tab(e)}
                        ELSE AutoLevelOf(aliases)
<1>2. n \in Nat
    OBVIOUS
<1>3. /\ new \in Rows /\ new.user = Member /\ new.who = w /\ new.level = level /\ new.seq = n
      /\ Strip(new) = e
    BY <1>2 DEF Rows, NewRow, Strip
<1>4. Tables(stored, pointed)
    BY <1>1, <1>2, StoringKeeps, Zenon
<1>5. Keyed(rows) /\ rows \subseteq Rows /\ kept \in SUBSET rows /\ Tables(rows, aliases)
    BY DEF IInv, Tables, Kept
<1>6. Memory!Tab(e) = TabOf(new)
    BY <1>3, TabStrip
<1>7. EntriesOf(kept) = left
  <2>1. ASSUME NEW o \in EntriesOf(kept) PROVE o \in left
    <3>1. PICK r \in kept : r.user = Member /\ o = Strip(r)
        BY EntryOf
    <3>2. r \in rows /\ r \notin StaleAuto(Member, w, asked, level) /\ ~(r.who = w /\ r.level = level)
        BY <3>1 DEF Kept, At
    <3>3. o \in EntriesOf(rows)
        BY <3>1, <3>2, EntryOf
    <3>4. o \notin Memory!Stale(w, asked, level)
      <4>1. SUFFICES ASSUME o \in EntriesOf(StaleAuto(Member, w, asked, level)) PROVE FALSE
        BY <1>5, StaleEntries
      <4>2. PICK s \in StaleAuto(Member, w, asked, level) : s.user = Member /\ o = Strip(s)
        BY <4>1, EntryOf
      <4>3. s \in rows
        BY DEF StaleAuto
      <4>4. s = r
        BY <1>5, <3>1, <3>2, <4>2, <4>3, TabsApart
      <4>. QED
        BY <3>2, <4>4
    <3>5. Memory!Tab(o) # Memory!Tab(e)
        BY <1>3, <1>6, <3>1, <3>2, TabStrip, SameTabOf
    <3>. QED
        BY <3>3, <3>4, <3>5
  <2>2. ASSUME NEW o \in left PROVE o \in EntriesOf(kept)
    <3>1. PICK r \in rows : r.user = Member /\ o = Strip(r)
        BY EntryOf
    <3>2. r \notin At(rows, Member, w, level)
        BY <1>3, <1>6, <3>1, TabStrip, SameTabOf DEF At
    <3>3. r \notin StaleAuto(Member, w, asked, level)
        BY <1>5, <3>1, StaleEntries, EntryOf
    <3>. QED
        BY <3>1, <3>2, <3>3, EntryOf DEF Kept
  <2>. HIDE DEF left, kept
  <2>. QED
    BY <2>1, <2>2
<1>8. \A r \in kept : r.user = Member => r.seq < n
    BY <1>1 DEF IsNextSeq, Of, Kept
<1>9. AutoLevelOf(pointed) = hpointed
  <2>1. CASE asked # NoLevel
    BY <2>1 DEF Pointed
  <2>2. CASE asked = NoLevel
    <3>1. ASSUME NEW t
          PROVE  t \in AutoLevelOf(pointed) <=> \E a \in pointed : a.user = Member /\ t = TabOf(a)
        BY DEF AutoLevelOf, Of
    <3>2. ASSUME NEW a
          PROVE  a \in pointed <=> \/ a \in aliases /\ ~(a.user = Member /\ a.who = w)
                                   \/ a = NewAlias(Member, w, level, at)
        BY <2>2 DEF Pointed, AliasOf
    <3>3. ASSUME NEW t
          PROVE  t \in hpointed <=> \/ t.who # w /\ \E a \in aliases : a.user = Member /\ t = TabOf(a)
                                    \/ t = TabOf(new)
        BY <1>6, <2>2 DEF AutoLevelOf, Of
    <3>4. NewAlias(Member, w, level, at).user = Member /\ TabOf(NewAlias(Member, w, level, at)) = TabOf(new)
        BY <1>3 DEF NewAlias, TabOf
    <3>5. \A a : TabOf(a).who = a.who
        BY DEF TabOf
    <3>. HIDE DEF pointed, hpointed
    <3>6. ASSUME NEW t PROVE t \in AutoLevelOf(pointed) <=> t \in hpointed
        BY <3>1, <3>2, <3>3, <3>4, <3>5
    <3>. QED
        BY <3>6
  <2>. QED
    BY <2>1, <2>2
<1>. HIDE DEF new, kept, pointed, e, left, hpointed
<1>10. order = OrderOf(stored)
    BY <1>3, <1>5, <1>7, <1>8, OrderNewest
<1>11. EntriesOf(stored) = left \union {e}
    BY <1>3, <1>7, EntryOf
<1>12. Keyed(stored) /\ stored \subseteq Rows /\ IsFiniteSet(stored)
    BY <1>4 DEF Tables
<1>. HIDE DEF stored, order
<1>13. hgone = EntriesOf(gone)
    BY <1>10, <1>11, <1>12, OverPast
<1>14. gone \in SUBSET stored /\ \A r \in gone : r.user = Member
    BY DEF Past, Of
<1>. HIDE DEF gone, hgone
<1>15. rows' = stored \ gone /\ aliases' = Forgotten(pointed, gone)
    BY <1>1 DEF new, kept, pointed, stored, gone
<1>16. EntriesOf(rows') = (left \union {e}) \ hgone
    BY <1>11, <1>12, <1>13, <1>14, <1>15, EntriesWithout
<1>17. OrderOf(rows') = Memory!Among(order, (left \union {e}) \ hgone)
  <2>1. stored \ gone \in SUBSET stored
    OBVIOUS
  <2>2. Memory!Among(OrderOf(stored), EntriesOf(stored \ gone)) = OrderOf(stored \ gone)
    BY <1>12, <2>1, OrderAmong
  <2>. QED
    BY <1>10, <1>15, <1>16, <2>2
<1>18. AutoLevelOf(aliases') = Memory!Forget(hpointed, hgone)
    BY <1>9, <1>13, <1>14, <1>15, ForgetForgotten
<1>. QED
    BY <1>16, <1>17, <1>18 DEF Memory!HRecord, e, left, order, hgone, hpointed

\* A hit of the member's is a hit.
LEMMA TouchHits ==
    ASSUME IInv, NEW w \in Who, NEW asked \in Level \union {NoLevel}, Touch(Member, w, asked)
    PROVE  Memory!HCached(w, asked)
<1>1. PICK r \in Own(Member, w, asked), n \in 1..MaxSeq :
        /\ IsNextSeq(rows, Member, n)
        /\ rows' = (rows \ {r}) \union {[r EXCEPT !.seq = n]}
        /\ aliases' = aliases
    BY DEF Touch, Touched
<1>2. /\ r \in rows /\ r \in Rows /\ r.user = Member /\ r.who = w
      /\ r.level = asked \/ (asked = NoLevel /\ \E a \in AliasOf(Member, w) : a.level = r.level)
      /\ n \in Nat /\ rows \subseteq Rows /\ Keyed(rows)
    BY HistoryConstants DEF Own, IInv, Tables, HistoryConstants
<1>. DEFINE t == [r EXCEPT !.seq = n]
            e == Strip(r)
            K == rows \ {r}
<1>3. t \in Rows /\ t.user = Member /\ t.seq = n /\ Strip(t) = e
    BY <1>2 DEF Rows, Strip
<1>. HIDE DEF t
<1>4. rows' = K \union {t} /\ K \in SUBSET rows /\ {r} \in SUBSET rows
    BY <1>1, <1>2 DEF t
<1>5. \A s \in K : s.user = Member => s.seq < n
    BY <1>1 DEF IsNextSeq, Of
<1>6. EntriesOf({r}) = {e}
    BY <1>2, EntryOf
<1>7. EntriesOf(K) = EntriesOf(rows) \ {e}
    BY <1>2, <1>4, <1>6, EntriesWithout
<1>8. e \in EntriesOf(rows)
    BY <1>2, EntryOf
<1>. HIDE DEF K
<1>9. EntriesOf(rows') = EntriesOf(rows)
  <2>1. EntriesOf(rows') = EntriesOf(K) \union {e}
    BY <1>3, <1>4, EntryOf
  <2>. QED
    BY <1>7, <1>8, <2>1
<1>10. OrderOf(rows') = Memory!Newest(OrderOf(rows), EntriesOf(rows) \ {e}, e)
  <2>1. Memory!Newest(OrderOf(rows), EntriesOf(K), Strip(t)) = OrderOf(K \union {t})
    BY <1>2, <1>3, <1>4, <1>5, OrderNewest
  <2>. QED
    BY <1>3, <1>4, <1>7, <2>1
<1>11. e.who = w /\ (e.level = asked \/ (asked = NoLevel /\ Memory!Tab(e) \in AutoLevelOf(aliases)))
  <2>1. ASSUME NEW a \in AliasOf(Member, w), a.level = r.level PROVE TabOf(r) \in AutoLevelOf(aliases)
    <3>1. a \in Of(aliases, Member) /\ TabOf(a) = TabOf(r)
        BY <1>2, <2>1, SameTabOf DEF AliasOf, Of
    <3>. QED
        BY <3>1 DEF AutoLevelOf
  <2>. QED
    BY <1>2, <2>1, TabStrip
<1>. HIDE DEF e
<1>. QED
    BY <1>1, <1>8, <1>9, <1>10, <1>11 DEF Memory!HCached

LEMMA DeleteRemoves ==
    ASSUME IInv, NEW w \in Who, NEW level \in Level, Delete(Member, w, level)
    PROVE  \E e \in EntriesOf(rows) : Memory!HRemove(e)
<1>. DEFINE G == At(rows, Member, w, level)
<1>1. Keyed(rows) /\ rows' = rows \ G /\ aliases' = Forgotten(aliases, G) /\ G # {} /\ G \in SUBSET rows
    BY DEF Delete, At, IInv, Tables
<1>2. PICK r \in G : TRUE
    BY <1>1
<1>3. r \in rows /\ r.user = Member /\ \A s \in G : s.user = Member /\ TabOf(s) = TabOf(r)
    BY SameTabOf DEF At
<1>4. G = {r}
    BY <1>1, <1>3, TabsApart
<1>. HIDE DEF G
<1>5. EntriesOf(G) = {Strip(r)} /\ Strip(r) \in EntriesOf(rows)
    BY <1>3, <1>4, EntryOf
<1>6. EntriesOf(rows') = EntriesOf(rows) \ {Strip(r)}
    BY <1>1, <1>5, EntriesWithout
<1>7. OrderOf(rows') = Memory!Among(OrderOf(rows), EntriesOf(rows) \ {Strip(r)})
  <2>1. rows \ G \in SUBSET rows
    OBVIOUS
  <2>2. Memory!Among(OrderOf(rows), EntriesOf(rows \ G)) = OrderOf(rows \ G)
    BY <1>1, <2>1, OrderAmong
  <2>. QED
    BY <1>1, <1>6, <2>2
<1>8. AutoLevelOf(aliases') = Memory!Forget(AutoLevelOf(aliases), {Strip(r)})
    BY <1>1, <1>3, <1>5, ForgetForgotten
<1>. QED
    BY <1>5, <1>6, <1>7, <1>8 DEF Memory!HRemove

LEMMA ClearClears ==
    ASSUME Clear(Member)
    PROVE  Memory!HClear
<1>1. Of(rows', Member) = {} /\ Of(aliases', Member) = {}
    BY DEF Clear, Of
<1>2. EntriesOf(rows') = {} /\ AutoLevelOf(aliases') = {}
    BY <1>1 DEF EntriesOf, AutoLevelOf
<1>3. OrderOf(rows') = {}
    BY <1>1 DEF OrderOf
<1>. QED
    BY <1>2, <1>3 DEF Memory!HClear

\* What another member does, a read and a summary are stutters.
Unseen == /\ EntriesOf(rows') = EntriesOf(rows) /\ OrderOf(rows') = OrderOf(rows)
          /\ AutoLevelOf(aliases') = AutoLevelOf(aliases)

LEMMA WriteUnseen ==
    ASSUME NEW u \in User, u # Member, NEW w, NEW asked, NEW level, NEW at, NEW fetched,
           Write(u, w, asked, level, at, fetched)
    PROVE  Unseen
<1>. DEFINE kept == rows \ (StaleAuto(u, w, asked, level) \union At(rows, u, w, level))
            alias == [user |-> u, who |-> w, level |-> level, setAt |-> at]
            pointed == IF asked = NoLevel THEN (aliases \ AliasOf(u, w)) \union {alias} ELSE aliases
            new(n) == [user |-> u, who |-> w, level |-> level, auto |-> (asked = NoLevel),
                       fetchedAt |-> at, seq |-> n, fetched |-> fetched, summary |-> fetched]
<1>1. PICK n \in 1..MaxSeq :
        /\ rows' = (kept \union {new(n)}) \ Past(kept \union {new(n)}, u)
        /\ aliases' = Forgotten(pointed, Past(kept \union {new(n)}, u))
    BY Zenon DEF Write, AliasDate
<1>. DEFINE row == new(n)
            gone == Past(kept \union {row}, u)
<1>2. row.user = u /\ alias.user = u
    OBVIOUS
<1>3. \A r \in gone : r.user = u
    BY DEF Past, Of
<1>4. \A r \in rows : r.user = Member => r \in kept
    BY StaleRow DEF At
<1>5. \A a \in aliases : a.user = Member => a \in pointed
    BY DEF AliasOf
<1>6. (\A r \in kept : r \in rows) /\ \A a \in pointed : a \in aliases \/ a = alias
    BY DEF AliasOf
<1>. HIDE DEF row, gone, kept, pointed, alias
<1>7. rows' = (kept \union {row}) \ gone /\ aliases' = Forgotten(pointed, gone)
    BY <1>1 DEF row, gone, kept, pointed, alias
<1>8. Of(rows', Member) = Of(rows, Member)
    BY <1>2, <1>3, <1>4, <1>6, <1>7 DEF Of
<1>9. Of(aliases', Member) = Of(aliases, Member)
    BY <1>2, <1>3, <1>5, <1>6, <1>7 DEF Of, Forgotten
<1>. QED
    BY <1>8, <1>9, OthersUnseen DEF Unseen

LEMMA TouchUnseen ==
    ASSUME IInv, NEW u \in User, u # Member, NEW w, NEW asked, Touch(u, w, asked)
    PROVE  Unseen
<1>1. PICK r \in Own(u, w, asked), n \in 1..MaxSeq :
        rows' = (rows \ {r}) \union {[r EXCEPT !.seq = n]} /\ aliases' = aliases
    BY DEF Touch, Touched
<1>2. r.user = u /\ r \in Rows
    BY DEF Own, IInv, Tables
<1>3. [r EXCEPT !.seq = n].user = u
    BY <1>2 DEF Rows
<1>4. Of(rows', Member) = Of(rows, Member)
    BY <1>1, <1>2, <1>3 DEF Of
<1>. QED
    BY <1>1, <1>4, OthersUnseen DEF Unseen

LEMMA RemovalUnseen ==
    ASSUME NEW u \in User, u # Member,
           Clear(u) \/ \E w \in Who, level \in Level : Delete(u, w, level)
    PROVE  Unseen
<1>1. Of(rows', Member) = Of(rows, Member) /\ Of(aliases', Member) = Of(aliases, Member)
  <2>1. CASE Clear(u)
    BY <2>1 DEF Clear, Of
  <2>2. ASSUME NEW w \in Who, NEW level \in Level, Delete(u, w, level)
        PROVE  Of(rows', Member) = Of(rows, Member) /\ Of(aliases', Member) = Of(aliases, Member)
    BY <2>2 DEF Delete, Of, At, Forgotten
  <2>. QED
    BY <2>1, <2>2
<1>. QED
    BY <1>1, OthersUnseen DEF Unseen

LEMMA UnseenStutters == Unseen => UNCHANGED Memory!hvars
<1>. SUFFICES ASSUME Unseen PROVE UNCHANGED Memory!hvars
    OBVIOUS
<1>1. EntriesOf(rows)' = EntriesOf(rows) /\ OrderOf(rows)' = OrderOf(rows) /\ AutoLevelOf(aliases)' = AutoLevelOf(aliases)
    BY DEF Unseen
<1>. QED
    BY <1>1 DEF Memory!hvars

LEMMA StepRefines ==
    ASSUME IInv, [Next]_vars
    PROVE  [Memory!HNext]_(Memory!hvars)
<1>. USE HistoryConstants DEF HistoryConstants
<1>1. ASSUME NEW u \in User, NEW w \in Who, NEW asked \in Level \union {NoLevel},
             NEW level \in Level, asked \in {NoLevel, level}, NEW at \in Nat, at <= now,
             Write(u, w, asked, level, at, at),
             \A a \in aliases : asked # NoLevel /\ a.user = u /\ a.who = w /\ a.level = level => a.setAt <= at
      PROVE  Unseen \/ (\E d \in 0..MaxTime : Memory!HRecord(w, asked, level, d))
  <2>1. CASE u # Member
    BY <1>1, <2>1, WriteUnseen
  <2>2. CASE u = Member
    <3>1. Memory!HRecord(w, asked, level, at)
        BY <1>1, <2>2, WriteRecords, Zenon
    <3>2. at \in 0..MaxTime
        BY <1>1 DEF IInv
    <3>. QED
        BY <3>1, <3>2
  <2>. QED
    BY <2>1, <2>2
<1>2. IInv /\ UNCHANGED rows /\ UNCHANGED aliases => Unseen
    BY DEF Unseen
<1>3. ASSUME NEW u \in User, NEW w \in Who, NEW asked \in Level \union {NoLevel},
             NEW level \in Level, Record(u, w, asked, level)
      PROVE  Unseen \/ (\E d \in 0..MaxTime : Memory!HRecord(w, asked, level, d))
  <2>1. now \in Nat /\ now <= now
    BY DEF IInv
  <2>. QED
    BY <1>1, <1>3, <2>1, RecordWrites
<1>4. ASSUME NEW u \in User, NEW w \in Who, NEW asked \in Level \union {NoLevel}, Copy(u, w, asked)
      PROVE  Unseen \/ (\E level \in Level, d \in 0..MaxTime : Memory!HRecord(w, asked, level, d))
  <2>1. PICK level \in Level, at \in Nat :
            /\ at <= now /\ asked \in {NoLevel, level} /\ Write(u, w, asked, level, at, at)
            /\ \A a \in aliases : asked # NoLevel /\ a.user = u /\ a.who = w /\ a.level = level => a.setAt <= at
    BY <1>4, CopyWrites
  <2>. QED
    BY <1>1, <2>1
<1>5. ASSUME NEW u \in User, NEW w \in Who, NEW asked \in Level \union {NoLevel}, Touch(u, w, asked)
      PROVE  Unseen \/ Memory!HCached(w, asked)
    BY <1>5, TouchUnseen, TouchHits
<1>6. ASSUME NEW u \in User, NEW w \in Who, NEW level \in Level, Delete(u, w, level)
      PROVE  Unseen \/ (\E e \in EntriesOf(rows) : Memory!HRemove(e))
    BY <1>6, RemovalUnseen, DeleteRemoves
<1>7. ASSUME NEW u \in User, Clear(u) PROVE Unseen \/ Memory!HClear
    BY <1>7, RemovalUnseen, ClearClears
<1>8. ASSUME NEW q \in reads, SyncSummary(q) PROVE Unseen
    BY <1>2, <1>8, SyncKeeps DEF SyncSummary
<1>9. ASSUME NEW u \in User, NEW w \in Who, NEW level \in Level, Read(u, w, level) PROVE Unseen
    BY <1>2, <1>9 DEF Read
<1>10. CASE Tick \/ UNCHANGED vars
    BY <1>2, <1>10, UnseenStutters DEF Tick, vars
<1>11. CASE \E u \in User : Clear(u)
    BY <1>7, <1>11, UnseenStutters DEF Memory!HNext
<1>12. CASE \E u \in User, w \in Who, asked \in Level \union {NoLevel}, level \in Level : Record(u, w, asked, level)
    BY <1>3, <1>12, UnseenStutters DEF Memory!HNext
<1>13. CASE \E u \in User, w \in Who, asked \in Level \union {NoLevel} : Copy(u, w, asked)
    BY <1>4, <1>13, UnseenStutters DEF Memory!HNext
<1>14. CASE \E u \in User, w \in Who, asked \in Level \union {NoLevel} : Touch(u, w, asked)
    BY <1>5, <1>14, UnseenStutters DEF Memory!HNext
<1>15. CASE \E u \in User, w \in Who, level \in Level : Delete(u, w, level) \/ Read(u, w, level)
    BY <1>6, <1>9, <1>15, UnseenStutters DEF Memory!HNext
<1>16. CASE \E q \in reads : SyncSummary(q)
    BY <1>8, <1>16, UnseenStutters
<1>. QED
    BY <1>10, <1>11, <1>12, <1>13, <1>14, <1>15, <1>16 DEF Next

LEMMA InitRefines == Init => Memory!HInit
    BY DEF Init, Memory!HInit, EntriesOf, OrderOf, AutoLevelOf, Of

\* Any member's tables are an in-memory history, whatever the others do (history.ts:1-4).
THEOREM Implements == Spec => ImplementsHistory
<1>1. IInv /\ [Next]_vars => [Memory!HNext]_(Memory!hvars)
    BY StepRefines
<1>. QED
    BY <1>1, InitRefines, Invariance, PTL DEF Spec, ImplementsHistory, Memory!HSpec
===============================================================================
