----------------------------- MODULE UserHistory -----------------------------
(***************************************************************************)
(* The members' lookup histories: openUserHistory (src/hosted/history.ts), *)
(* two SQLite tables modelled as two sets of rows.  A row is found by the  *)
(* level its lookup resolved to; an auto request follows an alias to the   *)
(* level it resolved to last; a fresh row of another member counts as a    *)
(* hit and is copied.                                                      *)
(***************************************************************************)
EXTENDS Integers, FiniteSets

CONSTANTS
    User,       \* members
    Member,     \* one of them, whose history is compared with the in-memory one
    Who,        \* what cacheKey() holds besides the level: character, spec, metric, region
    Level,      \* key levels
    NoLevel,    \* a request that leaves the level to the lookup: level null
    MaxRows,    \* HISTORY_MAX_PER_USER
    Ttl,        \* SHARED_HISTORY_TTL_MS
    MaxTime,    \* bound: the clock
    MaxSeq,     \* bound: seq numbers
    MaxReads    \* bound: re-evaluations under way at once

ASSUME HistoryConstants ==
    /\ NoLevel \notin Level /\ Member \in User
    /\ MaxRows \in Nat \ {0} /\ Ttl \in Nat
    /\ {MaxTime, MaxSeq, MaxReads} \subseteq Nat

VARIABLES
    now,        \* the clock
    rows,       \* user_history
    aliases,    \* user_history_auto
    reads       \* rows read whose payload is being re-evaluated (an await) before syncSummary

vars == <<now, rows, aliases, reads>>

\* fetched: ghost, which fetch the payload is of (the clock when it was recorded);
\* summary: which payload verdict, score, spread and unproven were derived from.
Rows == [user: User, who: Who, level: Level, auto: BOOLEAN, fetchedAt: Nat, seq: Nat,
         fetched: Nat, summary: Nat]
Aliases == [user: User, who: Who, level: Level, setAt: Nat]
Reads == [user: User, who: Who, level: Level, fetchedAt: Nat, fetched: Nat]

At(table, u, w, l) == {r \in table : r.user = u /\ r.who = w /\ r.level = l}
AliasOf(u, w) == {a \in aliases : a.user = u /\ a.who = w}
Of(table, u) == {r \in table : r.user = u}

\* PRIMARY KEY (user_id, key) and PRIMARY KEY (user_id, alias_key); the cap holds
\* after every write; no two rows of a member share their place in the order.
TypeOK ==
    /\ now \in Nat
    /\ rows \subseteq Rows /\ aliases \subseteq Aliases /\ reads \subseteq Reads
    /\ \A r, s \in rows : r.user = s.user /\ (r.seq = s.seq \/ <<r.who, r.level>> = <<s.who, s.level>>) => r = s
    /\ \A a, b \in aliases : a.user = b.user /\ a.who = b.who => a = b
    /\ \A u \in User : Cardinality(Of(rows, u)) <= MaxRows

Init == now = 0 /\ rows = {} /\ aliases = {} /\ reads = {}

-----------------------------------------------------------------------------
(* write: the stale auto row, the alias, the upsert, the eviction.          *)

\* MAX(seq) + 1 of the member's rows.
IsNextSeq(table, u, n) ==
    /\ \A r \in Of(table, u) : r.seq < n
    /\ n = 1 \/ \E r \in Of(table, u) : r.seq = n - 1

\* The auto-detected level moved: the row the alias pointed at goes, unless some
\* explicit request owns it.
StaleAutoNone(u, w, asked, level) == {}                     \* mutant of StaleAuto
StaleAuto(u, w, asked, level) ==
    {r \in rows : /\ asked = NoLevel /\ r.user = u /\ r.who = w /\ r.level # level /\ r.auto
                  /\ \E a \in AliasOf(u, w) : a.level = r.level}

\* The rows past the cap: those with MaxRows newer ones or more.
Past(table, u) ==
    {r \in Of(table, u) : Cardinality({s \in Of(table, u) : s.seq > r.seq}) >= MaxRows}

\* forget: the alias goes with its row only if it points at it.
ForgottenKept(table, gone) == table                           \* mutant of Forgotten
Forgotten(table, gone) ==
    {a \in table : ~ \E r \in gone : r.user = a.user /\ r.who = a.who /\ r.level = a.level}

\* set_at is the date of the payload, not of the write.
AliasDateNow(fetchedAt) == now                              \* mutant of AliasDate
AliasDate(fetchedAt) == fetchedAt

Write(u, w, asked, level, fetchedAt, fetched) ==
    LET kept == rows \ (StaleAuto(u, w, asked, level) \union At(rows, u, w, level))
        pointed == IF asked = NoLevel
                   THEN (aliases \ AliasOf(u, w)) \union
                        {[user |-> u, who |-> w, level |-> level, setAt |-> AliasDate(fetchedAt)]}
                   ELSE aliases
    IN  \E n \in 1..MaxSeq :
          LET row == [user |-> u, who |-> w, level |-> level, auto |-> (asked = NoLevel),
                      fetchedAt |-> fetchedAt, seq |-> n, fetched |-> fetched,
                      summary |-> fetched]
              stored == kept \union {row}
          IN  /\ IsNextSeq(rows \ StaleAuto(u, w, asked, level), u, n)
              /\ rows' = stored \ Past(stored, u)
              /\ aliases' = Forgotten(pointed, Past(stored, u))
              /\ UNCHANGED <<now, reads>>

\* record: a lookup that fetched answers; an explicit request resolves to its level.
Record(u, w, asked, level) ==
    /\ asked \in {NoLevel, level}
    /\ Write(u, w, asked, level, now, now)

-----------------------------------------------------------------------------
(* cached: the own row, then a fresh row of another member.                 *)

\* resolveKey and getOne.
Own(u, w, asked) ==
    {r \in rows : /\ r.user = u /\ r.who = w
                  /\ r.level = asked \/ (asked = NoLevel /\ \E a \in AliasOf(u, w) : a.level = r.level)}

Fresh(at) == at >= now - Ttl

\* autoNewest: the newest fresh alias any user set (any of them, when two are as new).
SharedLevel(w, asked, level) ==
    \/ asked = level
    \/ /\ asked = NoLevel
       /\ \E a \in aliases :
            /\ a.who = w /\ a.level = level /\ Fresh(a.setAt)
            /\ \A b \in aliases : b.who = w => b.setAt <= a.setAt

\* sharedNewest for that level.
Shared(u, w, level) ==
    {r \in rows : /\ r.user # u /\ r.who = w /\ r.level = level /\ Fresh(r.fetchedAt)
                  /\ \A s \in rows : s.user # u /\ s.who = w /\ s.level = level
                                       => s.fetchedAt <= r.fetchedAt}

\* An own hit becomes the newest row; its date and payload stay.
TouchedNow(r, n) == [r EXCEPT !.seq = n, !.fetchedAt = now]   \* mutant of Touched
Touched(r, n) == [r EXCEPT !.seq = n]

Touch(u, w, asked) ==
    \E r \in Own(u, w, asked), n \in 1..MaxSeq :
        /\ IsNextSeq(rows, u, n)
        /\ rows' = (rows \ {r}) \union {Touched(r, n)}
        /\ UNCHANGED <<now, aliases, reads>>

\* The date a copy carries: the other member's fetch.
CopyDateNow(r) == now                                       \* mutant of CopyDate
CopyDate(r) == r.fetchedAt

Copy(u, w, asked) ==
    /\ Own(u, w, asked) = {}
    /\ \E level \in Level :
         /\ SharedLevel(w, asked, level)
         /\ \E r \in Shared(u, w, level) : Write(u, w, asked, level, CopyDate(r), r.fetched)

-----------------------------------------------------------------------------
(* The other operations of a HistoryStore.                                  *)

Delete(u, w, level) ==
    /\ At(rows, u, w, level) # {}
    /\ rows' = rows \ At(rows, u, w, level)
    /\ aliases' = Forgotten(aliases, At(rows, u, w, level))
    /\ UNCHANGED <<now, reads>>

\* DELETE /api/history; also what deleting the member cascades to.
Clear(u) ==
    /\ rows' = rows \ Of(rows, u)
    /\ aliases' = aliases \ Of(aliases, u)
    /\ UNCHANGED <<now, reads>>

\* A history read or a cache hit takes the payload and re-evaluates it ...
Read(u, w, level) ==
    /\ Cardinality(reads) < MaxReads
    /\ \E r \in At(rows, u, w, level) :
         reads' = reads \union {[user |-> u, who |-> w, level |-> level,
                                 fetchedAt |-> r.fetchedAt, fetched |-> r.fetched]}
    /\ UNCHANGED <<now, rows, aliases>>

\* ... and stores the summary, unless the row was replaced meanwhile.
SyncTargetAny(q) == At(rows, q.user, q.who, q.level)        \* mutant of SyncTarget
SyncTarget(q) == {r \in At(rows, q.user, q.who, q.level) : r.fetchedAt = q.fetchedAt}

SyncSummary(q) ==
    /\ rows' = (rows \ SyncTarget(q)) \union {[r EXCEPT !.summary = q.fetched] : r \in SyncTarget(q)}
    /\ reads' = reads \ {q}
    /\ UNCHANGED <<now, aliases>>

Tick ==
    /\ now < MaxTime
    /\ now' = now + 1
    /\ UNCHANGED <<rows, aliases, reads>>

Next ==
    \/ Tick
    \/ \E u \in User :
         \/ Clear(u)
         \/ \E w \in Who :
              \/ \E asked \in Level \union {NoLevel} : Touch(u, w, asked) \/ Copy(u, w, asked)
              \/ \E level \in Level : Delete(u, w, level) \/ Read(u, w, level)
              \/ \E level \in Level, asked \in Level \union {NoLevel} : Record(u, w, asked, level)
    \/ \E q \in reads : SyncSummary(q)

Spec == Init /\ [][Next]_vars

-----------------------------------------------------------------------------
(* What the histories promise.                                              *)

\* Every alias leads to a row: an auto request that was resolved once never misses the
\* member's own tab while the alias lives; and a tab with the "auto" badge is the one its
\* alias points at: when the detected level moves, no outdated auto tab stays behind
\* (write and forget, history.ts:166-191).
AliasTabs ==
    /\ \A a \in aliases : At(rows, a.user, a.who, a.level) # {}
    /\ \A r \in rows : r.auto => \E a \in AliasOf(r.user, r.who) : a.level = r.level

\* Two members vetting the same applicant cost one fetch: while anyone's alias is
\* fresh, every other member's auto request is a hit (shared, history.ts:202-208).
OneFetchForAll ==
    \A a \in aliases : Fresh(a.setAt) =>
        \A u \in User :
            \/ Own(u, a.who, NoLevel) # {}
            \/ \E level \in Level :
                 SharedLevel(a.who, NoLevel, level) /\ Shared(u, a.who, level) # {}

\* A payload that enters a member's history was fetched at most Ttl ago, even when it
\* comes as a copy of a copy (cached, history.ts:212-223).
SharedIsFresh ==
    [][\A r \in rows' :
         \/ r.fetched >= now - Ttl
         \/ \E s \in rows : <<s.user, s.who, s.level, s.fetched>> = <<r.user, r.who, r.level, r.fetched>>]_vars

\* The verdict and score of a row are those of its own payload: a re-evaluation that a
\* Refresh overtook does not write over the newer one (syncSummary, history.ts:145-150).
SummaryOfPayload == \A r \in rows : r.summary = r.fetched

\* A member's rows as the in-memory history holds them: the seq numbers are an order only.
EntriesOf(table) ==
    {[who |-> r.who, level |-> r.level, auto |-> r.auto, fetchedAt |-> r.fetchedAt,
      summary |-> r.summary] : r \in Of(table, Member)}
TabOf(r) == [who |-> r.who, level |-> r.level]
OrderOf(table) ==
    {<<TabOf(p[1]), TabOf(p[2])>> :
        p \in {p \in Of(table, Member) \X Of(table, Member) : p[1].seq < p[2].seq}}
AutoLevelOf(table) == {TabOf(a) : a \in Of(table, Member)}

Memory == INSTANCE History WITH
            entries <- EntriesOf(rows),
            before <- OrderOf(rows),
            autoLevel <- AutoLevelOf(aliases),
            Time <- 0..MaxTime

\* Any member's history has the semantics of the in-memory one, whatever the others do; a
\* copied row is a record dated by the other member's fetch (history.ts:1-4).
ImplementsHistory == Memory!HSpec

=============================================================================
