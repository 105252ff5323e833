------------------------------ MODULE BnetLink ------------------------------
(***************************************************************************)
(* Battle.net linking: the OAuth callback that imports an account's        *)
(* characters, the pick, the edits of the list and the unlink              *)
(* (src/server/routes-bnet.ts, src/hosted/bnet-db.ts, routes-user.ts), and *)
(* the round of the 30-day check (src/hosted/bnet-check.ts), which asks    *)
(* Blizzard one character at a time while members edit their lists.        *)
(*                                                                         *)
(* Lists are sets: their order and their cap matter to no property here.   *)
(***************************************************************************)
EXTENDS Naturals, FiniteSets

CONSTANTS
    User, Account, Char,
    AccountOf,      \* [Char -> Account]: Blizzard's side
    Tab,            \* slots of concurrently running callbacks
    NoAccount, NoUser,
    ImportTtl,      \* BNET_IMPORT_TTL_MS
    CheckAfter,     \* BNET_CHECK_AFTER_MS
    MaxAge,         \* BNET_MAX_AGE_MS
    MaxTime,        \* bound: ticks
    MaxRounds       \* bound: rounds

ASSUME LinkConstants ==
    /\ AccountOf \in [Char -> Account]
    /\ NoAccount \notin Account /\ NoUser \notin User
    /\ {ImportTtl, CheckAfter, MaxAge, MaxTime, MaxRounds} \subseteq Nat
    /\ CheckAfter <= MaxAge

VARIABLES
    now,
    link,       \* user_bnet: the account linked by each member
    labels,     \* user_bnet.removed: what the rounds removed from each list
    imports,    \* bnet_imports: candidates and when they were read
    list,       \* user_settings.characters
    callback,   \* the running callbacks, past the check of the account's owner
    round,      \* the check round
    hasty       \* ghost: entries removed as unchecked though checked or picked lately

vars == <<now, link, labels, imports, list, callback, round, hasty>>

Entries == [char: Char, verifiedAt: Nat]
NoImport == [chars |-> {}, at |-> 0]
NoCallback == [user |-> NoUser, account |-> NoAccount]
Outcomes == {"unasked", "valid", "gone", "unchecked", "failed"}

\* due: the entries as read when the round began; user: whose entries are being asked
\* about, out: what Blizzard said of them; checked: the members this round is done with.
Rounds == [on: BOOLEAN, at: Nat, token: BOOLEAN, due: [User -> SUBSET Entries],
           user: User \union {NoUser}, out: [Char -> Outcomes], checked: SUBSET User, n: Nat]

Unasked == [c \in Char |-> "unasked"]
NothingDue == [u \in User |-> {}]

TypeOK ==
    /\ now \in Nat
    /\ link \in [User -> Account \union {NoAccount}]
    /\ labels \in [User -> SUBSET Char]
    /\ imports \in [User -> {NoImport} \union [chars: (SUBSET Char) \ {{}}, at: Nat]]
    /\ list \in [User -> SUBSET Entries]
    /\ callback \in [Tab -> [user: User \union {NoUser}, account: Account \union {NoAccount}]]
    /\ round \in Rounds
    /\ hasty \subseteq User \X Char

Init ==
    /\ now = 1
    /\ link = [u \in User |-> NoAccount]
    /\ labels = [u \in User |-> {}]
    /\ imports = [u \in User |-> NoImport]
    /\ list = [u \in User |-> {}]
    /\ callback = [t \in Tab |-> NoCallback]
    /\ round = [on |-> FALSE, at |-> 0, token |-> FALSE, due |-> NothingDue, user |-> NoUser,
                out |-> Unasked, checked |-> {}, n |-> 0]
    /\ hasty = {}

Tick ==
    /\ now < MaxTime /\ now' = now + 1
    /\ UNCHANGED <<link, labels, imports, list, callback, round, hasty>>

-----------------------------------------------------------------------------
(* The member's requests.                                                   *)

\* Mutant of HeldByOther: neither the check nor the UNIQUE column.
HeldByNobody(u, a) == FALSE
HeldByOther(u, a) == \E v \in User \ {u} : link[v] = a

\* The callback, up to the answer of /userinfo: taken, or on to the four regions.
Identify(t, u, a) ==
    /\ callback[t] = NoCallback /\ ~HeldByOther(u, a)
    /\ callback' = [callback EXCEPT ![t] = [user |-> u, account |-> a]]
    /\ UNCHANGED <<now, link, labels, imports, list, round, hasty>>

\* A region fails, or another member has linked the account meanwhile (UNIQUE).
Abandon(t) ==
    /\ callback[t] # NoCallback
    /\ callback' = [callback EXCEPT ![t] = NoCallback]
    /\ UNCHANGED <<now, link, labels, imports, list, round, hasty>>

\* Mutant of Relinks: the old account is kept.
RelinksNever(u, a) == FALSE
\* Linking another account first unlinks the old one.
Relinks(u, a) == link[u] \notin {a, NoAccount}

\* An empty import deletes the older one.
NewImport(seen) == IF seen = {} THEN NoImport ELSE [chars |-> seen, at |-> now]

\* link.put and the import, in one synchronous block; seen: what the regions listed
\* (a character may have been deleted, renamed or moved away).
Import(t, seen) ==
    LET u == callback[t].user
        a == callback[t].account
    IN  /\ callback[t] # NoCallback /\ ~HeldByOther(u, a)
        /\ \A c \in seen : AccountOf[c] = a
        /\ link' = [link EXCEPT ![u] = a]
        /\ labels' = [labels EXCEPT ![u] = IF Relinks(u, a) THEN {} ELSE @]
        /\ list' = [list EXCEPT ![u] = IF Relinks(u, a) THEN {} ELSE @]
        /\ imports' = [imports EXCEPT ![u] = NewImport(seen)]
        /\ callback' = [callback EXCEPT ![t] = NoCallback]
        /\ UNCHANGED <<now, round, hasty>>

Expired(u) == now - imports[u].at > ImportTtl

\* imports.get on an expired row.
DropImport(u) ==
    /\ imports[u] # NoImport /\ Expired(u)
    /\ imports' = [imports EXCEPT ![u] = NoImport]
    /\ UNCHANGED <<now, link, labels, list, callback, round, hasty>>

\* PUT /api/bnet/characters.
Pick(u, picks) ==
    /\ imports[u] # NoImport /\ ~Expired(u)
    /\ picks # {} /\ picks \subseteq imports[u].chars
    /\ list' = [list EXCEPT ![u] = [char: picks, verifiedAt: {now}]]
    /\ imports' = [imports EXCEPT ![u] = NoImport]
    /\ labels' = [labels EXCEPT ![u] = {}]
    /\ UNCHANGED <<now, link, callback, round, hasty>>

\* PUT /api/settings: restrictToStored keeps stored entries only.
Keep(u, entries) ==
    /\ entries \subseteq list[u]
    /\ list' = [list EXCEPT ![u] = entries]
    /\ UNCHANGED <<now, link, labels, imports, callback, round, hasty>>

\* DELETE /api/bnet.
Unlink(u) ==
    /\ link' = [link EXCEPT ![u] = NoAccount]
    /\ labels' = [labels EXCEPT ![u] = {}]
    /\ imports' = [imports EXCEPT ![u] = NoImport]
    /\ list' = [list EXCEPT ![u] = {}]
    /\ UNCHANGED <<now, callback, round, hasty>>

-----------------------------------------------------------------------------
(* checkBnetCharacters.                                                     *)

DueOf(u) == {e \in list[u] : now - e.verifiedAt > CheckAfter}

\* What is due is read once; then the application token answers, or fails.
StartRound(token) ==
    /\ ~round.on /\ round.n < MaxRounds
    /\ \E u \in User : DueOf(u) # {}
    /\ round' = [on |-> TRUE, at |-> now, token |-> token, due |-> [u \in User |-> DueOf(u)],
                 user |-> NoUser, out |-> Unasked,
                 checked |-> {u \in User : DueOf(u) = {}}, n |-> round.n + 1]
    /\ UNCHANGED <<now, link, labels, imports, list, callback, hasty>>

NextMember(u) ==
    /\ round.on /\ round.user = NoUser /\ round.due[u] # {}
    /\ round' = [round EXCEPT !.user = u, !.out = Unasked]
    /\ UNCHANGED <<now, link, labels, imports, list, callback, hasty>>

\* answer: what Blizzard says of the character, if the call succeeds.
Answers == {"valid", "gone", "none"}

\* Mutant of Outcome: an unanswered check never removes.
OutcomeLenient(e, answer) == IF answer = "none" THEN "failed" ELSE answer
Outcome(e, answer) ==
    CASE answer # "none" -> answer
      [] answer = "none" /\ round.at - e.verifiedAt > MaxAge -> "unchecked"
      [] OTHER -> "failed"

Ask(e, answer) ==
    /\ round.on /\ round.user # NoUser
    /\ e \in round.due[round.user] /\ round.out[e.char] = "unasked"
    /\ answer # "none" => round.token
    /\ round' = [round EXCEPT !.out[e.char] = Outcome(e, answer)]
    /\ UNCHANGED <<now, link, labels, imports, list, callback, hasty>>

MaxOf(a, b) == IF a < b THEN b ELSE a

\* Mutant of Confirmed: the round's date replaces a later one.
ConfirmedAt(e) == [e EXCEPT !.verifiedAt = round.at]
Confirmed(e) == [e EXCEPT !.verifiedAt = MaxOf(round.at, @)]

\* Mutant of ListToApply: the list as read when the round began.
ListToApplyRead(u) == round.due[u]
\* The list as stored now.
ListToApply(u) == list[u]

Removes(e) == round.out[e.char] \in {"gone", "unchecked"}

Apply(u) ==
    LET stored == ListToApply(u)
        kept == {e \in stored : ~Removes(e)}
        gone == {e \in stored : Removes(e)}
    IN  /\ round.on /\ round.user = u
        /\ \A e \in round.due[u] : round.out[e.char] # "unasked"
        /\ list' = [list EXCEPT ![u] =
             {IF round.out[e.char] = "valid" THEN Confirmed(e) ELSE e : e \in kept}]
        /\ labels' = [labels EXCEPT ![u] =
             IF link[u] = NoAccount THEN @ ELSE @ \union {e.char : e \in gone}]
        /\ hasty' = hasty \union
             {<<u, e.char>> : e \in {x \in gone : /\ round.out[x.char] = "unchecked"
                                                   /\ now - x.verifiedAt <= MaxAge}}
        /\ round' = [round EXCEPT !.user = NoUser, !.due[u] = {}, !.out = Unasked,
                                  !.checked = @ \union {u}]
        /\ UNCHANGED <<now, link, imports, callback>>

\* The member's list could not be written: reported, and on to the next member.
ApplyFails(u) ==
    /\ round.on /\ round.user = u
    /\ \A e \in round.due[u] : round.out[e.char] # "unasked"
    /\ round' = [round EXCEPT !.user = NoUser, !.due[u] = {}, !.out = Unasked]
    /\ UNCHANGED <<now, link, labels, imports, list, callback, hasty>>

EndRound ==
    /\ round.on /\ round.due = NothingDue
    /\ round' = [round EXCEPT !.on = FALSE]
    /\ UNCHANGED <<now, link, labels, imports, list, callback, hasty>>

Next ==
    \/ Tick \/ EndRound
    \/ \E t \in Tab :
         \/ Abandon(t)
         \/ \E u \in User, a \in Account : Identify(t, u, a)
         \/ \E seen \in SUBSET Char : Import(t, seen)
    \/ \E u \in User :
         \/ DropImport(u) \/ Unlink(u)
         \/ \E picks \in SUBSET imports[u].chars : Pick(u, picks)
         \/ \E entries \in SUBSET list[u] : Keep(u, entries)
         \/ NextMember(u) \/ Apply(u) \/ ApplyFails(u)
         \/ \E e \in round.due[u], answer \in Answers : Ask(e, answer)
    \/ \E token \in BOOLEAN : StartRound(token)

Spec == Init /\ [][Next]_vars

-----------------------------------------------------------------------------
(* What linking promises.                                                   *)

CharsOf(u) == {e.char : e \in list[u]}

\* Every Battle.net character a member keeps, may pick or is told of belongs to the
\* account he is linked to: an unlink or another account leaves nothing behind, even
\* when a round started before it ends after it (bnet-db.ts:75-89, bnet-check.ts:90-101).
\* That account is nobody else's, though each checks before reading the four regions
\* and links after (routes-bnet.ts:66-87).
Owned ==
    \A u \in User :
        /\ \A c \in CharsOf(u) \union imports[u].chars \union labels[u] : AccountOf[c] = link[u]
        /\ link[u] # NoAccount => \A v \in User : link[v] = link[u] => v = u

\* After a round, nothing it could write is older than the 30 days counted at its
\* start, though Blizzard never answered (bnet-check.ts:67).
Retention ==
    \A u \in round.checked : \A e \in list[u] : round.at <= e.verifiedAt + MaxAge

\* A check never takes back a later check or pick: a character's date only moves
\* forward while it stays in the list (bnet-check.ts:115).
VerifiedForward ==
    [][\A u \in User : \A e \in list[u] : \A f \in list'[u] :
         e.char = f.char => e.verifiedAt <= f.verifiedAt]_vars

\* bnet-check.ts:4: a failure keeps the entry until 30 days without a successful check.
NeverHasty == hasty = {}

=============================================================================
