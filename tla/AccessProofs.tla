----------------------------- MODULE AccessProofs -----------------------------
(***************************************************************************)
(* For any number of accounts, browsers, secrets and requests: nobody the  *)
(* instance would not let in is signed in, every row is its account's, and *)
(* a member's own client is never misled by a token of another time; a     *)
(* pending sign-in passes once, the cap evicts the oldest; and an approved *)
(* proposal changes nothing for its author.                                *)
(*                                                                         *)
(* Before all of them stands the rate limiter: it never accepts too much   *)
(* and cannot be told apart from one that forgets nothing, since the list  *)
(* a key keeps is the tail of everything it accepted, and what came before *)
(* that tail has left the window.                                          *)
(***************************************************************************)
EXTENDS Access, OwnClient, RateLimiter, OAuthStates, Defensives, FiniteSetTheorems, SequenceTheorems, WellFoundedInduction, TLAPS

-----------------------------------------------------------------------------
(* Accounts: the inductive invariant                                       *)

\* An id is one account's at a time.
OneRow == \A a, c \in Account : user[a].id # 0 /\ user[a].id = user[c].id => a = c

\* A callback under way is of an account.
RealSignIns == \A b \in Browser : signin[b].step # "idle" => signin[b].account \in Account

\* Who waits for his guilds is still admissible, or was shut out since.
GateHonest ==
    \A b \in Browser :
        signin[b].step = "guild" => Admissible(signin[b].account) \/ signin[b].raced

\* A save under way is for its account's row, unless that was deleted.
SavesOwned == \A q \in save : q.orphan \/ user[q.account].id = q.id

AccessIInv ==
    AccessTypeOK /\ OneRow /\ RealSignIns /\ GateHonest /\ SavesOwned /\ ClosedOut /\ OwnRows

-----------------------------------------------------------------------------
(* The id of a new row.                                                    *)

\* A bounded set of numbers has a greatest element, and Max is it.
LEMMA MaxIsGreatest ==
    ASSUME NEW n \in Nat, NEW S \in SUBSET (0..n), S # {}
    PROVE Max(S) \in S /\ \A y \in S : Max(S) >= y
<1>. DEFINE T == {n - x : x \in S}
<1>0. \A x \in S : x \in Nat /\ n - x \in Nat
  <2>. SUFFICES ASSUME NEW x \in 0..n PROVE x \in Nat /\ n - x \in Nat
    OBVIOUS
  <2>. QED
    OBVIOUS
<1>1. T \subseteq Nat /\ T # {}
    BY <1>0
<1>2. PICK t \in T : \A y \in T : ~(<<y, t>> \in OpToRel(<, Nat))
  <2>. HIDE DEF T
  <2>. QED
    BY <1>1, WFMin, NatLessThanWellFounded, Zenon
<1>3. \A y \in T : t <= y
  <2>. SUFFICES ASSUME NEW y \in T PROVE t <= y
    OBVIOUS
  <2>1. y \in Nat /\ t \in Nat
    BY <1>1
  <2>2. ~(y < t)
    BY <1>2, <2>1 DEF OpToRel
  <2>. QED
    BY <2>1, <2>2
<1>4. PICK x \in S : t = n - x
    OBVIOUS
<1>5. \A y \in S : x >= y
  <2>. SUFFICES ASSUME NEW y \in S PROVE x >= y
    OBVIOUS
  <2>1. n - y \in T
    OBVIOUS
  <2>2. x \in Nat /\ y \in Nat
    BY <1>0
  <2>3. n - x <= n - y
    BY <1>3, <1>4, <2>1
  <2>. HIDE DEF T
  <2>. QED
    BY <2>2, <2>3
<1>. QED
    BY <1>5 DEF Max

\* SQLite's id of a new row is nobody's.
LEMMA NewIdFresh ==
    ASSUME AccessTypeOK
    PROVE NewId \in Nat \ {0} /\ \A a \in Account : user[a].id # NewId
<1>. DEFINE S == {0} \union {user[a].id : a \in Account}
<1>1. S \in SUBSET (0..MaxId) /\ S # {}
    BY AccessConstants DEF AccessTypeOK, Users
<1>2. Max(S) \in S /\ \A y \in S : Max(S) >= y
    BY <1>1, MaxIsGreatest, AccessConstants
<1>3. NewId = 1 + Max(S)
    BY DEF NewId
<1>4. \A a \in Account : user[a].id \in S
    OBVIOUS
<1>5. \A y \in S : y \in Nat
  <2>. SUFFICES ASSUME NEW y \in 0..MaxId PROVE y \in Nat
    BY <1>1
  <2>. QED
    BY AccessConstants
<1>6. \A a \in Account : user[a].id <= Max(S) /\ user[a].id \in Nat
    BY <1>2, <1>4, <1>5
<1>. HIDE DEF S
<1>7. Max(S) \in Nat
    BY <1>2, <1>5
<1>. QED
    BY <1>3, <1>6, <1>7

-----------------------------------------------------------------------------
(* The steps.                                                              *)

\* Letting an account in keeps its row or gives it an id of its own; the other rows stay.
LEMMA LetInRows ==
    ASSUME AccessIInv, NEW b \in Browser, NEW raced \in BOOLEAN, signin[b].step # "idle",
           LetIn(b, raced),
           NEW a, a = signin[b].account
    PROVE  /\ a \in Account
           /\ SignedUp(a) \in Users /\ SignedUp(a).id \in Id
           /\ SignedUp(a).banned = user[a].banned
           /\ user' = [user EXCEPT ![a] = SignedUp(a)]
           /\ user[a].id # 0 => SignedUp(a) = user[a]
           /\ user[a].id = 0 => \A c \in Account : user[c].id # SignedUp(a).id
<1>1. a \in Account
    BY DEF AccessIInv, RealSignIns
<1>2. user[a] \in Users /\ user \in [Account -> Users]
    BY <1>1 DEF AccessIInv, AccessTypeOK
<1>3. SignedUp(a).id \in Id /\ user' = [user EXCEPT ![a] = SignedUp(a)]
    BY DEF LetIn
<1>4. NewId \in Nat \ {0} /\ \A c \in Account : user[c].id # NewId
    BY NewIdFresh DEF AccessIInv
<1>5. SignedUp(a).banned = user[a].banned
    BY <1>2 DEF SignedUp, Users
<1>6. user[a].id # 0 => SignedUp(a) = user[a]
    BY <1>2 DEF SignedUp, HasRow, Users
<1>7. user[a].id = 0 => SignedUp(a).id = NewId
    BY <1>2 DEF SignedUp, HasRow, Users
<1>8. SignedUp(a) \in Users
    BY <1>2, <1>3 DEF SignedUp, Users, Id
<1>. QED
    BY <1>1, <1>3, <1>4, <1>5, <1>6, <1>7, <1>8

\* The account of a browser that is signed in has a row.
LEMMA SignedInHasRow ==
    ASSUME AccessTypeOK, NEW b \in Browser, NEW a \in SignedIn(b)
    PROVE  a \in Account /\ user[a].id \in Id /\ user[a].id # 0
BY DEF AccessTypeOK, SignedIn, Held, Sessions, Id

LEMMA LetInStep ==
    ASSUME AccessIInv, NEW b \in Browser, NEW raced \in BOOLEAN, signin[b].step # "idle",
           LetIn(b, raced), Admissible(signin[b].account) \/ raced
    PROVE  AccessIInv'
<1>. DEFINE a == signin[b].account
            kept == SignedUp(a)
            new == [sid |-> created + 1, id |-> kept.id, raced |-> raced]
<1>1. /\ a \in Account
      /\ kept \in Users /\ kept.id \in Id
      /\ kept.banned = user[a].banned
      /\ user' = [user EXCEPT ![a] = kept]
      /\ user[a].id # 0 => kept = user[a]
      /\ user[a].id = 0 => \A c \in Account : user[c].id # kept.id
    BY LetInRows
<1>2. /\ session' \subseteq session \union {new} /\ new \in session'
      /\ signin' = [signin EXCEPT ![b] = NoSignIn]
      /\ created' = created + 1 /\ created < MaxSessions
      /\ cookie' = [cookie EXCEPT ![b] = created + 1]
      /\ UNCHANGED <<config, invited, save, client>>
    BY DEF LetIn
<1>3. /\ \A i \in Id : i # 0
      /\ new.id = kept.id /\ new.raced = raced
    BY DEF Id
<1>. HIDE DEF kept
<1>4. /\ user \in [Account -> Users]
      /\ \A c \in Account : c # a => user'[c] = user[c]
      /\ user'[a] = kept
    BY <1>1 DEF AccessIInv, AccessTypeOK
<1>5. AccessTypeOK'
  <2>1. created + 1 \in 1..MaxSessions
    BY <1>2, AccessConstants DEF AccessIInv, AccessTypeOK
  <2>2. new \in Sessions
    BY <1>1, <2>1 DEF Sessions
  <2>3. NoSignIn \in SignIns
    BY AccessConstants DEF NoSignIn, SignIns
  <2>. QED
    BY <1>1, <1>2, <2>1, <2>2, <2>3 DEF AccessIInv, AccessTypeOK
<1>6. OneRow'
    BY <1>1, <1>3, <1>4 DEF AccessIInv, OneRow
<1>7. RealSignIns' /\ GateHonest'
  <2>1. \A c \in Browser : c # b => signin'[c] = signin[c]
    BY <1>2 DEF AccessIInv, AccessTypeOK
  <2>2. signin'[b].step = "idle"
    BY <1>2 DEF AccessIInv, AccessTypeOK, NoSignIn
  <2>3. \A c \in Account : Admissible(c) => Admissible(c)'
    BY <1>1, <1>2, <1>4 DEF Admissible
  <2>. QED
    BY <2>1, <2>2, <2>3 DEF AccessIInv, RealSignIns, GateHonest
<1>8. SavesOwned'
  <2>1. \A q \in save : q.account \in Account /\ q.id \in Id
    BY DEF AccessIInv, AccessTypeOK, Saves
  <2>. QED
    BY <1>1, <1>2, <1>3, <1>4, <2>1 DEF AccessIInv, SavesOwned
<1>9. ClosedOut'
  <2>. SUFFICES ASSUME NEW c \in Account, NEW s \in session', s.id = user'[c].id
                PROVE  Admissible(c)' \/ s.raced
    BY DEF ClosedOut, OfUser
  <2>1. Admissible(c)' <=> Admissible(c)
    BY <1>1, <1>2, <1>4 DEF Admissible
  <2>2. CASE s = new
    <3>1. c = a
      BY <1>1, <1>3, <1>4, <2>2 DEF AccessIInv, OneRow
    <3>. QED
      BY <2>1, <2>2, <3>1, <1>3
  <2>3. CASE s \in session
    <3>1. s.id \in Id /\ \E d \in Account : user[d].id = s.id
      BY <2>3 DEF AccessIInv, AccessTypeOK, Sessions, OwnRows, Owner
    <3>2. user[c].id = s.id
      BY <1>1, <1>4, <3>1
    <3>. QED
      BY <2>1, <2>3, <3>2 DEF AccessIInv, ClosedOut, OfUser
  <2>. QED
    BY <1>2, <2>2, <2>3
<1>10. OwnRows'
  <2>1. \A i \in Id : Owner(i) # {} => Owner(i)' = Owner(i)
    <3>. SUFFICES ASSUME NEW i \in Id, Owner(i) # {}, NEW c \in Account
                  PROVE  user'[c].id = i <=> user[c].id = i
      BY DEF Owner
    <3>. QED
      BY <1>1, <1>3, <1>4 DEF Owner
  <2>2. \A i \in Id : i = new.id => Owner(i)' # {}
    BY <1>1, <1>3, <1>4 DEF Owner
  <2>3. \A s \in session : s.id \in Id
    BY DEF AccessIInv, AccessTypeOK, Sessions
  <2>4. ASSUME NEW s \in session' PROVE Owner(s.id)' # {}
    BY <1>1, <1>2, <1>3, <2>1, <2>2, <2>3 DEF AccessIInv, OwnRows
  <2>. QED
    BY <1>2, <2>1, <2>4 DEF AccessIInv, OwnRows
<1>. QED
    BY <1>5, <1>6, <1>7, <1>8, <1>9, <1>10 DEF AccessIInv

\* The account of the browser is deleted, with its sessions and its client.
LEMMA DeleteMeStep ==
    ASSUME AccessIInv, NEW b \in Browser, DeleteMe(b)
    PROVE  AccessIInv'
<1>1. PICK a \in SignedIn(b) :
        /\ user' = [user EXCEPT ![a] = NoUser]
        /\ session' = session \ OfUser(user[a].id)
        /\ client' = [client EXCEPT ![user[a].id] = ClientLeft(user[a].id)]
        /\ cookie' = [cookie EXCEPT ![b] = 0]
        /\ save' = {IF q.account = a THEN [q EXCEPT !.orphan = TRUE] ELSE q : q \in save}
        /\ UNCHANGED <<config, created, invited, signin>>
    BY DEF DeleteMe
<1>2. a \in Account /\ user[a].id \in Id /\ user[a].id # 0
    BY SignedInHasRow DEF AccessIInv
<1>3. /\ user \in [Account -> Users]
      /\ \A c \in Account : c # a => user'[c] = user[c]
      /\ user'[a] = NoUser
    BY <1>1, <1>2 DEF AccessIInv, AccessTypeOK
<1>4. user'[a].id = 0 /\ ~user'[a].banned
    BY <1>3 DEF NoUser
<1>5. AccessTypeOK'
  <2>1. NoUser \in Users /\ NoClient \in Clients
    BY AccessConstants DEF NoUser, NoClient, Users, Clients
  <2>2. save' \subseteq Saves
    <3>. SUFFICES ASSUME NEW q \in save PROVE [q EXCEPT !.orphan = TRUE] \in Saves /\ q \in Saves
      BY <1>1
    <3>. QED
      BY DEF AccessIInv, AccessTypeOK, Saves
  <2>. QED
    BY <1>1, <1>2, <2>1, <2>2, AccessConstants DEF AccessIInv, AccessTypeOK, ClientLeft
<1>6. OneRow'
    BY <1>3, <1>4 DEF AccessIInv, OneRow
<1>7. \A c \in Account : Admissible(c) => Admissible(c)'
    BY <1>1, <1>3, <1>4 DEF Admissible
<1>8. RealSignIns' /\ GateHonest'
    BY <1>1, <1>7 DEF AccessIInv, RealSignIns, GateHonest
<1>9. SavesOwned'
  <2>. SUFFICES ASSUME NEW p \in save' PROVE p.orphan \/ user'[p.account].id = p.id
    BY DEF SavesOwned
  <2>. PICK q \in save : p = IF q.account = a THEN [q EXCEPT !.orphan = TRUE] ELSE q
    BY <1>1
  <2>1. q \in Saves
    BY DEF AccessIInv, AccessTypeOK
  <2>2. CASE q.account = a
    BY <2>1, <2>2 DEF Saves
  <2>3. CASE q.account # a
    BY <1>3, <2>1, <2>3 DEF Saves, AccessIInv, SavesOwned
  <2>. QED
    BY <2>2, <2>3
<1>10. ClosedOut'
  <2>. SUFFICES ASSUME NEW c \in Account, NEW s \in session', s.id = user'[c].id
                PROVE  Admissible(c)' \/ s.raced
    BY DEF ClosedOut, OfUser
  <2>1. s \in session /\ s.id \in Id
    BY <1>1 DEF AccessIInv, AccessTypeOK, Sessions
  <2>2. c # a
    BY <1>4, <2>1 DEF Id
  <2>. QED
    BY <1>3, <1>7, <2>1, <2>2 DEF AccessIInv, ClosedOut, OfUser
<1>11. OwnRows'
  <2>1. \A i \in Id : i # user[a].id => Owner(i)' = Owner(i)
    <3>. SUFFICES ASSUME NEW i \in Id, i # user[a].id, NEW c \in Account
                  PROVE  user'[c].id = i <=> user[c].id = i
      BY DEF Owner
    <3>. QED
      BY <1>3, <1>4 DEF Id
  <2>2. \A s \in session' : s \in session /\ s.id \in Id /\ s.id # user[a].id
    BY <1>1 DEF AccessIInv, AccessTypeOK, Sessions, OfUser
  <2>3. \A i \in Id : i # user[a].id => client'[i] = client[i]
    BY <1>1 DEF AccessIInv, AccessTypeOK
  <2>4. client'[user[a].id] = NoClient
    BY <1>1, <1>2 DEF AccessIInv, AccessTypeOK, ClientLeft
  <2>5. \A s \in session' : Owner(s.id)' # {}
    BY <2>1, <2>2 DEF AccessIInv, OwnRows
  <2>. QED
    BY <2>1, <2>3, <2>4, <2>5 DEF AccessIInv, OwnRows
<1>. QED
    BY <1>5, <1>6, <1>8, <1>9, <1>10, <1>11 DEF AccessIInv

\* Shutting an account out: its row keeps its id, its sessions end, its callbacks are raced.
LEMMA ShutOutStep ==
    ASSUME AccessIInv, NEW a \in Account, NEW f \in [Account -> Users],
           user' = f, \A c \in Account : f[c].id = user[c].id,
           \A c \in Account : c # a => f[c] = user[c] /\ (c \in invited' <=> c \in invited),
           invited' \subseteq Account,
           session' \subseteq session,
           OfUser(user[a].id) \intersect session' = {} \/ (Admissible(a) => Admissible(a)'),
           Raced(a), UNCHANGED <<config, created, cookie, save, client>>
    PROVE  AccessIInv'
<1>1. /\ signin' \in [Browser -> SignIns]
      /\ \A b \in Browser :
            /\ signin'[b].step = signin[b].step /\ signin'[b].account = signin[b].account
            /\ signin[b].raced => signin'[b].raced
            /\ signin[b].step = "guild" /\ signin[b].account = a => signin'[b].raced
  <2>1. signin \in [Browser -> SignIns]
    BY DEF AccessIInv, AccessTypeOK
  <2>2. ASSUME NEW b \in Browser
        PROVE  /\ signin'[b] \in SignIns
               /\ signin'[b].step = signin[b].step /\ signin'[b].account = signin[b].account
               /\ signin[b].raced => signin'[b].raced
               /\ signin[b].step = "guild" /\ signin[b].account = a => signin'[b].raced
    <3>1. signin'[b] = IF signin[b].step = "guild" /\ signin[b].account = a
                       THEN [signin[b] EXCEPT !.raced = TRUE] ELSE signin[b]
      BY DEF Raced
    <3>. QED
      BY <2>1, <3>1 DEF SignIns
  <2>. QED
    BY <2>1, <2>2 DEF Raced
<1>2. AccessTypeOK'
    BY <1>1 DEF AccessIInv, AccessTypeOK
<1>3. \A c \in Account : c # a => (Admissible(c)' <=> Admissible(c))
    BY DEF Admissible
<1>4. OneRow' /\ SavesOwned'
    BY DEF AccessIInv, AccessTypeOK, Saves, OneRow, SavesOwned
<1>5. RealSignIns' /\ GateHonest'
  <2>1. RealSignIns'
    BY <1>1 DEF AccessIInv, RealSignIns
  <2>2. ASSUME NEW b \in Browser, NEW c, c = signin'[b].account, signin'[b].step = "guild"
        PROVE  Admissible(c)' \/ signin'[b].raced
    <3>1. c \in Account /\ (Admissible(c) \/ signin[b].raced)
      BY <1>1, <2>2 DEF AccessIInv, RealSignIns, GateHonest
    <3>. QED
      BY <1>1, <1>3, <2>2, <3>1
  <2>. QED
    BY <2>1, <2>2 DEF GateHonest
<1>6. ClosedOut'
  <2>. SUFFICES ASSUME NEW c \in Account, NEW s \in session', s.id = f[c].id
                PROVE  Admissible(c)' \/ s.raced
    BY DEF ClosedOut, OfUser
  <2>1. s \in OfUser(user[c].id)
    BY DEF OfUser
  <2>2. Admissible(c) \/ s.raced
    BY <2>1 DEF AccessIInv, ClosedOut
  <2>. QED
    BY <1>3, <2>1, <2>2
<1>7. OwnRows'
  <2>1. \A i \in Id : Owner(i)' = Owner(i)
    BY DEF Owner
  <2>. QED
    BY <2>1 DEF AccessIInv, AccessTypeOK, Sessions, OwnRows
<1>. QED
    BY <1>2, <1>4, <1>5, <1>6, <1>7 DEF AccessIInv

\* A step that leaves the rows: sessions end, saves and callbacks begin or end, nobody is shut out.
LEMMA QuietStep ==
    ASSUME AccessIInv, AccessTypeOK', UNCHANGED <<config, user>>,
           session' \subseteq session, invited \subseteq invited',
           \A q \in save' \ save : user[q.account].id = q.id,
           \A i \in Id : client'[i] \in {client[i], NoClient},
           \A b \in Browser :
              \/ signin'[b] = signin[b] \/ signin'[b].step = "idle"
              \/ /\ signin'[b].account \in Account
                 /\ signin'[b].step = "guild" => Admissible(signin'[b].account)
    PROVE  AccessIInv'
<1>1. \A c : Admissible(c) => Admissible(c)'
    BY DEF Admissible
<1>2. OneRow' /\ SavesOwned'
    BY DEF AccessIInv, OneRow, SavesOwned
<1>3. RealSignIns'
    BY DEF AccessIInv, RealSignIns
<1>4. GateHonest'
  <2>. SUFFICES ASSUME NEW b \in Browser, NEW c, c = signin'[b].account, signin'[b].step = "guild"
                PROVE  Admissible(c)' \/ signin'[b].raced
    BY DEF GateHonest
  <2>. QED
    BY <1>1 DEF AccessIInv, GateHonest
<1>5. ClosedOut'
    BY <1>1 DEF AccessIInv, ClosedOut, OfUser
<1>6. OwnRows'
  <2>1. \A i : Owner(i)' = Owner(i)
    BY DEF Owner
  <2>. QED
    BY <2>1 DEF AccessIInv, OwnRows
<1>. QED
    BY <1>2, <1>3, <1>4, <1>5, <1>6 DEF AccessIInv

LEMMA UnbanStep ==
    ASSUME AccessIInv, NEW b \in Browser, NEW a \in Account, Unban(b, a)
    PROVE  AccessIInv'
<1>1. /\ user' = [user EXCEPT ![a].banned = FALSE]
      /\ UNCHANGED <<config, created, invited, session, cookie, requests, client>>
    BY DEF Unban
<1>2. /\ user' \in [Account -> Users]
      /\ \A c \in Account : user'[c].id = user[c].id /\ (user'[c].banned => user[c].banned)
    BY <1>1 DEF AccessIInv, AccessTypeOK, Users
<1>3. AccessTypeOK'
    BY <1>1, <1>2 DEF AccessIInv, AccessTypeOK, requests
<1>4. OneRow' /\ SavesOwned'
    BY <1>1, <1>2 DEF AccessIInv, AccessTypeOK, Saves, OneRow, SavesOwned, requests
<1>5. \A c \in Account : Admissible(c) => Admissible(c)'
    BY <1>1, <1>2 DEF Admissible
<1>6. RealSignIns' /\ GateHonest'
    BY <1>1, <1>5 DEF AccessIInv, RealSignIns, GateHonest, requests
<1>7. ClosedOut'
    BY <1>1, <1>2, <1>5 DEF AccessIInv, ClosedOut, OfUser
<1>8. OwnRows'
  <2>1. \A i : Owner(i)' = Owner(i)
    BY <1>2 DEF Owner
  <2>. QED
    BY <1>1, <2>1 DEF AccessIInv, OwnRows
<1>. QED
    BY <1>3, <1>4, <1>6, <1>7, <1>8 DEF AccessIInv

LEMMA EndSaveStep ==
    ASSUME AccessIInv, NEW q \in save, EndSave(q)
    PROVE  AccessIInv'
<1>1. /\ save' = save \ {q}
      /\ client' = IF Owner(q.id) = {} THEN client
                   ELSE [client EXCEPT ![q.id] = [account |-> q.account, orphan |-> q.orphan]]
      /\ UNCHANGED <<config, created, user, invited, session, cookie, signin>>
    BY DEF EndSave
<1>2. /\ q.id \in Id /\ q.account \in Account /\ q.orphan \in BOOLEAN
      /\ client \in [Id -> Clients]
      /\ \A i \in Id : i # 0
    BY DEF AccessIInv, AccessTypeOK, Saves, Id
<1>3. AccessTypeOK'
    BY <1>1, <1>2 DEF AccessIInv, AccessTypeOK, Clients
<1>4. OneRow' /\ SavesOwned' /\ RealSignIns'
    BY <1>1 DEF AccessIInv, OneRow, SavesOwned, RealSignIns
<1>5. \A c : Admissible(c)' <=> Admissible(c)
    BY <1>1 DEF Admissible
<1>6. GateHonest' /\ ClosedOut'
    BY <1>1, <1>5 DEF AccessIInv, GateHonest, ClosedOut, OfUser
<1>7. OwnRows'
  <2>1. \A i : Owner(i)' = Owner(i)
    BY <1>1 DEF Owner
  <2>2. q.orphan \/ Owner(q.id) = {q.account}
    BY <1>2 DEF AccessIInv, SavesOwned, OneRow, Owner
  <2>3. ASSUME NEW i \in Id, client'[i] # NoClient
        PROVE  Owner(i) # {} /\ (client'[i].orphan \/ Owner(i) = {client'[i].account})
    BY <1>1, <1>2, <2>2, <2>3 DEF AccessIInv, OwnRows
  <2>. QED
    BY <1>1, <2>1, <2>3 DEF AccessIInv, OwnRows
<1>. QED
    BY <1>3, <1>4, <1>6, <1>7 DEF AccessIInv

LEMMA BanStep ==
    ASSUME AccessIInv, NEW b \in Browser, NEW a \in Account, Ban(b, a)
    PROVE  AccessIInv'
<1>1. /\ user' = [user EXCEPT ![a].banned = TRUE]
      /\ session' = session \ Ended(a) /\ Raced(a)
      /\ UNCHANGED <<config, created, invited, cookie, save, client>>
    BY DEF Ban
<1>2. /\ user' \in [Account -> Users] /\ invited \subseteq Account
      /\ \A c \in Account : user'[c].id = user[c].id /\ (c # a => user'[c] = user[c])
    BY <1>1 DEF AccessIInv, AccessTypeOK, Users
<1>3. session' \subseteq session /\ OfUser(user[a].id) \intersect session' = {}
    BY <1>1 DEF Ended
<1>. QED
    BY <1>1, <1>2, <1>3, ShutOutStep

LEMMA UninviteStep ==
    ASSUME AccessIInv, NEW b \in Browser, NEW a \in Account, Uninvite(b, a)
    PROVE  AccessIInv'
<1>1. /\ invited' = invited \ {a}
      /\ session' = IF a = ConfigAdmin \/ ~HasRow(a) THEN session ELSE session \ Ended(a)
      /\ Raced(a)
      /\ UNCHANGED <<config, created, user, cookie, save, client>>
    BY DEF Uninvite
<1>2. user \in [Account -> Users] /\ invited' \subseteq Account
    BY <1>1 DEF AccessIInv, AccessTypeOK
<1>3. /\ session' \subseteq session
      /\ OfUser(user[a].id) \intersect session' = {} \/ (Admissible(a) => Admissible(a)')
  <2>1. CASE a = ConfigAdmin
    BY <1>1, <2>1 DEF Admissible
  <2>2. CASE a # ConfigAdmin /\ HasRow(a)
    BY <1>1, <2>2 DEF Ended
  <2>3. CASE ~HasRow(a)
    <3>1. \A s \in session : s.id # 0
      BY DEF AccessIInv, AccessTypeOK, Sessions, Id
    <3>. QED
      BY <1>1, <2>3, <3>1 DEF HasRow, OfUser
  <2>. QED
    BY <1>1, <2>1, <2>2, <2>3
<1>. QED
    BY <1>1, <1>2, <1>3, ShutOutStep

-----------------------------------------------------------------------------
(* Accounts: the invariant holds.                                          *)

LEMMA AccessInitially == AccessInit => AccessIInv
<1>. SUFFICES ASSUME AccessInit PROVE AccessIInv
    OBVIOUS
<1>1. AccessTypeOK
  <2>1. NoUser \in Users /\ [id |-> 1, banned |-> FALSE] \in Users
    BY AccessConstants DEF NoUser, Users
  <2>2. [sid |-> 1, id |-> 1, raced |-> FALSE] \in Sessions
    BY AccessConstants DEF Sessions, Id
  <2>3. NoSignIn \in SignIns /\ NoClient \in Clients
    BY AccessConstants DEF NoSignIn, NoClient, SignIns, Clients
  <2>. QED
    BY <2>1, <2>2, <2>3, AccessConstants DEF AccessInit, AccessTypeOK
<1>2. /\ user[ConfigAdmin] = [id |-> 1, banned |-> FALSE]
      /\ \A a \in Account : a # ConfigAdmin => user[a] = [id |-> 0, banned |-> FALSE]
      /\ ConfigAdmin \in Account
    BY AccessConstants DEF AccessInit, NoUser
<1>3. OneRow
    BY <1>2 DEF OneRow
<1>4. RealSignIns /\ GateHonest /\ SavesOwned
    BY DEF AccessInit, RealSignIns, GateHonest, SavesOwned, NoSignIn
<1>5. session = {[sid |-> 1, id |-> 1, raced |-> FALSE]}
    BY DEF AccessInit
<1>6. ClosedOut
    BY <1>2, <1>5 DEF ClosedOut, OfUser, Admissible
<1>7. OwnRows
  <2>1. \A s \in session : Owner(s.id) # {}
    BY <1>2, <1>5 DEF Owner
  <2>. QED
    BY <2>1 DEF AccessInit, OwnRows
<1>. QED
    BY <1>1, <1>3, <1>4, <1>6, <1>7 DEF AccessIInv

LEMMA AccessStep == AccessIInv /\ [AccessNext]_accessVars => AccessIInv'
<1>. SUFFICES ASSUME AccessIInv, [AccessNext]_accessVars PROVE AccessIInv'
    OBVIOUS
<1>. USE DEF requests
<1>t. AccessTypeOK
    BY DEF AccessIInv
<1>c. NoSignIn \in SignIns /\ NoSignIn.step = "idle" /\ NoClient \in Clients
    BY AccessConstants DEF NoSignIn, SignIns, NoClient, Clients
<1>0. CASE UNCHANGED accessVars
  <2>1. AccessTypeOK'
    BY <1>0, <1>t DEF AccessTypeOK, accessVars
  <2>. QED
    BY <1>0, <2>1, QuietStep DEF accessVars
<1>1. ASSUME NEW b \in Browser, NEW a \in Account, Callback(b, a) PROVE AccessIInv'
  <2>1. Carried(b) \in 0..MaxSessions
    BY <1>t, AccessConstants DEF Carried, AccessTypeOK
  <2>2. [NoSignIn EXCEPT !.step = "discord", !.account = a, !.carried = Carried(b)] \in SignIns
    BY <2>1 DEF NoSignIn, SignIns
  <2>3. AccessTypeOK'
    BY <1>1, <1>t, <2>2 DEF Callback, AccessTypeOK
  <2>4. \A c \in Browser : signin'[c] = signin[c] \/ (signin'[c].account \in Account /\ signin'[c].step = "discord")
    BY <1>1, <1>t DEF Callback, AccessTypeOK, NoSignIn
  <2>. QED
    BY <1>1, <2>3, <2>4, QuietStep DEF Callback
<1>2. ASSUME NEW b \in Browser, Fails(b) PROVE AccessIInv'
  <2>1. AccessTypeOK' /\ \A c \in Browser : signin'[c] = signin[c] \/ signin'[c].step = "idle"
    BY <1>2, <1>t, <1>c DEF Fails, AccessTypeOK
  <2>. QED
    BY <1>2, <2>1, QuietStep DEF Fails
<1>3. ASSUME NEW b \in Browser, Admit(b) PROVE AccessIInv'
  <2>1. signin[b].step = "discord" /\ Admissible(signin[b].account) /\ signin[b].account \in Account
    BY <1>3 DEF Admit, AccessIInv, RealSignIns
  <2>2. CASE config.guild
    <3>1. /\ signin' = [signin EXCEPT ![b].step = "guild"]
          /\ UNCHANGED <<config, created, user, invited, session, cookie, save, client>>
      BY <1>3, <2>2 DEF Admit
    <3>2. signin' \in [Browser -> SignIns] /\ \A c \in Browser : c # b => signin'[c] = signin[c]
      BY <1>t, <3>1 DEF AccessTypeOK, SignIns
    <3>3. signin'[b].account = signin[b].account
      BY <1>t, <3>1 DEF AccessTypeOK, SignIns
    <3>4. AccessTypeOK'
      BY <1>t, <3>1, <3>2 DEF AccessTypeOK
    <3>5. \A c \in Browser :
            \/ signin'[c] = signin[c]
            \/ signin'[c].account \in Account /\ Admissible(signin'[c].account)
      BY <2>1, <3>2, <3>3
    <3>. QED
      BY <3>1, <3>4, <3>5, QuietStep
  <2>3. CASE ~config.guild
    BY <1>3, <2>1, <2>3, LetInStep DEF Admit
  <2>. QED
    BY <2>2, <2>3
<1>4. ASSUME NEW b \in Browser, InGuild(b) PROVE AccessIInv'
  <2>1. signin[b].raced \in BOOLEAN
    BY <1>t DEF AccessTypeOK, SignIns
  <2>2. Admissible(signin[b].account) \/ signin[b].raced
    BY <1>4 DEF InGuild, AccessIInv, GateHonest
  <2>. QED
    BY <1>4, <2>1, <2>2, LetInStep DEF InGuild
<1>5. ASSUME NEW b \in Browser, Logout(b) PROVE AccessIInv'
  <2>1. AccessTypeOK'
    BY <1>5, <1>t, AccessConstants DEF Logout, AccessTypeOK
  <2>. QED
    BY <1>5, <2>1, QuietStep DEF Logout
<1>6. ASSUME NEW s \in session, Lapse(s) PROVE AccessIInv'
  <2>1. AccessTypeOK'
    BY <1>6, <1>t DEF Lapse, AccessTypeOK
  <2>. QED
    BY <1>6, <2>1, QuietStep DEF Lapse
<1>7. ASSUME NEW b \in Browser, NEW a \in Account, Invite(b, a) PROVE AccessIInv'
  <2>1. AccessTypeOK'
    BY <1>7, <1>t DEF Invite, AccessTypeOK
  <2>. QED
    BY <1>7, <2>1, QuietStep DEF Invite
<1>8. ASSUME NEW b \in Browser, NEW a \in Account, Revoke(b, a) PROVE AccessIInv'
  <2>1. AccessTypeOK'
    BY <1>8, <1>t DEF Revoke, AccessTypeOK
  <2>. QED
    BY <1>8, <2>1, QuietStep DEF Revoke
<1>9. ASSUME NEW b \in Browser, StartSave(b) PROVE AccessIInv'
  <2>1. PICK a \in SignedIn(b) :
          /\ save' = {[id |-> user[a].id, account |-> a, orphan |-> FALSE]}
          /\ UNCHANGED <<config, created, user, invited, session, cookie, signin, client>>
    BY <1>9 DEF StartSave
  <2>2. a \in Account /\ user[a].id \in Id
    BY <1>t, SignedInHasRow
  <2>3. AccessTypeOK'
    BY <1>t, <2>1, <2>2 DEF AccessTypeOK, Saves
  <2>4. \A q \in save' : user[q.account].id = q.id
    BY <2>1
  <2>. QED
    BY <2>1, <2>3, <2>4, QuietStep
<1>10. ASSUME NEW q \in save, FailSave(q) PROVE AccessIInv'
  <2>1. AccessTypeOK'
    BY <1>10, <1>t DEF FailSave, AccessTypeOK
  <2>. QED
    BY <1>10, <2>1, QuietStep DEF FailSave
<1>11. ASSUME NEW b \in Browser, RemoveClient(b) PROVE AccessIInv'
  <2>1. PICK a \in SignedIn(b) :
          /\ client' = [client EXCEPT ![user[a].id] = NoClient]
          /\ UNCHANGED <<config, created, user, invited, session, cookie, signin, save>>
    BY <1>11 DEF RemoveClient
  <2>2. AccessTypeOK' /\ \A i \in Id : client'[i] \in {client[i], NoClient}
    BY <1>t, <1>c, <2>1 DEF AccessTypeOK
  <2>. QED
    BY <2>1, <2>2, QuietStep
<1>. QED
    BY <1>0, <1>1, <1>2, <1>3, <1>4, <1>5, <1>6, <1>7, <1>8, <1>9, <1>10, <1>11,
       DeleteMeStep, UninviteStep, BanStep, UnbanStep, EndSaveStep DEF AccessNext, Deny

LEMMA AccessInvariant == AccessSpec => []AccessIInv
<1>1. AccessInit => AccessIInv
    BY AccessInitially
<1>2. AccessIInv /\ [AccessNext]_accessVars => AccessIInv'
    BY AccessStep
<1>. QED
    BY <1>1, <1>2, PTL DEF AccessSpec

\* Nobody the instance would not let in holds a session, but for one opened by a callback that
\* was awaiting its guilds when he was shut out (routes-auth.ts, routes-admin.ts).
THEOREM NobodyShutOutStays == AccessSpec => []ClosedOut
<1>1. AccessIInv => ClosedOut
    BY DEF AccessIInv
<1>. QED
    BY <1>1, AccessInvariant, PTL

\* Sessions and WCL clients are their owner's, whatever id is reused (hosted/db.ts,
\* wcl-clients.ts), but for a save verified while its account was deleted.
THEOREM RowsAreOwned == AccessSpec => []OwnRows
<1>1. AccessIInv => OwnRows
    BY DEF AccessIInv
<1>. QED
    BY <1>1, AccessInvariant, PTL

-----------------------------------------------------------------------------
(* A member's own client: the inductive invariant                          *)

Active == {"oauth", "minted", "post", "rejected"}
Holding == {"minted", "post", "rejected"}

\* What a request has is of no later time than epoch e; a retried one holds a token of after
\* its retry; a token that was rejected is older than e; a PING holds a token it was given.
Good(q, e) ==
    /\ q.token <= e /\ q.since <= e
    /\ q.step \in Active => q.secret \in Secret
    /\ q.retried /\ q.step \in Holding => q.since <= q.token
    /\ q.step = "rejected" => q.token < e
    /\ q.step = "401" => q.since < e
    /\ q.step \in Holding \union {"ok"} /\ q.kind # "run" => q.given

CachePast == \A s \in Secret : cache[s] <= epoch
ClientIInv == ClientTypeOK /\ CachePast /\ \A r \in Request : Good(req[r], epoch)

-----------------------------------------------------------------------------
(* The steps.                                                              *)

LEMMA ClientNumbers ==
    /\ MaxEpoch \in Nat /\ NoToken \in Tokens /\ NoToken = -1
    /\ \A t \in Tokens : t \in Int /\ -1 <= t /\ t <= MaxEpoch
    /\ \A e \in 0..MaxEpoch : e \in Tokens /\ e \in Nat
BY OwnClientConstants DEF Tokens, NoToken

LEMMA GoodLater ==
    ASSUME NEW q \in Requests, NEW d \in 0..MaxEpoch, NEW e \in 0..MaxEpoch, d <= e, Good(q, d)
    PROVE  Good(q, e)
<1>1. q.token \in Int /\ q.since \in Int /\ d \in Int /\ e \in Int
    BY ClientNumbers DEF Requests
<1>. QED
    BY <1>1 DEF Good

\* Of a step of one request: what is left to show.
LEMMA RequestStep ==
    ASSUME ClientIInv, NEW r \in Request, NEW q \in Requests, Good(q, epoch),
           req' = [req EXCEPT ![r] = q], UNCHANGED wcl, row' \in Secret \union {NoSecret},
           cache' \in [Secret -> Tokens], \A s \in Secret : cache'[s] <= epoch
    PROVE  ClientIInv'
<1>1. ClientTypeOK' /\ CachePast'
    BY DEF ClientIInv, ClientTypeOK, CachePast, wcl
<1>2. \A x \in Request : req'[x] = req[x] \/ req'[x] = q
    BY DEF ClientIInv, ClientTypeOK
<1>. QED
    BY <1>1, <1>2 DEF ClientIInv, wcl

\* Without a cached token a request asks for one.
LEMMA Asks ==
    ASSUME NEW q \in Requests, NEW c, q.secret \in Secret
    PROVE  /\ GetToken(q, ForgetToken(c)) = [q EXCEPT !.step = "oauth"]
           /\ ForgetToken(c) \in [Secret -> Tokens]
           /\ \A s \in Secret : ForgetToken(c)[s] = NoToken
BY ClientNumbers DEF GetToken, ForgetToken

LEMMA BegunGood ==
    ASSUME ClientIInv, NEW kind \in {"run", "verify", "save"}, NEW s \in Secret
    PROVE  /\ Begun(kind, s) \in Requests /\ Begun(kind, s).secret = s
           /\ Begun(kind, s).kind = kind /\ Begun(kind, s).since = epoch
           /\ Begun(kind, s).retried = FALSE
           /\ [Begun(kind, s) EXCEPT !.step = "oauth"] \in Requests
           /\ Good([Begun(kind, s) EXCEPT !.step = "oauth"], epoch)
<1>1. epoch \in Tokens /\ epoch \in Nat /\ NoToken \in Tokens /\ NoToken <= epoch
    BY ClientNumbers DEF ClientIInv, ClientTypeOK
<1>2. NoRequest \in Requests /\ NoRequest.retried = FALSE /\ NoRequest.step = "idle"
      /\ NoRequest.token = NoToken /\ NoRequest.given = FALSE
    BY <1>1 DEF NoRequest, Requests
<1>. DEFINE q == Begun(kind, s)
<1>3. /\ q \in Requests
      /\ q.kind = kind /\ q.secret = s /\ q.since = epoch
      /\ q.retried = FALSE /\ q.step = "idle" /\ q.token = NoToken
    BY <1>1, <1>2 DEF Begun, Requests
<1>. HIDE DEF q
<1>. DEFINE p == [q EXCEPT !.step = "oauth"]
<1>4. /\ p \in Requests
      /\ p.kind = kind /\ p.secret = s /\ p.since = epoch
      /\ p.retried = FALSE /\ p.step = "oauth" /\ p.token = NoToken
    BY <1>3 DEF Requests
<1>. HIDE DEF p
<1>5. Good(p, epoch)
    BY <1>1, <1>4 DEF Good, Active, Holding
<1>. QED
    BY <1>3, <1>4, <1>5 DEF p, q

LEMMA BeginRunStep ==
    ASSUME ClientIInv, NEW r \in Request, BeginRun(r)
    PROVE  ClientIInv'
<1>. DEFINE q == Begun("run", row)
<1>1. row \in Secret /\ cache \in [Secret -> Tokens] /\ epoch \in 0..MaxEpoch /\ cache[row] <= epoch
    BY DEF BeginRun, ClientIInv, ClientTypeOK, CachePast
<1>2. q \in Requests /\ q.secret = row /\ Good([q EXCEPT !.step = "oauth"], epoch)
      /\ [q EXCEPT !.step = "oauth"] \in Requests
    BY <1>1, BegunGood
<1>3. GetToken(q, cache) \in Requests /\ Good(GetToken(q, cache), epoch)
  <2>1. CASE cache[row] = NoToken
    BY <1>2, <2>1 DEF GetToken
  <2>2. CASE cache[row] # NoToken
    <3>1. GetToken(q, cache) = [q EXCEPT !.step = "post", !.token = cache[row]]
      BY <1>2, <2>2 DEF GetToken
    <3>2. /\ cache[row] \in Tokens /\ epoch \in Nat
          /\ q.kind = "run" /\ q.since = epoch /\ q.retried = FALSE
      BY <1>1, BegunGood, ClientNumbers
    <3>. DEFINE p == [q EXCEPT !.step = "post", !.token = cache[row]]
    <3>. HIDE DEF q
    <3>3. /\ p \in Requests
          /\ p.kind = "run" /\ p.secret = row /\ p.since = epoch
          /\ p.retried = FALSE /\ p.step = "post" /\ p.token = cache[row]
      BY <1>2, <3>2 DEF Requests
    <3>. HIDE DEF p
    <3>4. Good(p, epoch)
      BY <1>1, <3>2, <3>3 DEF Good, Active, Holding
    <3>. QED
      BY <3>1, <3>3, <3>4 DEF p
  <2>. QED
    BY <2>1, <2>2
<1>. QED
  <2>1. /\ req' = [req EXCEPT ![r] = GetToken(q, cache)]
        /\ UNCHANGED <<wcl, row, cache>>
    BY DEF BeginRun
  <2>. HIDE DEF q
  <2>. QED
    BY <1>1, <1>3, <2>1, RequestStep DEF ClientIInv, ClientTypeOK, CachePast

LEMMA BeginPingStep ==
    ASSUME ClientIInv, NEW r \in Request, NEW kind \in {"verify", "save"}, NEW s \in Secret,
           BeginPing(r, kind, s)
    PROVE  ClientIInv'
<1>. DEFINE q == Begun(kind, s)
<1>0. kind \in {"run", "verify", "save"}
    OBVIOUS
<1>1. q \in Requests /\ q.secret = s /\ Good([q EXCEPT !.step = "oauth"], epoch)
      /\ [q EXCEPT !.step = "oauth"] \in Requests
    BY <1>0, BegunGood
<1>2. /\ cache' = ForgetToken(cache)
      /\ req' = [req EXCEPT ![r] = GetToken(q, ForgetToken(cache))]
      /\ UNCHANGED <<wcl, row>>
    BY DEF BeginPing
<1>3. row' \in Secret \union {NoSecret} /\ epoch \in 0..MaxEpoch
    BY <1>2 DEF ClientIInv, ClientTypeOK
<1>. HIDE DEF q
<1>4. /\ req' = [req EXCEPT ![r] = [q EXCEPT !.step = "oauth"]]
      /\ cache' \in [Secret -> Tokens] /\ \A t \in Secret : cache'[t] = NoToken
    BY <1>1, <1>2, Asks
<1>5. \A t \in Secret : cache'[t] <= epoch
    BY <1>3, <1>4, ClientNumbers
<1>. QED
    BY <1>1, <1>2, <1>3, <1>4, <1>5, RequestStep

LEMMA RequestFacts ==
    ASSUME ClientIInv, NEW r \in Request
    PROVE  /\ req[r] \in Requests /\ Good(req[r], epoch) /\ epoch \in Tokens /\ epoch \in Nat
           /\ req[r].token \in Int /\ req[r].since \in Int
           /\ row \in Secret \union {NoSecret}
           /\ cache \in [Secret -> Tokens] /\ \A s \in Secret : cache[s] <= epoch
           /\ req \in [Request -> Requests]
<1>1. req[r] \in Requests /\ epoch \in 0..MaxEpoch
    BY DEF ClientIInv, ClientTypeOK
<1>2. req[r].token \in Tokens /\ req[r].since \in Tokens
    BY <1>1 DEF Requests
<1>. QED
    BY <1>1, <1>2, ClientNumbers DEF ClientIInv, ClientTypeOK, CachePast

LEMMA MintStep ==
    ASSUME ClientIInv, NEW r \in Request, Mint(r)
    PROVE  ClientIInv'
<1>. DEFINE old == req[r]
<1>1. /\ old \in Requests /\ Good(old, epoch) /\ epoch \in Tokens /\ epoch \in Nat
      /\ old.step = "oauth"
    BY RequestFacts DEF Mint
<1>2. \E q \in Requests : Good(q, epoch) /\ req' = [req EXCEPT ![r] = q]
  <2>1. CASE old.secret \in takes
    <3>. DEFINE q == [old EXCEPT !.step = "minted", !.token = epoch, !.given = TRUE]
    <3>1. req' = [req EXCEPT ![r] = q]
      BY <2>1, RequestFacts DEF Mint
    <3>. HIDE DEF old
    <3>2. /\ q \in Requests /\ q.step = "minted" /\ q.token = epoch /\ q.given
          /\ q.since = old.since /\ q.secret = old.secret
      BY <1>1 DEF Requests
    <3>. HIDE DEF q
    <3>3. Good(q, epoch)
      BY <1>1, <3>2 DEF Good, Active, Holding
    <3>. QED
      BY <3>1, <3>2, <3>3
  <2>2. CASE old.secret \notin takes
    <3>1. req' = [req EXCEPT ![r] = NoRequest]
      BY <2>2, RequestFacts DEF Mint
    <3>2. /\ NoRequest \in Requests /\ NoRequest.step = "idle"
          /\ NoRequest.token = NoToken /\ NoRequest.since = NoToken
      BY ClientNumbers DEF NoRequest, Requests
    <3>3. Good(NoRequest, epoch)
      BY <1>1, <3>2, ClientNumbers DEF Good, Active, Holding
    <3>. QED
      BY <3>1, <3>2, <3>3
  <2>. QED
    BY <2>1, <2>2
<1>. QED
  <2>1. UNCHANGED <<wcl, row, cache>>
    BY DEF Mint
  <2>. QED
    BY <1>2, <2>1, RequestFacts, RequestStep

LEMMA MintedStep ==
    ASSUME ClientIInv, NEW r \in Request, Minted(r)
    PROVE  ClientIInv'
<1>. DEFINE old == req[r]
            q == [old EXCEPT !.step = "post"]
<1>1. /\ old \in Requests /\ Good(old, epoch) /\ old.step = "minted"
      /\ old.token \in Tokens
      /\ cache' = [cache EXCEPT ![old.secret] = old.token]
      /\ req' = [req EXCEPT ![r] = q]
      /\ UNCHANGED <<wcl, row>>
    BY RequestFacts DEF Minted, Requests
<1>2. /\ cache' \in [Secret -> Tokens] /\ \A s \in Secret : cache'[s] <= epoch
    BY <1>1, RequestFacts DEF Good
<1>. HIDE DEF old
<1>3. /\ q \in Requests /\ q.step = "post" /\ q.token = old.token /\ q.since = old.since
      /\ q.secret = old.secret /\ q.retried = old.retried /\ q.kind = old.kind
      /\ q.given = old.given
    BY <1>1 DEF Requests
<1>. HIDE DEF q
<1>4. Good(q, epoch)
    BY <1>1, <1>3 DEF Good, Active, Holding
<1>. QED
    BY <1>1, <1>2, <1>3, <1>4, RequestFacts, RequestStep

LEMMA RejectStep ==
    ASSUME ClientIInv, NEW r \in Request, Reject(r)
    PROVE  ClientIInv'
<1>. DEFINE old == req[r]
            q == [old EXCEPT !.step = "rejected"]
<1>1. /\ old \in Requests /\ Good(old, epoch) /\ old.step = "post" /\ old.token # epoch
      /\ old.token \in Int /\ epoch \in Nat
      /\ req' = [req EXCEPT ![r] = q]
      /\ UNCHANGED <<wcl, row, cache>>
    BY RequestFacts DEF Reject
<1>. HIDE DEF old
<1>2. /\ q \in Requests /\ q.step = "rejected" /\ q.token = old.token /\ q.since = old.since
      /\ q.secret = old.secret /\ q.retried = old.retried /\ q.kind = old.kind
      /\ q.given = old.given
    BY <1>1 DEF Requests
<1>. HIDE DEF q
<1>3. Good(q, epoch)
    BY <1>1, <1>2 DEF Good, Active, Holding
<1>. QED
    BY <1>1, <1>2, <1>3, RequestFacts, RequestStep

\* What is left of an ended request.
LEMMA ClosedFields ==
    ASSUME NEW q \in Requests, NEW step \in {"ok", "401"}
    PROVE  /\ Closed(q, step) \in Requests /\ Closed(q, step).step = step
           /\ Closed(q, step).token = NoToken /\ Closed(q, step).since = q.since
           /\ Closed(q, step).kind = q.kind /\ Closed(q, step).given = q.given
BY ClientNumbers DEF Closed, Requests

LEMMA RetryStep ==
    ASSUME ClientIInv, NEW r \in Request, Retry(r)
    PROVE  ClientIInv'
<1>. DEFINE old == req[r]
<1>1. /\ old \in Requests /\ Good(old, epoch) /\ old.step = "rejected"
      /\ old.token \in Int /\ old.since \in Int /\ epoch \in Nat /\ epoch \in Tokens
      /\ UNCHANGED <<wcl, row>>
    BY RequestFacts DEF Retry
<1>2. CASE old.retried
  <2>1. req' = [req EXCEPT ![r] = Closed(old, "401")] /\ cache' = cache
    BY <1>2, RequestFacts DEF Retry
  <2>. DEFINE q == Closed(old, "401")
  <2>. HIDE DEF old
  <2>2. /\ q \in Requests /\ q.step = "401"
        /\ q.token = NoToken /\ q.since = old.since
    BY <1>1, ClosedFields
  <2>3. old.since < epoch
    BY <1>1, <1>2 DEF Good, Holding
  <2>. HIDE DEF q
  <2>4. Good(q, epoch)
    BY <1>1, <2>2, <2>3, ClientNumbers DEF Good, Active, Holding
  <2>. QED
    BY <1>1, <2>1, <2>2, <2>4, RequestFacts, RequestStep DEF q
<1>3. CASE ~old.retried
  <2>. DEFINE again == [old EXCEPT !.retried = TRUE, !.since = epoch]
              q == [again EXCEPT !.step = "oauth"]
  <2>1. /\ cache' = ForgetToken(cache)
        /\ req' = [req EXCEPT ![r] = GetToken(again, ForgetToken(cache))]
    BY <1>3 DEF Retry
  <2>. HIDE DEF old
  <2>2. /\ again \in Requests /\ again.secret = old.secret /\ again.secret \in Secret
        /\ again.since = epoch /\ again.token = old.token /\ again.given = old.given
        /\ again.kind = old.kind
    BY <1>1 DEF Requests, Good, Active
  <2>. HIDE DEF again
  <2>3. /\ q \in Requests /\ q.step = "oauth" /\ q.since = epoch /\ q.token = old.token
        /\ q.secret \in Secret
    BY <2>2 DEF Requests
  <2>4. req' = [req EXCEPT ![r] = q] /\ cache' \in [Secret -> Tokens]
        /\ \A s \in Secret : cache'[s] = NoToken
    BY <2>1, <2>2, Asks
  <2>. HIDE DEF q
  <2>5. Good(q, epoch)
    BY <1>1, <2>3 DEF Good, Active, Holding
  <2>6. \A s \in Secret : cache'[s] <= epoch
    BY <1>1, <2>4, ClientNumbers
  <2>. QED
    BY <1>1, <2>3, <2>4, <2>5, <2>6, RequestFacts, RequestStep
<1>. QED
    BY <1>2, <1>3

LEMMA AnsweredStep ==
    ASSUME ClientIInv, NEW r \in Request, Answered(r)
    PROVE  ClientIInv'
<1>. DEFINE old == req[r]
            closed == Closed(old, "ok")
            q == [closed EXCEPT !.since = NoToken]
<1>1. /\ old \in Requests /\ Good(old, epoch) /\ old.step = "post" /\ epoch \in Nat
      /\ req' = [req EXCEPT ![r] = q] /\ UNCHANGED wcl
    BY RequestFacts DEF Answered
<1>2. /\ row' \in Secret \union {NoSecret}
      /\ cache' \in [Secret -> Tokens] /\ \A s \in Secret : cache'[s] <= epoch
  <2>1. old.secret \in Secret
    BY <1>1 DEF Good, Active
  <2>2. CASE old.kind = "save"
    <3>1. row' = old.secret /\ cache' = ForgetToken(cache)
      BY <2>2 DEF Answered
    <3>. QED
      BY <1>1, <2>1, <3>1, ClientNumbers DEF ForgetToken
  <2>3. CASE old.kind # "save"
    BY <2>3, RequestFacts DEF Answered
  <2>. QED
    BY <2>2, <2>3
<1>. HIDE DEF old
<1>3. /\ closed \in Requests /\ closed.step = "ok" /\ closed.token = NoToken
      /\ closed.kind = old.kind /\ closed.given = old.given
    BY <1>1, ClosedFields
<1>. HIDE DEF closed
<1>4. /\ q \in Requests /\ q.step = "ok" /\ q.token = NoToken /\ q.since = NoToken
      /\ q.kind = old.kind /\ q.given = old.given
    BY <1>3, ClientNumbers DEF Requests
<1>. HIDE DEF q
<1>5. Good(q, epoch)
    BY <1>1, <1>4, ClientNumbers DEF Good, Active, Holding
<1>. QED
    BY <1>1, <1>2, <1>4, <1>5, RequestStep

-----------------------------------------------------------------------------
(* A member's own client: the invariant holds.                             *)

LEMMA ClientInitially == ClientInit => ClientIInv
<1>. SUFFICES ASSUME ClientInit PROVE ClientIInv
    OBVIOUS
<1>1. /\ NoRequest \in Requests /\ NoRequest.step = "idle" /\ NoRequest.token = NoToken
      /\ NoRequest.since = NoToken
    BY ClientNumbers DEF NoRequest, Requests
<1>2. ClientTypeOK /\ CachePast
    BY <1>1, ClientNumbers DEF ClientInit, ClientTypeOK, CachePast
<1>3. Good(NoRequest, 0)
    BY <1>1, ClientNumbers DEF Good, Active, Holding
<1>. QED
    BY <1>2, <1>3 DEF ClientInit, ClientIInv

LEMMA ClientStep == ClientIInv /\ [ClientNext]_clientVars => ClientIInv'
<1>. SUFFICES ASSUME ClientIInv, [ClientNext]_clientVars PROVE ClientIInv'
    OBVIOUS
<1>0. CASE UNCHANGED clientVars
    BY <1>0 DEF ClientIInv, ClientTypeOK, CachePast, clientVars
<1>1. ASSUME NEW r \in Request, BeginSave(r) \/ BeginVerify(r) PROVE ClientIInv'
  <2>1. row # NoSecret => row \in Secret
    BY DEF ClientIInv, ClientTypeOK
  <2>. QED
    BY <1>1, <2>1, BeginPingStep DEF BeginSave, BeginVerify
<1>2. CASE RemoveOwn
    BY <1>2, ClientNumbers
       DEF RemoveOwn, ForgetToken, ClientIInv, ClientTypeOK, CachePast, wcl
<1>3. ASSUME NEW s \in Secret, Expire(s) PROVE ClientIInv'
    BY <1>3, ClientNumbers DEF Expire, ClientIInv, ClientTypeOK, CachePast, wcl
<1>4. CASE Withdraw
  <2>1. /\ epoch \in 0..MaxEpoch /\ epoch' = epoch + 1 /\ epoch' \in 0..MaxEpoch
        /\ UNCHANGED <<takes, row, cache, req>>
    BY <1>4, ClientNumbers DEF Withdraw, ClientIInv, ClientTypeOK
  <2>2. \A s \in Secret : cache[s] \in Int
    BY ClientNumbers DEF ClientIInv, ClientTypeOK
  <2>3. CachePast'
    BY <2>1, <2>2 DEF ClientIInv, CachePast
  <2>4. \A r \in Request : Good(req[r], epoch + 1)
    BY <2>1, GoodLater DEF ClientIInv, ClientTypeOK
  <2>. QED
    BY <2>1, <2>3, <2>4 DEF ClientIInv, ClientTypeOK
<1>5. CASE Rotate
    BY <1>5 DEF Rotate, ClientIInv, ClientTypeOK, CachePast
<1>. QED
    BY <1>0, <1>1, <1>2, <1>3, <1>4, <1>5, BeginRunStep, MintStep, MintedStep, RejectStep,
       RetryStep, AnsweredStep DEF ClientNext

\* A query on a member's own client fails with a 401 only if WCL withdrew its tokens twice, and a
\* save or a verify that succeeds was given a token for that secret (client.ts, wcl-clients.ts).
THEOREM OwnTokensHonest == ClientSpec => []TokensHonest
<1>1. ClientIInv => TokensHonest
    BY DEF ClientIInv, Good, Holding, TokensHonest, RetryHeals, PingProves
<1>2. ClientInit => ClientIInv
    BY ClientInitially
<1>3. ClientIInv /\ [ClientNext]_clientVars => ClientIInv'
    BY ClientStep
<1>. QED
    BY <1>1, <1>2, <1>3, PTL DEF ClientSpec

-----------------------------------------------------------------------------
(* The defensive spells.                                                   *)

LEMMA MergeIsEntry ==
    ASSUME NEW e \in Entries, NEW patch \in Entries
    PROVE  MergeEntry(e, patch) \in Entries
BY DEF MergeEntry, Over, Entries, Ignore, None

LEMMA PatchIsEntry == \A patch \in Patches : patch \in Entries
<1>1. Ignore \in Entries
    BY DEF Ignore, Entries
<1>. QED
    BY <1>1 DEF Patches

LEMMA NoneIsEntry == None \in Entries
BY DEF None, Entries

LEMMA DefensivesTyped == DefensivesSpec => []DefensivesTypeOK
<1>1. DefensivesInit => DefensivesTypeOK
    BY NoneIsEntry DEF DefensivesInit, DefensivesTypeOK, Tables
<1>2. DefensivesTypeOK /\ [DefensivesNext]_defensivesVars => DefensivesTypeOK'
  <2>. SUFFICES ASSUME DefensivesTypeOK, [DefensivesNext]_defensivesVars PROVE DefensivesTypeOK'
    OBVIOUS
  <2>0. CASE UNCHANGED defensivesVars
    BY <2>0 DEF DefensivesTypeOK, defensivesVars
  <2>1. ASSUME NEW a \in Author, NEW k \in TableKey, NEW s \in Spell, NEW patch \in Patches,
               Propose(a, k, s, patch)
        PROVE  DefensivesTypeOK'
    <3>1. MergeEntry(proposed[a][k][s], patch) \in Entries
      BY MergeIsEntry, PatchIsEntry DEF DefensivesTypeOK, Tables
    <3>. QED
      BY <2>1, <3>1 DEF Propose, DefensivesTypeOK, Tables
  <2>2. ASSUME NEW a \in Author, NEW k \in TableKey, NEW s \in Spell, Approve(a, k, s)
        PROVE  DefensivesTypeOK'
    <3>1. Written(approved[k][s], proposed[a][k][s]) \in Entries
      BY MergeIsEntry DEF DefensivesTypeOK, Tables, Written
    <3>. QED
      BY <2>2, <3>1, NoneIsEntry DEF Approve, DefensivesTypeOK, Tables
  <2>3. ASSUME NEW a \in Author, NEW k \in TableKey, NEW s \in Spell, Dismiss(a, k, s)
        PROVE  DefensivesTypeOK'
    BY <2>3, NoneIsEntry DEF Dismiss, DefensivesTypeOK, Tables
  <2>4. ASSUME NEW k \in TableKey, NEW s \in Spell, NEW patch \in Patches, Correct(k, s, patch)
        PROVE  DefensivesTypeOK'
    <3>1. MergeEntry(approved[k][s], patch) \in Entries
      BY MergeIsEntry, PatchIsEntry DEF DefensivesTypeOK, Tables
    <3>. QED
      BY <2>4, <3>1 DEF Correct, DefensivesTypeOK, Tables
  <2>. QED
    BY <2>0, <2>1, <2>2, <2>3, <2>4 DEF DefensivesNext
<1>. QED
    BY <1>1, <1>2, PTL DEF DefensivesSpec

\* Approving a proposal writes what its author already saw.
LEMMA LayerKept ==
    ASSUME DefensivesTypeOK, NEW a \in Author, NEW k \in TableKey, NEW s \in Spell, Approve(a, k, s)
    PROVE  Layered(a)' = Layered(a) /\ shipped' = shipped
<1>1. /\ proposed[a][k][s] # None
      /\ approved' = [approved EXCEPT ![k][s] = MergeEntry(approved[k][s], proposed[a][k][s])]
      /\ proposed' = [proposed EXCEPT ![a][k][s] = None]
      /\ shipped' = shipped
    BY DEF Approve, Written, DefensivesTypeOK, Tables
<1>2. ASSUME NEW j \in TableKey, NEW t \in Spell
      PROVE  (IF proposed'[a][j][t] = None THEN approved'[j][t]
              ELSE MergeEntry(approved'[j][t], proposed'[a][j][t]))
           = (IF proposed[a][j][t] = None THEN approved[j][t]
              ELSE MergeEntry(approved[j][t], proposed[a][j][t]))
  <2>1. CASE j = k /\ t = s
    <3>1. /\ approved'[k][s] = MergeEntry(approved[k][s], proposed[a][k][s])
          /\ proposed'[a][k][s] = None
      BY <1>1 DEF DefensivesTypeOK, Tables
    <3>. QED
      BY <1>1, <2>1, <3>1
  <2>2. CASE ~(j = k /\ t = s)
    <3>1. approved'[j][t] = approved[j][t] /\ proposed'[a][j][t] = proposed[a][j][t]
      BY <1>1, <2>2 DEF DefensivesTypeOK, Tables
    <3>. QED
      BY <3>1
  <2>. QED
    BY <2>1, <2>2
<1>3. Layered(a)' = Layered(a)
    BY <1>2, Zenon DEF Layered
<1>. QED
    BY <1>1, <1>3

\* Approving a proposal leaves its author's tables as they were, whatever was approved since he
\* made it (hosted/defensives.ts, deepdive/table.ts).
THEOREM ApprovalKeeps == DefensivesSpec => AuthorKeeps
<1>1. DefensivesTypeOK /\ [DefensivesNext]_defensivesVars =>
        [\A a \in Author, k \in TableKey, s \in Spell :
           Approve(a, k, s) =>
               \A j \in TableKey, t \in Spell : Effective(Layered(a), j, t)' = Effective(Layered(a), j, t)]_defensivesVars
  <2>. SUFFICES ASSUME DefensivesTypeOK, NEW a \in Author, NEW k \in TableKey, NEW s \in Spell,
                       Approve(a, k, s), NEW j \in TableKey, NEW t \in Spell
                PROVE  Effective(Layered(a), j, t)' = Effective(Layered(a), j, t)
    OBVIOUS
  <2>1. Layered(a)' = Layered(a) /\ shipped' = shipped
    BY LayerKept
  <2>. QED
    BY <2>1, Zenon DEF Effective
<1>. QED
    BY <1>1, DefensivesTyped, PTL DEF DefensivesSpec, AuthorKeeps

-----------------------------------------------------------------------------
(* The pending sign-ins: the inductive invariant                           *)

\* A pending state was issued, has its time from then, and has not passed.
PendedOnce ==
    \A e \in pending :
        /\ e.state \in 1..Len(issued) /\ e.expires = issued[e.state].at + Ttl
        /\ \A i \in DOMAIN passed : passed[i].state # e.state

\* The nonce in a browser's cookie is the last one issued to it.
NoncesOwn ==
    \A p \in Player : nonce[p] # 0 => nonce[p] \in 1..Len(issued) /\ LastOf(p, nonce[p])

PassedOnce ==
    \A i \in DOMAIN passed :
        /\ passed[i].state \in 1..Len(issued)
        /\ passed[i].player = issued[passed[i].state].player
        /\ \A j \in DOMAIN passed : passed[j].state = passed[i].state => i = j

\* In its time, and with fewer than the cap issued after it, a state is pending or has passed.
LatestKept ==
    \A n \in 1..Len(issued) :
        clock < issued[n].at + Ttl /\ Len(issued) - n < MaxPending
            => HasPassed(n) \/ \E e \in pending : e.state = n

\* Nothing has cleared the cookie of a sign-in that began undisturbed, but its own callback; and no
\* other callback of its browser is under way to do it.
Undisturbed ==
    \A p \in Player, n \in 1..Len(issued) :
        LastOf(p, n) /\ ~disturbed[p] =>
            /\ nonce[p] = n \/ HasPassed(n)
            /\ \A i \in DOMAIN passed : passed[i].player = p /\ ~passed[i].answered => passed[i].state = n

OAuthIInv == OAuthTypeOK /\ PendedOnce /\ NoncesOwn /\ PassedOnce /\ LatestKept /\ Undisturbed

-----------------------------------------------------------------------------
(* The steps.                                                              *)

\* No more pending states are newer than one than were issued after it.
LEMMA NewerBounded ==
    ASSUME OAuthIInv, NEW e \in pending
    PROVE  Cardinality(Newer(Live(pending), e)) \in Nat
           /\ Cardinality(Newer(Live(pending), e)) <= Len(issued) - e.state
<1>. DEFINE K == (e.state + 1)..Len(issued)
            Entry(k) == [state |-> k, expires |-> issued[k].at + Ttl]
            T == {Entry(k) : k \in K}
            f == [k \in K |-> Entry(k)]
<1>1. e.state \in Nat /\ e.state <= Len(issued) /\ Len(issued) \in Nat
    BY DEF OAuthIInv, OAuthTypeOK, PendedOnce
<1>2. IsFiniteSet(K) /\ Cardinality(K) = Len(issued) - e.state
  <2>1. e.state + 1 \in Int /\ Len(issued) \in Int
    BY <1>1
  <2>2. /\ IsFiniteSet(K)
        /\ Cardinality(K) = IF e.state + 1 > Len(issued) THEN 0 ELSE Len(issued) - (e.state + 1) + 1
    BY <2>1, FS_Interval
  <2>. QED
    BY <1>1, <2>2
<1>3. f \in Surjection(K, T)
    BY DEF Surjection
<1>4. IsFiniteSet(T) /\ Cardinality(T) <= Cardinality(K)
  <2>. HIDE DEF K, T, f
  <2>. QED
    BY <1>2, <1>3, FS_Surjection
<1>5. Newer(Live(pending), e) \subseteq T
  <2>. SUFFICES ASSUME NEW d \in pending, d.state > e.state PROVE d \in T
    BY DEF Newer, Live
  <2>1. d \in [state: 1..MaxIssued, expires: Nat] /\ d.expires = issued[d.state].at + Ttl
    BY DEF OAuthIInv, OAuthTypeOK, PendedOnce
  <2>2. d.state \in K
    BY <1>1 DEF OAuthIInv, PendedOnce
  <2>3. d = Entry(d.state)
    BY <2>1
  <2>. QED
    BY <2>2, <2>3
<1>. HIDE DEF K, T, f
<1>6. /\ Cardinality(Newer(Live(pending), e)) <= Cardinality(T)
      /\ Cardinality(Newer(Live(pending), e)) \in Nat /\ Cardinality(T) \in Nat
    BY <1>4, <1>5, FS_Subset, FS_CardinalityType
<1>. QED
    BY <1>1, <1>2, <1>4, <1>6

LEMMA IssueStep ==
    ASSUME OAuthIInv, NEW p \in Player, Issue(p)
    PROVE  OAuthIInv'
<1>0. PICK n \in Nat : n = Len(issued) + 1
    BY DEF OAuthIInv, OAuthTypeOK
<1>. DEFINE new == [state |-> n, expires |-> clock + Ttl]
<1>1. /\ n <= MaxIssued
      /\ pending' = Evicted(Live(pending)) \union {new}
      /\ issued' = Append(issued, [player |-> p, at |-> clock])
      /\ nonce' = [nonce EXCEPT ![p] = n]
      /\ disturbed' = [disturbed EXCEPT ![p] = UnderWay(p)]
      /\ UNCHANGED <<clock, passed>>
    BY <1>0 DEF Issue
<1>2. /\ issued \in Seq([player: Player, at: 0..MaxNow]) /\ clock \in 0..MaxNow
      /\ Len(issued) \in Nat /\ Ttl \in Nat /\ MaxIssued \in Nat /\ MaxPending \in Nat
      /\ clock \in Nat /\ MaxNow \in Nat /\ n = Len(issued) + 1
    BY <1>0, OAuthConstants DEF OAuthIInv, OAuthTypeOK
<1>3. /\ Len(issued') = n /\ issued'[n] = [player |-> p, at |-> clock]
      /\ \A k \in 1..Len(issued) : issued'[k] = issued[k]
      /\ issued' \in Seq([player: Player, at: 0..MaxNow])
      /\ DOMAIN issued' = 1..n /\ DOMAIN issued = 1..Len(issued)
    BY <1>1, <1>2
<1>4. Evicted(Live(pending)) \subseteq pending
    BY DEF Evicted, Live
<1>5. OAuthTypeOK'
  <2>1. new \in [state: 1..MaxIssued, expires: Nat]
    BY <1>1, <1>2
  <2>2. pending' \subseteq [state: 1..MaxIssued, expires: Nat]
    BY <1>1, <1>4, <2>1 DEF OAuthIInv, OAuthTypeOK
  <2>3. nonce' \in [Player -> 0..MaxIssued]
    BY <1>1, <1>2 DEF OAuthIInv, OAuthTypeOK
  <2>4. disturbed' \in [Player -> BOOLEAN]
    BY <1>1, Zenon DEF OAuthIInv, OAuthTypeOK, UnderWay
  <2>. QED
    BY <1>1, <1>3, <2>2, <2>3, <2>4 DEF OAuthIInv, OAuthTypeOK
<1>6. PassedOnce'
    BY <1>1, <1>2, <1>3 DEF OAuthIInv, PassedOnce
<1>7. PendedOnce'
  <2>. SUFFICES ASSUME NEW e \in pending'
                PROVE  /\ e.state \in 1..Len(issued') /\ e.expires = issued'[e.state].at + Ttl
                       /\ \A i \in DOMAIN passed : passed[i].state # e.state
    BY <1>1 DEF PendedOnce
  <2>1. CASE e = new
    BY <1>2, <1>3, <2>1 DEF OAuthIInv, PassedOnce
  <2>2. CASE e \in pending
    <3>1. /\ e.state \in 1..Len(issued) /\ e.expires = issued[e.state].at + Ttl
          /\ \A i \in DOMAIN passed : passed[i].state # e.state
      BY <2>2, Zenon DEF OAuthIInv, PendedOnce
    <3>2. issued'[e.state] = issued[e.state] /\ e.state \in 1..n /\ passed' = passed
      BY <1>1, <1>2, <1>3, <3>1
    <3>. QED
      BY <1>3, <3>1, <3>2
  <2>. QED
    BY <1>1, <1>4, <2>1, <2>2
<1>8. LastOf(p, n)' /\ \A k \in 1..Len(issued) : ~LastOf(p, k)'
  <2>1. issued'[n].player = p /\ n \in 1..n /\ DOMAIN issued' = 1..n
    BY <1>2, <1>3
  <2>2. LastOf(p, n)'
    BY <2>1 DEF LastOf
  <2>3. \A k \in 1..Len(issued) : ~(n <= k)
    BY <1>2
  <2>. QED
    BY <2>1, <2>2, <2>3, Zenon DEF LastOf
<1>9. \A q \in Player \ {p} : ~LastOf(q, n)' /\ \A k \in 1..Len(issued) : LastOf(q, k)' <=> LastOf(q, k)
  <2>. TAKE q \in Player \ {p}
  <2>1. issued'[n].player = p /\ p # q
    BY <1>3
  <2>2. \A m : m \in DOMAIN issued' <=> m = n \/ m \in DOMAIN issued
    BY <1>2, <1>3
  <2>3. ASSUME NEW k \in DOMAIN issued PROVE LastOf(q, k)' <=> LastOf(q, k)
    BY <1>3, <2>1, <2>2, <2>3, Zenon DEF LastOf
  <2>. QED
    BY <1>3, <2>1, <2>3, Zenon DEF LastOf
<1>10. /\ nonce'[p] = n /\ disturbed'[p] = UnderWay(p)
       /\ \A q \in Player \ {p} : nonce'[q] = nonce[q] /\ disturbed'[q] = disturbed[q]
    BY <1>1, Zenon DEF OAuthIInv, OAuthTypeOK
<1>11. \A k \in 1..n : k = n \/ k \in 1..Len(issued)
    BY <1>2
<1>12. n \in 1..n /\ \A k \in 1..Len(issued) : k \in 1..n
    BY <1>2
<1>13. NoncesOwn'
  <2>. SUFFICES ASSUME NEW q \in Player, NEW k, nonce'[q] = k, k # 0
                PROVE  k \in 1..Len(issued') /\ LastOf(q, k)'
    BY DEF NoncesOwn, LastOf
  <2>1. CASE q = p
    BY <1>3, <1>8, <1>10, <1>12, <2>1
  <2>2. CASE q # p
    <3>1. nonce[q] = k /\ k \in 1..Len(issued) /\ LastOf(q, k)
      BY <1>10, <2>2 DEF OAuthIInv, NoncesOwn
    <3>. QED
      BY <1>3, <1>9, <1>12, <2>2, <3>1
  <2>. QED
    BY <2>1, <2>2
<1>14. Undisturbed'
  <2>. SUFFICES ASSUME NEW q \in Player, NEW k \in 1..n, LastOf(q, k)', ~disturbed'[q]
                PROVE  /\ nonce'[q] = k \/ HasPassed(k)
                       /\ \A i \in DOMAIN passed :
                            passed[i].player = q /\ ~passed[i].answered => passed[i].state = k
    <3>1. passed' = passed /\ Len(issued') = n
      BY <1>1, <1>3
    <3>. QED
      BY <3>1 DEF Undisturbed, HasPassed, LastOf
  <2>1. CASE q = p
    BY <1>8, <1>10, <1>11, <2>1 DEF UnderWay
  <2>2. CASE q # p
    BY <1>9, <1>10, <1>11, <2>2 DEF OAuthIInv, Undisturbed
  <2>. QED
    BY <2>1, <2>2
<1>15. LatestKept'
  <2>. SUFFICES ASSUME NEW k \in 1..n, clock < issued'[k].at + Ttl, n - k < MaxPending
                PROVE  HasPassed(k) \/ \E e \in pending' : e.state = k
    <3>1. passed' = passed /\ clock' = clock /\ Len(issued') = n
      BY <1>1, <1>3
    <3>. QED
      BY <3>1 DEF LatestKept, HasPassed
  <2>1. CASE k = n
    <3>1. new \in pending' /\ new.state = n
      BY <1>1
    <3>. QED
      BY <2>1, <3>1
  <2>2. CASE k \in 1..Len(issued) /\ ~HasPassed(k)
    <3>1. issued'[k] = issued[k] /\ Len(issued) - k < MaxPending - 1
      BY <1>2, <1>3, <2>2
    <3>2. PICK e \in pending : e.state = k
      <4>1. Len(issued) - k < MaxPending /\ clock < issued[k].at + Ttl
        BY <1>2, <2>2, <3>1
      <4>. QED
        BY <2>2, <4>1 DEF OAuthIInv, LatestKept
    <3>3. e \in Live(pending)
      BY <3>1, <3>2 DEF Live, OAuthIInv, PendedOnce
    <3>4. Cardinality(Newer(Live(pending), e)) < MaxPending - 1
      BY <1>2, <2>2, <3>1, <3>2, NewerBounded
    <3>5. e \in Evicted(Live(pending))
      BY <3>3, <3>4 DEF Evicted
    <3>. QED
      BY <1>1, <3>2, <3>5
  <2>. QED
    BY <1>11, <2>1, <2>2
<1>. QED
    BY <1>5, <1>6, <1>7, <1>13, <1>14, <1>15 DEF OAuthIInv

LEMMA ConsumeStep ==
    ASSUME OAuthIInv, NEW p \in Player, NEW n \in 1..Len(issued), Consume(p, n)
    PROVE  OAuthIInv'
<1>. DEFINE rec == [state |-> n, player |-> p, answered |-> FALSE]
            Records == [state: 1..MaxIssued, player: Player, answered: BOOLEAN]
<1>1. /\ nonce[p] = n /\ \E e \in pending : e.state = n
      /\ pending' = {e \in pending : e.state # n}
      /\ passed' = Append(passed, rec)
      /\ UNCHANGED <<clock, issued, nonce, disturbed>>
    BY DEF Consume, Passes, Dropped, EntryOf
<1>2. n \in 1..MaxIssued /\ LastOf(p, n) /\ issued[n].player = p
  <2>1. n # 0
    BY DEF OAuthIInv, OAuthTypeOK
  <2>. QED
    BY <1>1, <2>1 DEF OAuthIInv, OAuthTypeOK, NoncesOwn, LastOf
<1>3. /\ Len(passed) \in Nat /\ passed' \in Seq(Records)
      /\ DOMAIN passed' = 1..(Len(passed) + 1) /\ DOMAIN passed = 1..Len(passed)
      /\ passed'[Len(passed) + 1] = rec
      /\ \A i \in DOMAIN passed : passed'[i] = passed[i]
  <2>1. rec \in Records
    BY <1>2
  <2>2. passed \in Seq(Records)
    BY DEF OAuthIInv, OAuthTypeOK
  <2>. HIDE DEF rec, Records
  <2>. QED
    BY <1>1, <2>1, <2>2
<1>4. \A i \in DOMAIN passed' : i \in DOMAIN passed \/ passed'[i] = rec
    BY <1>3
<1>5. OAuthTypeOK'
    BY <1>1, <1>3 DEF OAuthIInv, OAuthTypeOK
<1>6. \A i \in DOMAIN passed : passed[i].state # n
    BY <1>1 DEF OAuthIInv, PendedOnce
<1>7. PendedOnce'
    BY <1>1, <1>3 DEF OAuthIInv, PendedOnce
<1>8. PassedOnce'
    BY <1>1, <1>2, <1>3, <1>6 DEF OAuthIInv, PassedOnce
<1>9. \A q, k : LastOf(q, k)' <=> LastOf(q, k)
    BY <1>1 DEF LastOf
<1>10. NoncesOwn'
    BY <1>1, <1>9, Zenon DEF OAuthIInv, NoncesOwn
<1>11. HasPassed(n)' /\ \A k : HasPassed(k) => HasPassed(k)'
    BY <1>3 DEF HasPassed
<1>12. LatestKept'
  <2>. SUFFICES ASSUME NEW k \in 1..Len(issued), clock < issued[k].at + Ttl, Len(issued) - k < MaxPending
                PROVE  HasPassed(k)' \/ \E e \in pending' : e.state = k
    BY <1>1 DEF LatestKept
  <2>1. HasPassed(k) \/ \E e \in pending : e.state = k
    BY DEF OAuthIInv, LatestKept
  <2>. QED
    BY <1>1, <1>11, <2>1
<1>13. Undisturbed'
  <2>. SUFFICES ASSUME NEW q \in Player, NEW k \in 1..Len(issued), LastOf(q, k), ~disturbed[q]
                PROVE  /\ nonce[q] = k \/ HasPassed(k)'
                       /\ \A i \in DOMAIN passed' :
                            passed'[i].player = q /\ ~passed'[i].answered => passed'[i].state = k
    BY <1>1, <1>9, ZenonT(30) DEF Undisturbed
  <2>1. nonce[q] = k \/ HasPassed(k)'
    BY <1>11 DEF OAuthIInv, Undisturbed
  <2>2. ASSUME NEW i \in DOMAIN passed', passed'[i].player = q, ~passed'[i].answered
        PROVE  passed'[i].state = k
    <3>1. CASE i \in DOMAIN passed
      BY <1>3, <2>2, <3>1 DEF OAuthIInv, Undisturbed
    <3>2. CASE passed'[i] = rec
      <4>1. q = p /\ passed'[i].state = n
        BY <2>2, <3>2
      <4>2. n <= k /\ k <= n
        <5>1. DOMAIN issued = 1..Len(issued)
          BY DEF OAuthIInv, OAuthTypeOK
        <5>. QED
          BY <1>2, <4>1, <5>1, Zenon DEF LastOf
      <4>. QED
        BY <4>1, <4>2
    <3>. QED
      BY <1>4, <3>1, <3>2
  <2>. QED
    BY <2>1, <2>2
<1>. QED
    BY <1>5, <1>7, <1>8, <1>10, <1>12, <1>13 DEF OAuthIInv

LEMMA AnswerStep ==
    ASSUME OAuthIInv, NEW i \in DOMAIN passed, Answer(i)
    PROVE  OAuthIInv'
<1>. DEFINE Records == [state: 1..MaxIssued, player: Player, answered: BOOLEAN]
<1>0. /\ passed \in Seq(Records) /\ DOMAIN passed = 1..Len(passed) /\ Len(passed) \in Nat
      /\ nonce \in [Player -> 0..MaxIssued] /\ MaxIssued \in Nat
  <2>1. passed \in Seq(Records) /\ nonce \in [Player -> 0..MaxIssued] /\ MaxIssued \in Nat
    BY OAuthConstants DEF OAuthIInv, OAuthTypeOK
  <2>. HIDE DEF Records
  <2>. QED
    BY <2>1
<1>2. PICK rec \in Records : rec = [passed[i] EXCEPT !.answered = TRUE]
                             /\ rec.state = passed[i].state /\ rec.player = passed[i].player /\ rec.answered
  <2>1. passed[i] \in Records
    <3>. HIDE DEF Records
    <3>. QED
      BY <1>0, ElementOfSeq
  <2>. DEFINE new == [passed[i] EXCEPT !.answered = TRUE]
  <2>2. new \in Records
    BY <2>1
  <2>3. new.state = passed[i].state /\ new.player = passed[i].player /\ new.answered = TRUE
    BY <2>1
  <2>. QED
    BY <2>2, <2>3, Zenon
<1>3. PICK q \in Player : q = passed[i].player
    BY <1>2
<1>1. /\ ~passed[i].answered /\ passed' = [passed EXCEPT ![i] = rec]
      /\ nonce' = [nonce EXCEPT ![q] = 0]
      /\ UNCHANGED <<clock, pending, issued, disturbed>>
    BY <1>2, <1>3 DEF Answer
<1>4. /\ passed' \in Seq(Records) /\ DOMAIN passed' = DOMAIN passed
      /\ \A j \in DOMAIN passed :
            /\ passed'[j].state = passed[j].state /\ passed'[j].player = passed[j].player
            /\ j # i => passed'[j].answered = passed[j].answered
      /\ passed'[i].answered
  <2>1. /\ passed' \in Seq(Records) /\ DOMAIN passed' = DOMAIN passed /\ passed'[i] = rec
        /\ \A j \in DOMAIN passed : j # i => passed'[j] = passed[j]
    <3>. HIDE DEF Records
    <3>. QED
      BY <1>0, <1>1
  <2>. QED
    BY <1>2, <2>1, Zenon
<1>5. \A r \in Player : nonce'[r] \in 0..MaxIssued /\ (nonce'[r] = nonce[r] \/ (r = q /\ nonce'[r] = 0))
  <2>1. 0 \in 0..MaxIssued
    BY <1>0
  <2>. SUFFICES ASSUME NEW r \in Player
                PROVE  nonce'[r] \in 0..MaxIssued /\ (nonce'[r] = nonce[r] \/ (r = q /\ nonce'[r] = 0))
    OBVIOUS
  <2>2. nonce[r] \in 0..MaxIssued
    BY <1>0
  <2>3. CASE r = q
    <3>1. nonce'[r] = 0
      BY <1>0, <1>1, <2>3, Zenon
    <3>. QED
      BY <2>1, <2>3, <3>1, Zenon
  <2>4. CASE r # q
    <3>1. nonce'[r] = nonce[r]
      BY <1>0, <1>1, <2>4, Zenon
    <3>2. nonce'[r] \in 0..MaxIssued
      BY <2>2, <3>1
    <3>. QED
      BY <3>1, <3>2
  <2>. QED
    BY <2>3, <2>4, Zenon
<1>6. OAuthTypeOK'
  <2>1. nonce' \in [Player -> 0..MaxIssued]
    BY <1>0, <1>1
  <2>. QED
    BY <1>1, <1>4, <2>1 DEF OAuthIInv, OAuthTypeOK
<1>. HIDE DEF Records
<1>7. PendedOnce'
    BY <1>1, <1>4 DEF OAuthIInv, PendedOnce
<1>8. PassedOnce'
    BY <1>1, <1>4 DEF OAuthIInv, PassedOnce
<1>9. (\A r, k : LastOf(r, k)' <=> LastOf(r, k)) /\ \A k : HasPassed(k)' <=> HasPassed(k)
    BY <1>1, <1>4, Zenon DEF LastOf, HasPassed
<1>10. NoncesOwn'
    BY <1>1, <1>5, <1>9, Zenon DEF OAuthIInv, NoncesOwn
<1>11. LatestKept'
    BY <1>1, <1>9 DEF OAuthIInv, LatestKept
<1>12. Undisturbed'
  <2>. SUFFICES ASSUME NEW r \in Player, NEW k \in 1..Len(issued), LastOf(r, k), ~disturbed[r]
                PROVE  /\ nonce'[r] = k \/ HasPassed(k)
                       /\ \A j \in DOMAIN passed :
                            passed'[j].player = r /\ ~passed'[j].answered => passed'[j].state = k
    BY <1>1, <1>4, <1>9 DEF Undisturbed
  <2>1. /\ nonce[r] = k \/ HasPassed(k)
        /\ \A j \in DOMAIN passed : passed[j].player = r /\ ~passed[j].answered => passed[j].state = k
    BY DEF OAuthIInv, Undisturbed
  <2>2. r = q => HasPassed(k)
    BY <1>1, <1>3, <2>1 DEF HasPassed
  <2>. QED
    BY <1>4, <1>5, <2>1, <2>2
<1>. QED
    BY <1>6, <1>7, <1>8, <1>10, <1>11, <1>12 DEF OAuthIInv

LEMMA TurnAwayStep ==
    ASSUME OAuthIInv, NEW p \in Player, NEW n \in 1..Len(issued), TurnAway(p, n)
    PROVE  OAuthIInv'
<1>1. /\ \E e \in pending : e.state = n /\ e.expires <= clock
      /\ pending' = {e \in pending : e.state # n}
      /\ UNCHANGED <<clock, issued, nonce, passed, disturbed>>
    BY DEF TurnAway, Dropped, EntryOf
<1>2. OAuthTypeOK' /\ PendedOnce' /\ PassedOnce'
    BY <1>1 DEF OAuthIInv, OAuthTypeOK, PendedOnce, PassedOnce
<1>5. (\A q, k : LastOf(q, k)' <=> LastOf(q, k)) /\ \A k : HasPassed(k)' <=> HasPassed(k)
    BY <1>1, Zenon DEF LastOf, HasPassed
<1>6. NoncesOwn' /\ Undisturbed'
    BY <1>1, <1>5, Zenon DEF OAuthIInv, NoncesOwn, Undisturbed
<1>3. ~(clock < issued[n].at + Ttl)
  <2>1. PICK e \in pending : e.state = n /\ e.expires <= clock
    BY <1>1
  <2>2. e.expires = issued[n].at + Ttl /\ e.expires \in Nat /\ clock \in Nat
    BY <2>1 DEF OAuthIInv, OAuthTypeOK, PendedOnce
  <2>. QED
    BY <2>1, <2>2
<1>4. LatestKept'
    BY <1>1, <1>3 DEF OAuthIInv, LatestKept, HasPassed
<1>. QED
    BY <1>2, <1>4, <1>6 DEF OAuthIInv

LEMMA CancelStep ==
    ASSUME OAuthIInv, NEW p \in Player, Cancel(p)
    PROVE  OAuthIInv'
<1>1. /\ nonce' \in [Player -> 0..MaxIssued]
      /\ \A q \in Player : nonce'[q] # 0 => nonce'[q] = nonce[q]
      /\ UNCHANGED <<clock, pending, issued, passed>>
    BY OAuthConstants DEF Cancel, OAuthIInv, OAuthTypeOK
<1>2. /\ disturbed' \in [Player -> BOOLEAN]
      /\ \A q \in Player : ~disturbed'[q] => q # p /\ ~disturbed[q] /\ nonce'[q] = nonce[q]
    BY Zenon DEF Cancel, OAuthIInv, OAuthTypeOK
<1>3. OAuthTypeOK' /\ PassedOnce' /\ PendedOnce'
    BY <1>1, <1>2, Zenon DEF OAuthIInv, OAuthTypeOK, PassedOnce, PendedOnce
<1>4. NoncesOwn' /\ LatestKept'
    BY <1>1, Zenon DEF OAuthIInv, NoncesOwn, LatestKept, LastOf, HasPassed
<1>5. Undisturbed'
  <2>1. (\A q, k : LastOf(q, k)' <=> LastOf(q, k)) /\ \A k : HasPassed(k)' <=> HasPassed(k)
    BY <1>1, Zenon DEF LastOf, HasPassed
  <2>. SUFFICES ASSUME NEW q \in Player, NEW k \in 1..Len(issued), LastOf(q, k), ~disturbed'[q]
                PROVE  /\ nonce'[q] = k \/ HasPassed(k)
                       /\ \A i \in DOMAIN passed :
                            passed[i].player = q /\ ~passed[i].answered => passed[i].state = k
    BY <1>1, <2>1 DEF Undisturbed
  <2>. QED
    BY <1>2 DEF OAuthIInv, Undisturbed
<1>. QED
    BY <1>3, <1>4, <1>5 DEF OAuthIInv

LEMMA OAuthStep == OAuthIInv /\ [OAuthNext]_oauthVars => OAuthIInv'
<1>. SUFFICES ASSUME OAuthIInv, [OAuthNext]_oauthVars PROVE OAuthIInv'
    OBVIOUS
<1>0. CASE UNCHANGED oauthVars
    BY <1>0 DEF OAuthIInv, oauthVars, OAuthTypeOK, PendedOnce, NoncesOwn, PassedOnce, LatestKept,
                Undisturbed, LastOf, HasPassed
<1>1. CASE Advance
  <2>1. /\ clock \in Nat /\ clock' = clock + 1 /\ clock' \in 0..MaxNow
        /\ UNCHANGED <<pending, issued, nonce, passed, disturbed>>
    BY <1>1, OAuthConstants DEF Advance, OAuthIInv, OAuthTypeOK
  <2>2. OAuthTypeOK' /\ PendedOnce' /\ NoncesOwn' /\ PassedOnce' /\ Undisturbed'
    BY <2>1 DEF OAuthIInv, OAuthTypeOK, PendedOnce, NoncesOwn, PassedOnce, Undisturbed, LastOf, HasPassed
  <2>3. \A n \in 1..Len(issued) : issued[n].at \in Nat
    <3>. SUFFICES ASSUME NEW n \in 1..Len(issued) PROVE issued[n].at \in Nat
      OBVIOUS
    <3>1. issued \in Seq([player: Player, at: 0..MaxNow])
      BY DEF OAuthIInv, OAuthTypeOK
    <3>2. issued[n] \in [player: Player, at: 0..MaxNow]
      BY <3>1, ElementOfSeq, Zenon
    <3>. QED
      BY <3>2, OAuthConstants
  <2>4. LatestKept'
    BY <2>1, <2>3, OAuthConstants DEF OAuthIInv, LatestKept, HasPassed
  <2>. QED
    BY <2>2, <2>4 DEF OAuthIInv
<1>. QED
    BY <1>0, <1>1, IssueStep, ConsumeStep, AnswerStep, TurnAwayStep, CancelStep DEF OAuthNext

\* A sign-in passes once and in the browser that began it, and the one a browser began last has
\* passed or passes in its time, unless the cap's worth were begun after it, it was begun with a
\* callback of that browser under way, or the player said no (hosted/oauth-state.ts).
THEOREM SignInsPass == OAuthSpec => []LatestPasses
<1>1. OAuthInit => OAuthIInv
    BY OAuthConstants
       DEF OAuthInit, OAuthIInv, OAuthTypeOK, PendedOnce, NoncesOwn, PassedOnce, LatestKept, Undisturbed
<1>2. OAuthIInv /\ [OAuthNext]_oauthVars => OAuthIInv'
    BY OAuthStep
<1>3. OAuthIInv => LatestPasses
  <2>. SUFFICES ASSUME OAuthIInv PROVE LatestPasses
    OBVIOUS
  <2>1. DOMAIN issued = 1..Len(issued)
    BY DEF OAuthIInv, OAuthTypeOK
  <2>2. ASSUME NEW p \in Player, NEW n \in 1..Len(issued), LastOf(p, n), ~disturbed[p],
               clock < issued[n].at + Ttl, Len(issued) - n < MaxPending, ~HasPassed(n)
        PROVE  Passes(p, n)
    <3>1. nonce[p] = n
      BY <2>2 DEF OAuthIInv, Undisturbed
    <3>2. PICK e \in pending : e.state = n
      BY <2>2 DEF OAuthIInv, LatestKept
    <3>. QED
      BY <2>2, <3>1, <3>2 DEF OAuthIInv, PendedOnce, Passes, EntryOf
  <2>. QED
    BY <2>1, <2>2 DEF OAuthIInv, PassedOnce, LatestPasses
<1>. QED
    BY <1>1, <1>2, <1>3, PTL DEF OAuthSpec

-----------------------------------------------------------------------------
(* The limiter: the inductive invariant                                     *)

\* How many accepted hits of k the limiter no longer holds.
Gone(k) == Len(accepted[k]) - Len(hits[k])

HitsAreTail ==
    \A k \in Key :
        /\ Gone(k) >= 0
        /\ \A i \in 1..Len(hits[k]) : hits[k][i] = accepted[k][Gone(k) + i]

GoneExpired == \A k \in Key : \A i \in 1..Gone(k) : Expired(accepted[k][i])

Ascending ==
    \A k \in Key :
        /\ \A i \in 1..Len(accepted[k]) : accepted[k][i] <= now
        /\ \A i, j \in 1..Len(accepted[k]) : i <= j => accepted[k][i] <= accepted[k][j]

\* A burst that the sweep forgot has nothing left in the window.
BurstsKnown ==
    /\ refusing \subseteq bursting
    /\ \A k \in bursting \ refusing :
         \A i \in 1..Len(accepted[k]) : Expired(accepted[k][i])

IInv == TypeOK /\ HitsAreTail /\ GoneExpired /\ Ascending /\ BurstsKnown

-----------------------------------------------------------------------------
(* Lemmas about the pruned list                                             *)

\* What hit keeps after its while loop is again the tail of what was accepted, and
\* all that came before it has expired.
LEMMA RestIsTail ==
    ASSUME IInv, NEW k \in Key, NEW drop \in 0..Len(hits[k]), Drops(hits[k], drop)
    PROVE  LET list == Rest(hits[k], drop)
               gone == Len(accepted[k]) - Len(list)
           IN  /\ list \in Seq(Nat) /\ Len(list) = Len(hits[k]) - drop
               /\ gone \in Nat
               /\ \A i \in 1..Len(list) : list[i] = accepted[k][gone + i]
               /\ \A i \in 1..gone : Expired(accepted[k][i])
               /\ Len(list) > 0 => ~Expired(list[1])
<1>. DEFINE list == Rest(hits[k], drop)
            gone == Len(accepted[k]) - Len(list)
<1>1. hits[k] \in Seq(Nat) /\ accepted[k] \in Seq(Nat) /\ drop \in Nat /\ drop <= Len(hits[k])
      /\ Len(hits[k]) \in Nat /\ Len(accepted[k]) \in Nat
    BY DEF IInv, TypeOK
<1>2. /\ list \in Seq(Nat) /\ Len(list) = Len(hits[k]) - drop
      /\ \A i \in 1..Len(list) : list[i] = hits[k][drop + i]
  <2>1. list = [i \in 1..Len(hits[k]) - drop |-> hits[k][drop + i]]
    BY <1>1 DEF Rest
  <2>2. \A i \in 1..Len(hits[k]) - drop : drop + i \in 1..Len(hits[k]) /\ hits[k][drop + i] \in Nat
    BY <1>1, SMTT(30)
  <2>. HIDE DEF list
  <2>3. Len(list) = Len(hits[k]) - drop
    BY <1>1, <2>1
  <2>. QED
    BY <1>1, <2>1, <2>2, <2>3
<1>3. gone = Gone(k) + drop /\ gone \in Nat /\ Gone(k) \in Nat
  <2>1. Gone(k) >= 0 /\ Gone(k) = Len(accepted[k]) - Len(hits[k])
    BY DEF IInv, HitsAreTail, Gone
  <2>. HIDE DEF list
  <2>. QED
    BY <1>1, <1>2, <2>1
<1>. HIDE DEF list, gone
<1>4. ASSUME NEW i \in 1..Len(list) PROVE list[i] = accepted[k][gone + i]
  <2>1. drop + i \in 1..Len(hits[k])
    BY <1>1, <1>2
  <2>2. hits[k][drop + i] = accepted[k][Gone(k) + (drop + i)]
    BY <2>1 DEF IInv, HitsAreTail
  <2>3. Gone(k) + (drop + i) = gone + i
    BY <1>1, <1>3
  <2>. QED
    BY <1>2, <2>2, <2>3
<1>5. ASSUME NEW i \in 1..gone PROVE Expired(accepted[k][i])
  <2>1. CASE i \in 1..Gone(k)
    BY <2>1 DEF IInv, GoneExpired
  <2>2. CASE i > Gone(k)
    <3>1. i - Gone(k) \in 1..drop /\ i - Gone(k) \in 1..Len(hits[k])
        BY <1>1, <1>3, <2>2
    <3>2. hits[k][i - Gone(k)] = accepted[k][Gone(k) + (i - Gone(k))]
        BY <3>1 DEF IInv, HitsAreTail
    <3>3. Gone(k) + (i - Gone(k)) = i
        BY <1>3
    <3>. QED
        BY <3>1, <3>2, <3>3 DEF Drops
  <2>. QED
    BY <1>3, <2>1, <2>2
<1>6. ASSUME Len(list) > 0 PROVE ~Expired(list[1])
  <2>1. drop < Len(hits[k]) /\ 1 \in 1..Len(list)
    BY <1>1, <1>2, <1>6
  <2>2. list[1] = hits[k][drop + 1]
    BY <1>2, <2>1
  <2>. QED
    BY <2>1, <2>2 DEF Drops
<1>. QED
    BY <1>2, <1>3, <1>4, <1>5, <1>6 DEF list, gone

\* There is room exactly when the pruned list is shorter than the limit.
LEMMA RoomMeansShort ==
    ASSUME IInv, NEW k \in Key, NEW drop \in 0..Len(hits[k]), Drops(hits[k], drop)
    PROVE  Len(Rest(hits[k], drop)) < Limit <=> W!HasRoom(k)
<1>. DEFINE list == Rest(hits[k], drop)
            n == Len(accepted[k])
            gone == n - Len(list)
<1>1. /\ list \in Seq(Nat) /\ gone \in Nat
      /\ \A i \in 1..Len(list) : list[i] = accepted[k][gone + i]
      /\ \A i \in 1..gone : Expired(accepted[k][i])
      /\ Len(list) > 0 => ~Expired(list[1])
    BY RestIsTail
<1>2. /\ accepted[k] \in Seq(Nat) /\ n \in Nat /\ Len(list) \in Nat /\ now \in Nat
      /\ Limit \in Nat \ {0} /\ Window \in Nat
    BY <1>1, LimiterConstants DEF IInv, TypeOK, LimiterConstants
<1>. HIDE DEF list
<1>3. ASSUME Len(list) < Limit, n >= Limit PROVE Expired(accepted[k][n - Limit + 1])
  <2>1. n - Limit + 1 \in 1..gone
    BY <1>2, <1>3
  <2>. QED
    BY <1>1, <2>1
<1>4. ASSUME Len(list) >= Limit PROVE n >= Limit /\ ~Expired(accepted[k][n - Limit + 1])
  <2>1. gone + 1 \in 1..n /\ n - Limit + 1 \in 1..n /\ gone + 1 <= n - Limit + 1
    BY <1>1, <1>2, <1>4
  <2>2. accepted[k][gone + 1] <= accepted[k][n - Limit + 1]
    BY <2>1 DEF IInv, Ascending
  <2>3. ~Expired(accepted[k][gone + 1])
    <3>1. 1 \in 1..Len(list) /\ Len(list) > 0
        BY <1>2, <1>4
    <3>. QED
        BY <1>1, <3>1
  <2>4. accepted[k][gone + 1] \in Nat /\ accepted[k][n - Limit + 1] \in Nat
    <3>1. \A i \in 1..n : accepted[k][i] \in Nat
        BY <1>2
    <3>. HIDE DEF n, gone
    <3>. QED
        BY <2>1, <3>1
  <2>5. n >= Limit
    BY <1>1, <1>2, <1>4
  <2>6. ~Expired(accepted[k][n - Limit + 1])
    <3>1. ASSUME NEW s \in Nat, NEW t \in Nat, s <= t, ~Expired(s) PROVE ~Expired(t)
        BY <1>2, <3>1 DEF Expired
    <3>. QED
        BY <2>2, <2>3, <2>4, <3>1
  <2>. QED
    BY <2>5, <2>6
<1>. QED
    BY <1>2, <1>3, <1>4 DEF W!HasRoom, Expired, list

-----------------------------------------------------------------------------
(* Type correctness                                                         *)

\* The declared types hold of every reachable state; in particular a refusal always
\* asks to wait a second or more (ratelimit.ts:54).
LEMMA TypeInit == Init => TypeOK
    BY LimiterConstants DEF LimiterConstants, Init, TypeOK, Silent, Verdicts

\* Math.max(1, ...) makes the wait positive.
LEMMA RetryPositive ==
    ASSUME NEW t \in Nat, now \in Nat, ~Expired(t)
    PROVE  RetryAfter(t) \in Nat \ {0}
<1>1. t + Window - now \in Nat /\ Second \in Nat \ {0}
    BY LimiterConstants DEF LimiterConstants, Expired
<1>2. Ceil(t + Window - now, Second) \in Int
    BY <1>1 DEF Ceil
<1>. QED
    BY <1>2 DEF RetryAfter

LEMMA TypeNext == IInv /\ [Next]_vars => TypeOK'
<1>. SUFFICES ASSUME IInv, [Next]_vars PROVE TypeOK'
    OBVIOUS
<1>. USE LimiterConstants DEF LimiterConstants
<1>0. TypeOK
    BY DEF IInv
<1>1. CASE Tick
    BY <1>0, <1>1 DEF Tick, TypeOK
<1>2. CASE Sweep
  <2>1. hits' \in [Key -> Seq(Nat)]
    BY <1>0, <1>2 DEF Sweep, TypeOK
  <2>2. keys' \subseteq Key /\ refusing' \subseteq Key
    BY <1>0, <1>2 DEF Sweep, TypeOK
  <2>. QED
    BY <1>0, <1>2, <2>1, <2>2 DEF Sweep, TypeOK
<1>3. ASSUME NEW k \in Key, Hit(k) PROVE TypeOK'
  <2>. PICK drop \in 0..Len(hits[k]) :
         /\ Drops(hits[k], drop)
         /\ Refuse(k, Rest(hits[k], drop)) \/ Accept(k, Rest(hits[k], drop))
    BY <1>3 DEF Hit
  <2>. DEFINE list == Rest(hits[k], drop)
  <2>1. list \in Seq(Nat) /\ (Len(list) > 0 => ~Expired(list[1]))
    BY RestIsTail
  <2>2. now \in Nat
    BY <1>0 DEF TypeOK
  <2>. HIDE DEF list
  <2>3. CASE Refuse(k, list)
    <3>1. Len(list) > 0 /\ list[1] \in Nat
        BY <2>1, <2>3 DEF Refuse
    <3>2. RetryAfter(list[1]) \in Nat \ {0}
        BY <2>1, <2>2, <3>1, RetryPositive
    <3>3. (k \notin refusing) \in BOOLEAN
        OBVIOUS
    <3>4. verdict' \in Verdicts
        BY <2>2, <2>3, <3>2, <3>3, Zenon DEF Refuse, Verdicts
    <3>. QED
        BY <1>0, <2>1, <2>3, <3>4 DEF Refuse, TypeOK
  <2>4. CASE Accept(k, list)
    <3>1. verdict' \in Verdicts
        BY <2>2, <2>4 DEF Accept, Verdicts
    <3>2. Append(list, now) \in Seq(Nat) /\ Append(accepted[k], now) \in Seq(Nat)
        BY <1>0, <2>1, <2>2 DEF TypeOK
    <3>. QED
        BY <1>0, <2>4, <3>1, <3>2 DEF Accept, TypeOK
  <2>. QED
    BY <2>3, <2>4 DEF list
<1>4. CASE UNCHANGED vars
    BY <1>0, <1>4 DEF vars, TypeOK, Verdicts
<1>. QED
    BY <1>1, <1>2, <1>3, <1>4 DEF Next

-----------------------------------------------------------------------------
(* The inductive step                                                       *)

LEMMA InvInit == Init => IInv
    BY TypeInit DEF Init, IInv, HitsAreTail, GoneExpired, Ascending, BurstsKnown, Gone

\* An accepted hit is put after the tail that is kept.
LEMMA AcceptStep ==
    ASSUME IInv, NEW k \in Key, NEW drop \in 0..Len(hits[k]), Drops(hits[k], drop),
           Accept(k, Rest(hits[k], drop))
    PROVE  HitsAreTail' /\ GoneExpired' /\ Ascending' /\ BurstsKnown'
<1>. DEFINE list == Rest(hits[k], drop)
            gone == Len(accepted[k]) - Len(list)
<1>1. /\ list \in Seq(Nat) /\ gone \in Nat
      /\ \A i \in 1..Len(list) : list[i] = accepted[k][gone + i]
      /\ \A i \in 1..gone : Expired(accepted[k][i])
    BY RestIsTail
<1>2. /\ now \in Nat /\ now' = now /\ accepted[k] \in Seq(Nat)
      /\ accepted \in [Key -> Seq(Nat)] /\ hits \in [Key -> Seq(Nat)]
    BY DEF IInv, TypeOK, Accept
<1>3. /\ hits'[k] = Append(list, now) /\ accepted'[k] = Append(accepted[k], now)
      /\ \A q \in Key \ {k} : hits'[q] = hits[q] /\ accepted'[q] = accepted[q]
      /\ refusing' = refusing \ {k} /\ bursting' = bursting \ {k}
    BY <1>2 DEF Accept
<1>a. gone + Len(list) = Len(accepted[k]) /\ Len(list) \in Nat /\ Len(accepted[k]) \in Nat
    BY <1>1, <1>2
<1>b. Gone(k)' = Len(accepted'[k]) - Len(hits'[k])
    BY DEF Gone
<1>. HIDE DEF list, gone
<1>4. /\ Len(hits'[k]) = Len(list) + 1 /\ Len(accepted'[k]) = Len(accepted[k]) + 1
      /\ \A i \in 1..Len(list) : hits'[k][i] = list[i]
      /\ hits'[k][Len(list) + 1] = now
      /\ \A i \in 1..Len(accepted[k]) : accepted'[k][i] = accepted[k][i]
      /\ accepted'[k][Len(accepted[k]) + 1] = now
    BY <1>1, <1>2, <1>3
<1>5. Gone(k)' = gone /\ \A q \in Key \ {k} : Gone(q)' = Gone(q)
  <2>1. gone \in Nat
    BY <1>1
  <2>2. Len(hits'[k]) = Len(list) + 1 /\ Len(accepted'[k]) = Len(accepted[k]) + 1
    BY <1>4
  <2>3. Gone(k)' = gone
    BY <1>a, <1>b, <2>1, <2>2
  <2>. QED
    BY <1>3, <2>3 DEF Gone
<1>6. HitsAreTail'
  <2>1. ASSUME NEW i \in 1..Len(hits'[k]) PROVE hits'[k][i] = accepted'[k][gone + i]
    <3>1. CASE i \in 1..Len(list)
      <4>1. gone + i \in 1..Len(accepted[k])
        BY <1>1, <1>a, <3>1
      <4>. QED
        BY <1>1, <1>4, <3>1, <4>1
    <3>2. CASE i = Len(list) + 1
      <4>1. gone + i = Len(accepted[k]) + 1
        BY <1>1, <1>a, <3>2
      <4>. QED
        BY <1>4, <3>2, <4>1
    <3>. QED
        BY <1>4, <1>a, <3>1, <3>2
  <2>2. ASSUME NEW q \in Key, q # k
        PROVE  Gone(q)' >= 0 /\ \A i \in 1..Len(hits'[q]) : hits'[q][i] = accepted'[q][Gone(q)' + i]
    BY <1>3, <1>5, <2>2 DEF IInv, HitsAreTail
  <2>. QED
    BY <1>1, <1>5, <2>1, <2>2 DEF HitsAreTail
<1>7. GoneExpired'
  <2>1. ASSUME NEW i \in 1..gone PROVE Expired(accepted[k][i])'
    <3>1. i \in 1..Len(accepted[k])
        BY <1>1, <1>a
    <3>. QED
        BY <1>1, <1>2, <1>4, <3>1 DEF Expired
  <2>2. ASSUME NEW q \in Key, q # k, NEW i \in 1..Gone(q) PROVE Expired(accepted[q][i])'
    BY <1>2, <1>3, <2>2 DEF IInv, GoneExpired, Expired
  <2>3. ASSUME NEW q \in Key, NEW i \in 1..Gone(q)' PROVE Expired(accepted[q][i])'
    BY <1>5, <2>1, <2>2
  <2>. QED
    BY <2>3 DEF GoneExpired
<1>c. ASSUME NEW i \in 1..Len(accepted'[k])
      PROVE  \/ i \in 1..Len(accepted[k]) /\ accepted'[k][i] = accepted[k][i]
             \/ i = Len(accepted[k]) + 1 /\ accepted'[k][i] = now
    BY <1>4, <1>a
<1>8. Ascending'
  <2>1. ASSUME NEW q \in Key, q # k
        PROVE  /\ \A i \in 1..Len(accepted'[q]) : accepted'[q][i] <= now'
               /\ \A i, j \in 1..Len(accepted'[q]) : i <= j => accepted'[q][i] <= accepted'[q][j]
    BY <1>2, <1>3, <2>1 DEF IInv, Ascending
  <2>2. ASSUME NEW i \in 1..Len(accepted'[k]) PROVE accepted'[k][i] <= now'
    <3>1. \A j \in 1..Len(accepted[k]) : accepted[k][j] <= now
        BY DEF IInv, Ascending
    <3>2. CASE i \in 1..Len(accepted[k]) /\ accepted'[k][i] = accepted[k][i]
        BY <1>2, <3>1, <3>2
    <3>3. CASE accepted'[k][i] = now
        BY <1>2, <3>3
    <3>. QED
        BY <1>c, <3>2, <3>3
  <2>3. ASSUME NEW i \in 1..Len(accepted'[k]), NEW j \in 1..Len(accepted'[k]), i <= j
        PROVE  accepted'[k][i] <= accepted'[k][j]
    <3>1. CASE j = Len(accepted[k]) + 1
        BY <1>2, <1>4, <2>2, <3>1
    <3>2. CASE j \in 1..Len(accepted[k])
      <4>1. i \in 1..Len(accepted[k])
        BY <1>a, <2>3, <3>2
      <4>. QED
        BY <1>4, <2>3, <3>2, <4>1 DEF IInv, Ascending
    <3>. QED
        BY <1>c, <3>1, <3>2
  <2>. QED
    BY <2>1, <2>2, <2>3 DEF Ascending
<1>9. BurstsKnown'
  <2>1. ASSUME NEW q \in bursting' \ refusing', NEW i \in 1..Len(accepted'[q])
        PROVE  Expired(accepted[q][i])'
    <3>1. q # k /\ q \in bursting \ refusing /\ q \in Key
        BY <1>3 DEF IInv, TypeOK
    <3>2. accepted'[q] = accepted[q] /\ i \in 1..Len(accepted[q])
        BY <1>3, <3>1
    <3>3. Expired(accepted[q][i])
        BY <3>1, <3>2 DEF IInv, BurstsKnown
    <3>. QED
        BY <1>2, <3>2, <3>3 DEF Expired
  <2>2. refusing' \subseteq bursting'
    BY <1>3 DEF IInv, BurstsKnown
  <2>. QED
    BY <2>1, <2>2 DEF BurstsKnown
<1>. QED
    BY <1>6, <1>7, <1>8, <1>9

\* A refused hit keeps the tail, pruned.
LEMMA RefuseStep ==
    ASSUME IInv, NEW k \in Key, NEW drop \in 0..Len(hits[k]), Drops(hits[k], drop),
           Refuse(k, Rest(hits[k], drop))
    PROVE  HitsAreTail' /\ GoneExpired' /\ Ascending' /\ BurstsKnown'
<1>. DEFINE list == Rest(hits[k], drop)
            gone == Len(accepted[k]) - Len(list)
<1>1. /\ gone \in Nat
      /\ \A i \in 1..Len(list) : list[i] = accepted[k][gone + i]
      /\ \A i \in 1..gone : Expired(accepted[k][i])
    BY RestIsTail
<1>2. /\ UNCHANGED <<now, accepted>> /\ hits'[k] = list
      /\ \A q \in Key \ {k} : hits'[q] = hits[q]
      /\ refusing' = refusing \union {k} /\ bursting' = bursting \union {k}
    BY DEF IInv, TypeOK, Refuse
<1>. HIDE DEF list
<1>3. Gone(k)' = gone /\ \A q \in Key \ {k} : Gone(q)' = Gone(q)
    BY <1>2 DEF Gone
<1>4. HitsAreTail'
  <2>1. ASSUME NEW q \in Key
        PROVE  Gone(q)' >= 0 /\ \A i \in 1..Len(hits'[q]) : hits'[q][i] = accepted'[q][Gone(q)' + i]
    <3>. HIDE DEF gone
    <3>1. CASE q = k
        BY <1>1, <1>2, <1>3, <3>1
    <3>2. CASE q # k
        BY <1>2, <1>3, <3>2 DEF IInv, HitsAreTail
    <3>. QED
        BY <3>1, <3>2
  <2>. QED
    BY <2>1 DEF HitsAreTail
<1>5. GoneExpired'
    BY <1>1, <1>2, <1>3 DEF IInv, GoneExpired, Expired
<1>6. Ascending'
    BY <1>2 DEF IInv, Ascending
<1>7. BurstsKnown'
    BY <1>2 DEF IInv, BurstsKnown, Expired
<1>. QED
    BY <1>4, <1>5, <1>6, <1>7

LEMMA SweepStep ==
    ASSUME IInv, Sweep
    PROVE  HitsAreTail' /\ GoneExpired' /\ Ascending' /\ BurstsKnown'
<1>1. /\ UNCHANGED <<now, accepted, bursting>> /\ refusing' = {k \in refusing : ~Stale(k)}
      /\ \A k \in Key : hits'[k] = IF Stale(k) THEN <<>> ELSE hits[k]
      /\ now \in Nat /\ Window \in Nat
    BY LimiterConstants DEF Sweep, IInv, TypeOK, LimiterConstants
<1>2. ASSUME NEW k \in Key, Stale(k), NEW i \in 1..Len(accepted[k])
      PROVE  Expired(accepted[k][i])
  <2>1. /\ hits[k] \in Seq(Nat) /\ accepted[k] \in Seq(Nat) /\ Gone(k) >= 0
        /\ Gone(k) = Len(accepted[k]) - Len(hits[k])
    BY DEF IInv, TypeOK, HitsAreTail, Gone
  <2>2. CASE i \in 1..Gone(k)
    BY <2>2 DEF IInv, GoneExpired
  <2>3. CASE i > Gone(k)
    <3>0. Len(hits[k]) \in Nat /\ Len(accepted[k]) \in Nat /\ Gone(k) \in Nat
        BY <2>1
    <3>1. Len(hits[k]) \in 1..Len(hits[k]) /\ Len(accepted[k]) \in 1..Len(accepted[k])
          /\ Gone(k) + Len(hits[k]) = Len(accepted[k])
      <4>1. Gone(k) + Len(hits[k]) = Len(accepted[k])
        BY <2>1, <3>0
      <4>2. i \in Int /\ i <= Len(accepted[k])
        BY <3>0
      <4>3. \A g, h, a \in Nat : g + h = a /\ i > g /\ i <= a => h > 0 /\ a > 0
        BY <4>2
      <4>4. Len(hits[k]) > 0 /\ Len(accepted[k]) > 0
        BY <2>3, <3>0, <4>1, <4>2, <4>3, Zenon
      <4>. QED
        BY <3>0, <4>1, <4>4
    <3>2. hits[k][Len(hits[k])] = accepted[k][Len(accepted[k])]
        BY <3>1 DEF IInv, HitsAreTail
    <3>3. Expired(accepted[k][Len(accepted[k])])
        BY <1>2, <2>1, <3>1, <3>2 DEF Stale
    <3>4. accepted[k][i] <= accepted[k][Len(accepted[k])]
          /\ accepted[k][i] \in Nat /\ accepted[k][Len(accepted[k])] \in Nat
        BY <2>1, <3>1 DEF IInv, Ascending
    <3>. QED
        BY <1>1, <3>3, <3>4 DEF Expired
  <2>4. Gone(k) \in Nat
    BY <2>1
  <2>. QED
    BY <2>2, <2>3, <2>4
<1>3. HitsAreTail'
  <2>1. ASSUME NEW k \in Key
        PROVE  /\ Gone(k)' >= 0
               /\ \A i \in 1..Len(hits'[k]) : hits'[k][i] = accepted'[k][Gone(k)' + i]
    <3>1. CASE Stale(k)
      <4>1. hits'[k] = <<>> /\ accepted'[k] = accepted[k] /\ accepted[k] \in Seq(Nat)
        BY <1>1, <3>1 DEF IInv, TypeOK
      <4>2. Gone(k)' = Len(accepted'[k]) - Len(hits'[k])
        BY DEF Gone
      <4>. QED
        BY <4>1, <4>2
    <3>2. CASE ~Stale(k)
        BY <1>1, <3>2 DEF IInv, HitsAreTail, Gone
    <3>. QED
        BY <3>1, <3>2
  <2>. QED
    BY <2>1 DEF HitsAreTail
<1>4. GoneExpired'
  <2>1. ASSUME NEW k \in Key, NEW i \in 1..Gone(k)' PROVE Expired(accepted[k][i])
    <3>1. CASE Stale(k)
      <4>1. i \in 1..Len(accepted[k])
        BY <1>1, <2>1, <3>1 DEF IInv, TypeOK, Gone
      <4>. QED
        BY <1>2, <3>1, <4>1
    <3>2. CASE ~Stale(k)
        BY <1>1, <2>1, <3>2 DEF IInv, GoneExpired, Gone
    <3>. QED
        BY <3>1, <3>2
  <2>. QED
    BY <1>1, <2>1 DEF GoneExpired, Expired
<1>5. Ascending'
    BY <1>1 DEF IInv, Ascending
<1>6. BurstsKnown'
  <2>1. ASSUME NEW k \in bursting \ refusing', NEW i \in 1..Len(accepted[k])
        PROVE  Expired(accepted[k][i])
    <3>1. k \in Key
        BY DEF IInv, TypeOK
    <3>2. CASE Stale(k)
        BY <1>2, <3>1, <3>2
    <3>3. CASE ~Stale(k)
        BY <1>1, <3>3 DEF IInv, BurstsKnown
    <3>. QED
        BY <3>2, <3>3
  <2>. QED
    BY <1>1, <2>1 DEF IInv, BurstsKnown, Expired
<1>. QED
    BY <1>3, <1>4, <1>5, <1>6

LEMMA InvNext == IInv /\ [Next]_vars => IInv'
<1>. SUFFICES ASSUME IInv, [Next]_vars
              PROVE  HitsAreTail' /\ GoneExpired' /\ Ascending' /\ BurstsKnown'
    BY TypeNext DEF IInv
<1>1. CASE Tick
  <2>1. /\ UNCHANGED <<hits, accepted, refusing, bursting>> /\ now' = now + 1 /\ now \in Nat
        /\ accepted \in [Key -> Seq(Nat)] /\ Window \in Nat /\ bursting \subseteq Key
        /\ \A k \in Key : Gone(k)' = Gone(k)
    BY <1>1, LimiterConstants DEF Tick, IInv, TypeOK, LimiterConstants, Gone
  <2>2. ASSUME NEW t \in Nat, Expired(t) PROVE Expired(t)'
    BY <2>1, <2>2 DEF Expired
  <2>3. HitsAreTail'
    BY <2>1 DEF IInv, HitsAreTail
  <2>4. \A k \in Key : \A i \in 1..Len(accepted[k]) : accepted[k][i] \in Nat
    BY <2>1
  <2>5. GoneExpired'
    <3>1. ASSUME NEW k \in Key, NEW i \in 1..Gone(k) PROVE Expired(accepted[k][i])'
      <4>1. i \in 1..Len(accepted[k])
        BY DEF IInv, TypeOK, Gone
      <4>. QED
        BY <2>1, <2>4, <4>1 DEF IInv, GoneExpired, Expired
    <3>. QED
        BY <2>1, <3>1 DEF GoneExpired
  <2>6. Ascending'
    BY <2>1, <2>4 DEF IInv, Ascending
  <2>7. BurstsKnown'
    BY <2>1, <2>4 DEF IInv, BurstsKnown, Expired
  <2>. QED
    BY <2>3, <2>5, <2>6, <2>7
<1>2. CASE Sweep
    BY <1>2, SweepStep
<1>3. ASSUME NEW k \in Key, Hit(k) PROVE HitsAreTail' /\ GoneExpired' /\ Ascending' /\ BurstsKnown'
    BY <1>3, AcceptStep, RefuseStep DEF Hit
<1>4. CASE UNCHANGED vars
    BY <1>4 DEF vars, IInv, HitsAreTail, GoneExpired, Ascending, BurstsKnown, Gone, Expired
<1>. QED
    BY <1>1, <1>2, <1>3, <1>4 DEF Next

-----------------------------------------------------------------------------
(* The theorems                                                             *)

LEMMA InvHolds == Spec => []IInv
    BY InvInit, InvNext, PTL DEF Spec

\* The declared types hold of every reachable state; in particular a refusal always
\* asks its caller to wait a second or more (ratelimit.ts:54).
THEOREM TypeCorrect == Spec => []TypeOK
<1>1. IInv => TypeOK
    BY DEF IInv
<1>. QED
    BY <1>1, InvHolds, PTL

\* An accepted hit is a window away from the one Limit hits before it.
LEMMA WindowStep == IInv /\ WindowBound /\ [Next]_vars => WindowBound'
<1>. SUFFICES ASSUME IInv, WindowBound, [Next]_vars PROVE WindowBound'
    OBVIOUS
<1>1. CASE UNCHANGED accepted
    BY <1>1 DEF WindowBound
<1>2. ASSUME NEW k \in Key, NEW drop \in 0..Len(hits[k]), Drops(hits[k], drop),
             Accept(k, Rest(hits[k], drop))
      PROVE  WindowBound'
  <2>1. W!HasRoom(k)
    BY <1>2, RoomMeansShort DEF Accept
  <2>2. /\ accepted[k] \in Seq(Nat) /\ Len(accepted[k]) \in Nat /\ Limit \in Nat \ {0}
        /\ accepted'[k] = Append(accepted[k], now)
        /\ \A q \in Key \ {k} : accepted'[q] = accepted[q]
    BY <1>2, LimiterConstants DEF IInv, TypeOK, Accept, LimiterConstants
  <2>3. /\ Len(accepted'[k]) = Len(accepted[k]) + 1
        /\ \A i \in 1..Len(accepted[k]) : accepted'[k][i] = accepted[k][i]
        /\ accepted'[k][Len(accepted[k]) + 1] = now
    BY <2>2
  <2>4. ASSUME NEW i \in 1..Len(accepted'[k]), i + Limit <= Len(accepted'[k])
        PROVE  accepted'[k][i] + Window <= accepted'[k][i + Limit]
    <3>. DEFINE n == Len(accepted[k])
    <3>0. i \in 1..n /\ n \in Nat
        BY <2>2, <2>3, <2>4
    <3>1. CASE i + Limit <= n
      <4>1. i + Limit \in 1..n
        BY <2>2, <3>0, <3>1
      <4>2. accepted[k][i] + Window <= accepted[k][i + Limit]
        BY <3>0, <3>1 DEF WindowBound
      <4>3. accepted'[k][i] = accepted[k][i] /\ accepted'[k][i + Limit] = accepted[k][i + Limit]
        BY <2>3, <3>0, <4>1
      <4>. QED
        BY <4>2, <4>3
    <3>2. CASE i + Limit = n + 1
      <4>1. i = n - Limit + 1 /\ n >= Limit
        BY <2>2, <3>0, <3>2
      <4>2. accepted[k][i] + Window <= now
        BY <2>1, <2>2, <4>1 DEF W!HasRoom
      <4>. QED
        BY <2>3, <3>0, <3>2, <4>2
    <3>3. i + Limit <= n \/ i + Limit = n + 1
      <4>1. i \in Nat /\ Limit \in Nat /\ i + Limit <= n + 1
        BY <2>2, <2>3, <2>4, <3>0
      <4>. QED
        BY <3>0, <4>1
    <3>. QED
        BY <3>1, <3>2, <3>3, Zenon
  <2>5. ASSUME NEW q \in Key, q # k, NEW i \in 1..Len(accepted'[q]),
               i + Limit <= Len(accepted'[q])
        PROVE  accepted'[q][i] + Window <= accepted'[q][i + Limit]
    BY <2>2, <2>5 DEF WindowBound
  <2>. QED
    BY <2>4, <2>5 DEF WindowBound
<1>. QED
    BY <1>1, <1>2 DEF Next, Tick, Sweep, Hit, Refuse, vars

\* ratelimit.ts:38-59: whatever the limit, the window and the keys, no window of that
\* length holds more than Limit accepted hits of a key.
THEOREM NeverTooMany == Spec => []WindowBound
<1>1. Init => WindowBound
    BY DEF Init, WindowBound
<1>. QED
    BY <1>1, InvHolds, WindowStep, PTL DEF Spec

\* The verdict of a refusal is `first` to the limiter exactly when it is to one that
\* never sweeps: what the sweep forgot could not be refused again before a hit.
LEMMA FirstAgrees ==
    ASSUME IInv, NEW k \in Key, ~W!HasRoom(k)
    PROVE  k \in refusing <=> k \in bursting
<1>1. CASE k \in bursting \ refusing
  <2>1. accepted[k] \in Seq(Nat) /\ Len(accepted[k]) \in Nat /\ Limit \in Nat \ {0}
    BY LimiterConstants DEF IInv, TypeOK, LimiterConstants
  <2>2. Len(accepted[k]) >= Limit /\ Len(accepted[k]) - Limit + 1 \in 1..Len(accepted[k])
    BY <2>1 DEF W!HasRoom
  <2>3. Expired(accepted[k][Len(accepted[k]) - Limit + 1])
    BY <1>1, <2>2 DEF IInv, BurstsKnown
  <2>. QED
    BY <2>3 DEF W!HasRoom, Expired
<1>. QED
    BY <1>1 DEF IInv, BurstsKnown

\* Every step of the limiter is a step of the window, or changes nothing it can see.
LEMMA RefineStep == IInv /\ [Next]_vars => [W!ANext]_(W!avars)
<1>. SUFFICES ASSUME IInv, [Next]_vars PROVE [W!ANext]_(W!avars)
    OBVIOUS
<1>1. CASE Tick
  <2>1. now' > now
    BY <1>1 DEF Tick, IInv, TypeOK
  <2>. QED
    BY <1>1, <2>1 DEF Tick, W!ANext, W!ATick
<1>2. CASE Sweep
    BY <1>2 DEF Sweep, W!avars
<1>3. ASSUME NEW k \in Key, Hit(k) PROVE W!ANext
  <2>. PICK drop \in 0..Len(hits[k]) :
         /\ Drops(hits[k], drop)
         /\ Refuse(k, Rest(hits[k], drop)) \/ Accept(k, Rest(hits[k], drop))
    BY <1>3 DEF Hit
  <2>. DEFINE list == Rest(hits[k], drop)
  <2>1. /\ Len(list) < Limit <=> W!HasRoom(k)
        /\ Len(list) \in Nat /\ Limit \in Nat
    BY RestIsTail, RoomMeansShort, LimiterConstants DEF LimiterConstants
  <2>. HIDE DEF list
  <2>2. CASE Accept(k, list)
    BY <2>1, <2>2 DEF Accept, W!ANext, W!AAccept
  <2>3. CASE Refuse(k, list)
    <3>1. ~W!HasRoom(k)
        BY <2>1, <2>3 DEF Refuse
    <3>2. k \in refusing <=> k \in bursting
        BY <3>1, FirstAgrees
    <3>3. W!ARefuse(k)
        BY <2>3, <3>1, <3>2 DEF Refuse, W!ARefuse
    <3>. QED
        BY <3>3 DEF W!ANext
  <2>. QED
    BY <2>2, <2>3 DEF list
<1>4. CASE UNCHANGED vars
    BY <1>4 DEF vars, W!avars
<1>. QED
    BY <1>1, <1>2, <1>3, <1>4 DEF Next

\* ratelimit.ts:61-70: pruning and sweeping are invisible; the limiter gives the
\* verdicts of a sliding window that forgets nothing, `first` once per burst included.
THEOREM Implements == Spec => ImplementsWindow
<1>1. Init => W!AInit
    BY DEF Init, W!AInit, Silent, W!Silent
<1>. QED
    BY <1>1, InvHolds, RefineStep, PTL DEF Spec, ImplementsWindow, W!ASpec

-----------------------------------------------------------------------------
(* What a refusal says                                                      *)

\* Rounding up to whole seconds: enough, and no second more.
LEMMA CeilBounds ==
    ASSUME NEW d \in Nat \ {0}, NEW m \in Nat \ {0}
    PROVE  /\ Ceil(d, m) \in Nat \ {0}
           /\ Ceil(d, m) * m >= d /\ Ceil(d, m) * m - m < d
<1>1. /\ ((d + m - 1) \div m) * m <= d + m - 1
      /\ d + m - 1 < ((d + m - 1) \div m) * m + m
      /\ (d + m - 1) \div m \in Nat
    OBVIOUS
<1>2. (d + m - 1) \div m # 0
    BY <1>1
<1>. QED
    BY <1>1, <1>2 DEF Ceil

\* A key never holds more hits than its limit.
NeverOverfull == \A k \in Key : Len(hits[k]) <= Limit

LEMMA RetryHonestStep ==
    IInv /\ NeverOverfull /\ RetryHonest /\ [Next]_vars => NeverOverfull' /\ RetryHonest'
<1>. SUFFICES ASSUME IInv, NeverOverfull, RetryHonest, [Next]_vars
              PROVE  NeverOverfull' /\ RetryHonest'
    OBVIOUS
<1>. USE LimiterConstants DEF LimiterConstants
<1>1. CASE Tick \/ UNCHANGED vars
    BY <1>1 DEF Tick, vars, NeverOverfull, RetryHonest
<1>2. CASE Sweep
    BY <1>2 DEF Sweep, NeverOverfull, RetryHonest
<1>3. ASSUME NEW k \in Key, NEW drop \in 0..Len(hits[k]), Drops(hits[k], drop)
      PROVE  /\ Rest(hits[k], drop) \in Seq(Nat) /\ Len(Rest(hits[k], drop)) \in Nat
             /\ Len(Rest(hits[k], drop)) <= Limit
  <2>1. Rest(hits[k], drop) \in Seq(Nat) /\ Len(Rest(hits[k], drop)) = Len(hits[k]) - drop
    BY <1>3, RestIsTail
  <2>2. Len(hits[k]) \in Nat /\ Len(hits[k]) <= Limit
    BY DEF IInv, TypeOK, NeverOverfull
  <2>. QED
    BY <2>1, <2>2
<1>4. ASSUME NEW k \in Key, NEW drop \in 0..Len(hits[k]), Drops(hits[k], drop),
             Accept(k, Rest(hits[k], drop))
      PROVE  NeverOverfull' /\ RetryHonest'
  <2>. DEFINE list == Rest(hits[k], drop)
  <2>1. /\ list \in Seq(Nat) /\ Len(list) \in Nat /\ Len(list) < Limit
        /\ hits' = [hits EXCEPT ![k] = Append(list, now)]
        /\ now \in Nat /\ hits \in [Key -> Seq(Nat)] /\ verdict'.ok
    BY <1>3, <1>4 DEF Accept, IInv, TypeOK
  <2>. HIDE DEF list
  <2>2. Len(Append(list, now)) <= Limit
    BY <2>1
  <2>3. NeverOverfull'
    BY <2>1, <2>2 DEF NeverOverfull
  <2>. QED
    BY <2>1, <2>3 DEF RetryHonest
<1>5. ASSUME NEW k \in Key, NEW drop \in 0..Len(hits[k]), Drops(hits[k], drop),
             Refuse(k, Rest(hits[k], drop))
      PROVE  NeverOverfull' /\ RetryHonest'
  <2>. DEFINE list == Rest(hits[k], drop)
              log == accepted[k]
              gone == Len(log) - Len(list)
              oldest == list[1]
  <2>1. /\ list \in Seq(Nat) /\ gone \in Nat
        /\ \A i \in 1..Len(list) : list[i] = log[gone + i]
        /\ Len(list) > 0 => ~Expired(oldest)
    BY <1>5, RestIsTail
  <2>2. Len(list) = Limit
    BY <1>3, <1>5 DEF Refuse
  <2>3. /\ hits' = [hits EXCEPT ![k] = list] /\ accepted' = accepted
        /\ verdict' = [key |-> k, ok |-> FALSE, first |-> k \notin refusing,
                       retryAfter |-> RetryAfter(oldest), at |-> now]
        /\ now \in Nat /\ hits \in [Key -> Seq(Nat)] /\ Len(log) \in Nat
    BY <1>5 DEF Refuse, IInv, TypeOK
  <2>. HIDE DEF list, log
  <2>4. /\ oldest = log[Len(log) - Limit + 1] /\ oldest \in Nat /\ ~Expired(oldest)
    <3>1. 1 \in 1..Len(list) /\ gone + 1 = Len(log) - Limit + 1
      BY <2>2, <2>3
    <3>. QED
      BY <2>1, <2>2, <3>1
  <2>. HIDE DEF oldest, gone
  <2>5. oldest + Window - now \in Nat \ {0}
    BY <2>3, <2>4, SMTT(30) DEF Expired
  <2>6. /\ RetryAfter(oldest) \in Nat
        /\ RetryAfter(oldest) * Second >= oldest + Window - now
        /\ RetryAfter(oldest) * Second - Second < oldest + Window - now
    <3>. DEFINE d == oldest + Window - now
    <3>1. /\ Ceil(d, Second) \in Nat \ {0} /\ Ceil(d, Second) * Second >= d
          /\ Ceil(d, Second) * Second - Second < d
      BY <2>5, CeilBounds
    <3>2. RetryAfter(oldest) = Ceil(d, Second)
      BY <3>1 DEF RetryAfter
    <3>. HIDE DEF d
    <3>3. /\ RetryAfter(oldest) \in Nat /\ RetryAfter(oldest) * Second >= d
          /\ RetryAfter(oldest) * Second - Second < d
      BY <3>1, <3>2
    <3>. QED
      BY <3>3 DEF d
  <2>. DEFINE product == RetryAfter(oldest) * Second
              waited == now + product
              freeAt == oldest + Window
  <2>7. waited >= freeAt /\ waited - Second < freeAt
    <3>1. product \in Int
      BY <2>6, LimiterConstants DEF LimiterConstants
    <3>2. product >= oldest + Window - now /\ product - Second < oldest + Window - now
      BY <2>6, Zenon
    <3>3. now \in Int /\ oldest \in Int /\ Window \in Int /\ Second \in Int
      BY <2>3, <2>4, LimiterConstants DEF LimiterConstants
    <3>. HIDE DEF product
    <3>. QED
      BY <3>1, <3>2, <3>3
  <2>8. /\ accepted'[verdict'.key] = log
        /\ verdict'.at = now /\ verdict'.retryAfter = RetryAfter(oldest)
    BY <2>3 DEF log
  <2>9. RetryHonest'
    <3>1. waited >= freeAt /\ waited - Second < freeAt
      BY <2>7
    <3>2. verdict'.at + verdict'.retryAfter * Second = waited
      BY <2>8
    <3>3. accepted'[verdict'.key][Len(accepted'[verdict'.key]) - Limit + 1] + Window = freeAt
      BY <2>4, <2>8
    <3>. HIDE DEF waited, freeAt
    <3>. QED
      BY <3>1, <3>2, <3>3, Zenon DEF RetryHonest
  <2>10. NeverOverfull'
    BY <2>2, <2>3 DEF NeverOverfull
  <2>. QED
    BY <2>9, <2>10
<1>. QED
    BY <1>1, <1>2, <1>4, <1>5 DEF Next, Hit

\* A refused caller who waits what he was told finds room, and no second less is enough
\* (Math.ceil of what is left of the window, ratelimit.ts:54).
THEOREM RetriesHonest == Spec => []RetryHonest
<1>1. Init => NeverOverfull /\ RetryHonest
    BY LimiterConstants DEF LimiterConstants, Init, NeverOverfull, RetryHonest, Silent
<1>. QED
    BY <1>1, RetryHonestStep, InvHolds, PTL DEF Spec
=============================================================================
