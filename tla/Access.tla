------------------------------- MODULE Access -------------------------------
(***************************************************************************)
(* Who is let in: the Discord callback (routes-auth.ts), the accounts,     *)
(* sessions and invites (hosted/db.ts), what an admin may do to them       *)
(* (routes-admin.ts), the deletion of an account, and the member's row     *)
(* that is written after an await, his own WCL client (wcl-clients.ts).    *)
(*                                                                         *)
(* An account is its Discord id; its row has SQLite's id, which is reused  *)
(* when the newest row was deleted.  Handlers without an await between     *)
(* their checks and their writes are one step.  Whether the state of a     *)
(* callback is valid is OAuthStates' subject; the texts, the audit rows    *)
(* and the times of a session (it may lapse at any time) are left out.     *)
(***************************************************************************)
EXTENDS Integers, FiniteSets, FiniteSetsExt

CONSTANTS
    Account,      \* Discord accounts
    ConfigAdmin,  \* the account of BMPL_ADMIN_DISCORD_IDS
    Browser,
    Nobody,       \* no account
    MaxId,        \* bound: row ids
    MaxCallbacks, \* bound: callbacks at a time
    MaxSessions   \* bound: sessions ever created

ASSUME AccessConstants ==
    /\ ConfigAdmin \in Account /\ Nobody \notin Account
    /\ MaxId \in Nat \ {0} /\ MaxCallbacks \in Nat \ {0} /\ MaxSessions \in Nat \ {0}

VARIABLES
    config,    \* open signup, the guild gate
    user,      \* the row of each account; id 0: none
    invited,   \* accounts with an invite
    session,   \* the sessions of the database
    created,   \* sessions ever created
    cookie,    \* the session each browser holds; 0: none
    signin,    \* the callback of each browser
    save,      \* PUT /api/me/wcl-client requests at their verification
    client     \* user_wcl_clients, by user id

accessVars == <<config, user, invited, session, created, cookie, signin, save, client>>
requests == <<signin, save>>

Id == 1..MaxId
Users == [id: 0..MaxId, banned: BOOLEAN]

\* raced: the account was shut out between the admission and the session (ghost).
Sessions == [sid: 1..MaxSessions, id: Id, raced: BOOLEAN]

\* step: before the admission, and at the guild gate; carried: the session the request came with.
SignIns == [step: {"idle", "discord", "guild"}, account: Account \union {Nobody},
            carried: 0..MaxSessions, raced: BOOLEAN]

\* id: the row it writes; account: whose row it was (ghost); orphan: that row was deleted since.
Saves == [id: Id, account: Account, orphan: BOOLEAN]
Clients == [account: Account \union {Nobody}, orphan: BOOLEAN]

NoUser == [id |-> 0, banned |-> FALSE]
NoSignIn == [step |-> "idle", account |-> Nobody, carried |-> 0, raced |-> FALSE]
NoClient == [account |-> Nobody, orphan |-> FALSE]

AccessTypeOK ==
    /\ config \in [open: BOOLEAN, guild: BOOLEAN]
    /\ user \in [Account -> Users]
    /\ invited \subseteq Account
    /\ session \subseteq Sessions /\ created \in 0..MaxSessions
    /\ cookie \in [Browser -> 0..MaxSessions]
    /\ signin \in [Browser -> SignIns]
    /\ save \subseteq Saves
    /\ client \in [Id -> Clients]

\* The config admin has signed in, from some browser; nobody else has.
AccessInit ==
    /\ config \in [open: BOOLEAN, guild: BOOLEAN]
    /\ user = [a \in Account |-> IF a = ConfigAdmin
                                 THEN [id |-> 1, banned |-> FALSE] ELSE NoUser]
    /\ invited = {}
    /\ \E b \in Browser : cookie = [c \in Browser |-> IF c = b THEN 1 ELSE 0]
    /\ session = {[sid |-> 1, id |-> 1, raced |-> FALSE]} /\ created = 1
    /\ signin = [b \in Browser |-> NoSignIn]
    /\ save = {}
    /\ client = [i \in Id |-> NoClient]

-----------------------------------------------------------------------------
(* The rows.                                                               *)

HasRow(a) == user[a].id # 0
Owner(i) == {a \in Account : user[a].id = i}
NewId == 1 + Max({0} \union {user[a].id : a \in Account})
OfUser(i) == {s \in session : s.id = i}
NoneEnded(a) == {} \* mutant: the sessions of the shut-out account stay
Ended(a) == OfUser(user[a].id)

\* The account a request of the browser is resolved to, or none (resolveRequest).
Held(b) == {s \in session : s.sid = cookie[b]}
SignedIn(b) == {a \in Account : ~user[a].banned /\ \E s \in Held(b) : s.id = user[a].id}
Carried(b) == IF SignedIn(b) = {} THEN 0 ELSE cookie[b]
IsAdmin(b) == ConfigAdmin \in SignedIn(b)

\* The account may sign in now (admission).
Admissible(a) == ~user[a].banned /\ (a = ConfigAdmin \/ a \in invited \/ config.open)

-----------------------------------------------------------------------------
(* Signing in and out.                                                     *)

\* Back from Discord with a valid state: the request is resolved with the cookie it carries.
Callback(b, a) ==
    /\ signin[b].step = "idle"
    /\ Cardinality({c \in Browser : signin[c].step # "idle"}) < MaxCallbacks
    /\ signin' = [signin EXCEPT ![b] = [NoSignIn EXCEPT !.step = "discord", !.account = a,
                                                        !.carried = Carried(b)]]
    /\ UNCHANGED <<config, created, user, invited, session, cookie, save, client>>

\* A Discord call fails, the account is not in the guild, or has used up its signups.
Fails(b) ==
    /\ signin[b].step # "idle"
    /\ signin' = [signin EXCEPT ![b] = NoSignIn]
    /\ UNCHANGED <<config, created, user, invited, session, cookie, save, client>>

\* upsertFromDiscord: the row is updated, or created.
SignedUp(a) == [user[a] EXCEPT !.id = IF HasRow(a) THEN user[a].id ELSE NewId]

\* Everything after the last await: the old session ends, the row and the session are written.
LetIn(b, raced) ==
    LET a == signin[b].account
        row == SignedUp(a)
    IN  /\ created < MaxSessions /\ row.id \in Id
        /\ user' = [user EXCEPT ![a] = row]
        /\ created' = created + 1
        /\ session' = {s \in session : s.sid # signin[b].carried}
                        \union {[sid |-> created + 1, id |-> row.id, raced |-> raced]}
        /\ cookie' = [cookie EXCEPT ![b] = created + 1]
        /\ signin' = [signin EXCEPT ![b] = NoSignIn]
        /\ UNCHANGED <<config, invited, save, client>>

\* The identity is known: the account is admitted, then waits for its guilds when they are asked for.
Admit(b) ==
    /\ signin[b].step = "discord" /\ Admissible(signin[b].account)
    /\ IF config.guild
       THEN /\ signin' = [signin EXCEPT ![b].step = "guild"]
            /\ UNCHANGED <<config, created, user, invited, session, cookie, save, client>>
       ELSE LetIn(b, FALSE)

\* ... or refused, with its request dropped.
Deny(b) == signin[b].step = "discord" /\ ~Admissible(signin[b].account) /\ Fails(b)

InGuild(b) == signin[b].step = "guild" /\ LetIn(b, signin[b].raced)

Logout(b) ==
    /\ cookie[b] # 0
    /\ session' = {s \in session : s.sid # Carried(b)}
    /\ cookie' = [cookie EXCEPT ![b] = 0]
    /\ UNCHANGED <<config, created, user, invited, requests, client>>

\* Thirty days unused: refused by sessions.get, deleted by the hourly purge.
Lapse(s) ==
    /\ session' = session \ {s}
    /\ UNCHANGED <<config, created, user, invited, cookie, requests, client>>

\* The rows that go with the account's (ON DELETE CASCADE), its client's among them.
ClientKept(i) == client[i] \* mutant
ClientLeft(i) == NoClient

DeleteMe(b) ==
    \E a \in SignedIn(b) :
        /\ user' = [user EXCEPT ![a] = NoUser]
        /\ session' = session \ OfUser(user[a].id)
        /\ client' = [client EXCEPT ![user[a].id] = ClientLeft(user[a].id)]
        /\ cookie' = [cookie EXCEPT ![b] = 0]
        /\ save' = {IF q.account = a THEN [q EXCEPT !.orphan = TRUE] ELSE q : q \in save}
        /\ UNCHANGED <<config, created, invited, signin>>

-----------------------------------------------------------------------------
(* Administration.                                                         *)

\* Callbacks of the account past their admission have read what no longer holds.
Raced(a) ==
    signin' = [b \in Browser |->
        IF signin[b].step = "guild" /\ signin[b].account = a
        THEN [signin[b] EXCEPT !.raced = TRUE] ELSE signin[b]]

Invite(b, a) ==
    /\ IsAdmin(b) /\ a \notin invited
    /\ invited' = invited \union {a}
    /\ UNCHANGED <<config, created, user, session, cookie, requests, client>>

Uninvite(b, a) ==
    /\ IsAdmin(b) /\ a \in invited
    /\ invited' = invited \ {a}
    /\ session' = IF a = ConfigAdmin \/ ~HasRow(a) THEN session ELSE session \ Ended(a)
    /\ Raced(a)
    /\ UNCHANGED <<config, created, user, cookie, save, client>>

Revoke(b, a) ==
    /\ IsAdmin(b) /\ HasRow(a) /\ a \notin SignedIn(b)
    /\ session' = session \ OfUser(user[a].id)
    /\ UNCHANGED <<config, created, user, invited, cookie, requests, client>>

Ban(b, a) ==
    /\ IsAdmin(b) /\ HasRow(a) /\ a \notin SignedIn(b) /\ a # ConfigAdmin
    /\ user' = [user EXCEPT ![a].banned = TRUE]
    /\ session' = session \ Ended(a)
    /\ Raced(a)
    /\ UNCHANGED <<config, created, invited, cookie, save, client>>

Unban(b, a) ==
    /\ IsAdmin(b) /\ user[a].banned
    /\ user' = [user EXCEPT ![a].banned = FALSE]
    /\ UNCHANGED <<config, created, invited, session, cookie, requests, client>>

-----------------------------------------------------------------------------
(* A member's own WCL client: pasted, verified with WCL, then stored.      *)

StartSave(b) ==
    \E a \in SignedIn(b) :
        /\ save = {}
        /\ save' = {[id |-> user[a].id, account |-> a, orphan |-> FALSE]}
        /\ UNCHANGED <<config, created, user, invited, session, cookie, signin, client>>

\* WCL accepts the credentials; the row is written if the id has a user (foreign key).
EndSave(q) ==
    /\ save' = save \ {q}
    /\ client' = IF Owner(q.id) = {} THEN client
                 ELSE [client EXCEPT ![q.id] = [account |-> q.account, orphan |-> q.orphan]]
    /\ UNCHANGED <<config, created, user, invited, session, cookie, signin>>

\* WCL refuses them.
FailSave(q) ==
    /\ save' = save \ {q}
    /\ UNCHANGED <<config, created, user, invited, session, cookie, signin, client>>

RemoveClient(b) ==
    \E a \in SignedIn(b) :
        /\ client[user[a].id] # NoClient
        /\ client' = [client EXCEPT ![user[a].id] = NoClient]
        /\ UNCHANGED <<config, created, user, invited, session, cookie, requests>>

AccessNext ==
    \/ \E b \in Browser :
        \/ Admit(b) \/ Deny(b) \/ InGuild(b) \/ Fails(b)
        \/ Logout(b) \/ DeleteMe(b) \/ StartSave(b) \/ RemoveClient(b)
        \/ \E a \in Account :
            \/ Callback(b, a) \/ Invite(b, a) \/ Uninvite(b, a)
            \/ Revoke(b, a) \/ Ban(b, a) \/ Unban(b, a)
    \/ \E s \in session : Lapse(s)
    \/ \E q \in save : EndSave(q) \/ FailSave(q)

AccessSpec == AccessInit /\ [][AccessNext]_accessVars

-----------------------------------------------------------------------------
(* What the accounts promise.                                              *)

\* Nobody the instance would not let in is still signed in: a ban and a removed invite end
\* the sessions (routes-admin.ts), and a banned account gets none by signing in again.  Only a
\* callback that was awaiting its guilds meanwhile opens one (routes-auth.ts:84-112).
ClosedOut ==
    \A a \in Account : \A s \in OfUser(user[a].id) : Admissible(a) \/ s.raced

\* Every session and every client row is an account's (the foreign keys), and a member's
\* requests run on the client he saved himself: also when his row has the id of a deleted one,
\* except for a save that was being verified while its account was deleted (wcl-clients.ts:92).
OwnRows ==
    /\ \A s \in session : Owner(s.id) # {}
    /\ \A i \in Id : client[i] # NoClient =>
        Owner(i) # {} /\ (client[i].orphan \/ Owner(i) = {client[i].account})
=============================================================================
