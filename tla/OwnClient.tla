----------------------------- MODULE OwnClient -----------------------------
(***************************************************************************)
(* One member's own WCL client: the secret he saves, verifies and removes  *)
(* (hosted/wcl-clients.ts), the tokens cached for it (wcl/auth.ts) and the *)
(* queries that use them, with their single retry on a 401 (client.ts).    *)
(*                                                                         *)
(* All secrets are of one client id.  WCL may withdraw the tokens it has   *)
(* given (a new epoch), and change the secrets it takes, at any time.  The *)
(* meter and the snapshot of the client are left out, and so is what a     *)
(* query returns.                                                          *)
(***************************************************************************)
EXTENDS Integers

CONSTANTS
    Secret,    \* secrets the member pastes
    Request,   \* the server's requests for this member
    MaxEpoch   \* bound: times WCL withdraws its tokens

ASSUME OwnClientConstants == MaxEpoch \in Nat

NoSecret == "none"
NoToken == -1

VARIABLES
    epoch,  \* WCL's current epoch: it takes the tokens of this one
    takes,  \* the secrets WCL takes now
    row,    \* the stored secret
    cache,  \* secret -> epoch of its cached token
    req     \* the requests

clientVars == <<epoch, takes, row, cache, req>>
wcl == <<epoch, takes>>

Tokens == {NoToken} \union 0..MaxEpoch

\* oauth: waits for a token; minted: WCL's answer is on its way; post: the query is sent with
\* `token`; rejected: the 401 is on its way.  Ghosts: since is the epoch it began or retried in;
\* given: WCL has given a token for its secret since it began.
Requests == [kind: {"none", "run", "verify", "save"}, secret: Secret \union {NoSecret},
             step: {"idle", "oauth", "minted", "post", "rejected", "ok", "401"},
             token: Tokens, retried: BOOLEAN, since: Tokens, given: BOOLEAN]
NoRequest == [kind |-> "none", secret |-> NoSecret, step |-> "idle", token |-> NoToken,
              retried |-> FALSE, since |-> NoToken, given |-> FALSE]

ClientTypeOK ==
    /\ epoch \in 0..MaxEpoch /\ takes \subseteq Secret
    /\ row \in Secret \union {NoSecret}
    /\ cache \in [Secret -> Tokens]
    /\ req \in [Request -> Requests]

ClientInit ==
    /\ epoch = 0 /\ takes \in SUBSET Secret
    /\ row = NoSecret
    /\ cache = [s \in Secret |-> NoToken]
    /\ req = [r \in Request |-> NoRequest]

-----------------------------------------------------------------------------
\* forgetToken: every token of the client id, whatever secret it was given for.
ForgetsNothing(c) == c \* mutant
ForgetToken(c) == [s \in Secret |-> NoToken]

\* getAccessToken up to its first await: the cached token, or a request for one.
GetToken(q, c) ==
    IF c[q.secret] # NoToken THEN [q EXCEPT !.step = "post", !.token = c[q.secret]]
                             ELSE [q EXCEPT !.step = "oauth"]

\* An ended request keeps what the properties tell apart.
Closed(q, step) == [q EXCEPT !.secret = NoSecret, !.token = NoToken, !.retried = FALSE, !.step = step]

Begun(kind, s) == [NoRequest EXCEPT !.kind = kind, !.secret = s, !.since = epoch]

\* A lookup on the member's client.
BeginRun(r) ==
    /\ req[r].step \in {"idle", "ok", "401"} /\ row # NoSecret
    /\ req' = [req EXCEPT ![r] = GetToken(Begun("run", row), cache)]
    /\ UNCHANGED <<wcl, row, cache>>

\* The PING of a save or of a verify: the tokens of the client are forgotten first.
BeginPing(r, kind, s) ==
    /\ req[r].step \in {"idle", "ok", "401"}
    /\ cache' = ForgetToken(cache)
    /\ req' = [req EXCEPT ![r] = GetToken(Begun(kind, s), ForgetToken(cache))]
    /\ UNCHANGED <<wcl, row>>

BeginSave(r) == \E s \in Secret : BeginPing(r, "save", s)
BeginVerify(r) == row # NoSecret /\ BeginPing(r, "verify", row)

\* WCL gives a token for the secret, or refuses it, which ends the request.
Mint(r) ==
    /\ req[r].step = "oauth"
    /\ req' = [req EXCEPT ![r] = IF @.secret \in takes
                                THEN [@ EXCEPT !.step = "minted", !.token = epoch, !.given = TRUE]
                                ELSE NoRequest]
    /\ UNCHANGED <<wcl, row, cache>>

\* The token arrives and is cached, whatever was forgotten meanwhile; the query is sent.
Minted(r) ==
    /\ req[r].step = "minted"
    /\ cache' = [cache EXCEPT ![req[r].secret] = req[r].token]
    /\ req' = [req EXCEPT ![r].step = "post"]
    /\ UNCHANGED <<wcl, row>>

Reject(r) ==
    /\ req[r].step = "post" /\ req[r].token # epoch
    /\ req' = [req EXCEPT ![r].step = "rejected"]
    /\ UNCHANGED <<wcl, row, cache>>

\* The 401 arrives: the first one drops the token and asks for another.
Retry(r) ==
    /\ req[r].step = "rejected"
    /\ IF req[r].retried
       THEN req' = [req EXCEPT ![r] = Closed(@, "401")] /\ cache' = cache
       ELSE LET again == [req[r] EXCEPT !.retried = TRUE, !.since = epoch]
            IN  /\ cache' = ForgetToken(cache)
                /\ req' = [req EXCEPT ![r] = GetToken(again, ForgetToken(cache))]
    /\ UNCHANGED <<wcl, row>>

\* WCL answers; a save stores its secret, and forgets the token of its PING.
Answered(r) ==
    /\ req[r].step = "post" /\ req[r].token = epoch
    /\ req' = [req EXCEPT ![r] = [Closed(@, "ok") EXCEPT !.since = NoToken]]
    /\ IF req[r].kind = "save"
       THEN row' = req[r].secret /\ cache' = ForgetToken(cache)
       ELSE UNCHANGED <<row, cache>>
    /\ UNCHANGED wcl

RemoveOwn ==
    /\ row # NoSecret
    /\ row' = NoSecret /\ cache' = ForgetToken(cache)
    /\ UNCHANGED <<wcl, req>>

\* The cached token is within a minute of its end.
Expire(s) ==
    /\ cache[s] # NoToken
    /\ cache' = [cache EXCEPT ![s] = NoToken]
    /\ UNCHANGED <<wcl, row, req>>

\* At WCL: the tokens are withdrawn; the player makes a new secret.
Withdraw ==
    /\ epoch < MaxEpoch /\ epoch' = epoch + 1
    /\ UNCHANGED <<takes, row, cache, req>>

Rotate ==
    /\ takes' \in (SUBSET Secret) \ {takes}
    /\ UNCHANGED <<epoch, row, cache, req>>

ClientNext ==
    \/ \E r \in Request :
        \/ BeginRun(r) \/ BeginSave(r) \/ BeginVerify(r)
        \/ Mint(r) \/ Minted(r) \/ Reject(r) \/ Retry(r) \/ Answered(r)
    \/ \E s \in Secret : Expire(s)
    \/ RemoveOwn \/ Withdraw \/ Rotate

ClientSpec == ClientInit /\ [][ClientNext]_clientVars

-----------------------------------------------------------------------------
\* A token WCL no longer takes never sticks: a query fails with a 401 only if WCL withdrew
\* its tokens again after the query had dropped the first one (client.ts:94-99).
RetryHeals == \A r \in Request : req[r].step = "401" => req[r].since < epoch

\* A save or a verify that succeeds asked WCL for a token with that very secret: a token cached
\* before it began is never taken for a proof of the secret (wcl-clients.ts:87-125).
PingProves ==
    \A r \in Request : req[r].step = "ok" /\ req[r].kind # "run" => req[r].given

\* The two of them: no query of a member's own client is misled by a token of another time.
TokensHonest == RetryHeals /\ PingProves
=============================================================================
