# Better Mythic+ Logs: a TLA+ verification project

Better Mythic+ Logs ("bmpl") looks up World of Warcraft players in Warcraft Logs (WCL), reads
their Mythic+ runs and says whether to invite them. One TypeScript program (Bun) is a command
line, a local web UI and a hosted service with members; a React front and a small WoW addon go
with it. This directory holds TLA+ modules translated from that code, the TLC configurations
that check them on small instances, and proofs that TLAPS checks for every instance.

Paths below are those of the repository. A module's comments name the file it models;
`PROJECT.json` names the lines of every definition, the runs, the mutants (for each property, a
plausible bug that breaks it), the hazards and the theorems.

    cd tla
    tlasany LookupFlight.tla                                    # parse
    tlc -config MCLookupFlight.cfg MCLookupFlight.tla           # model-check
    tlapm LookupFlightProofs.tla                                # check proofs

## 1. Inventory

The hosted service is one process with one thread and an SQLite file. Nothing runs in parallel,
but every `await` (a WCL query, a Battle.net or Discord call) lets every other request run; so
"interleaving" below means handlers cut at their awaits, each piece atomic.

### Components that keep state between steps

| component | state | operations | talks to | hard behaviour | correct when |
|---|---|---|---|---|---|
| WCL points meter, quota gate (`wcl/meter.ts`, `hosted/quota.ts`) | the last `rateLimitData`, points per user and hour in SQLite | `observe`, `reserve` | every WCL query; WCL's own counter and window | answers overtake each other, are lost, cross the window; restart on a warm counter; check before spend | nobody is charged what WCL did not count; quota and floor are overrun by a known amount at most |
| Lookup flights (`server/lookup.ts`, `lookup.ts`, `signals/enrich.ts`) | map of running lookups, kept rankings | join, start, retry, settle, clean up | gate, history, WCL, store | who joins whom while flights fail, are refused, are refreshed | one fetch per lookup, one's own refusal, no lookup without its answer, no flight left behind |
| Lookup history (`hosted/history.ts`, `server-history.ts`, `server/local-history.ts`) | rows and auto-level aliases per member | record, cached (own or shared), remove, clear, re-evaluate | flights, history pages | an alias outlives its row; copies of copies; a re-evaluation across an await | hosted behaves like in-memory; a payload is dated by its fetch |
| Rate limiter (`hosted/ratelimit.ts`) | accepted hits and running bursts by key | `hit`, `sweep` | every guarded route | pruning and sweeping must not show | never more than the limit in a window; an honest Retry-After |
| Battle.net linking and 30-day check (`server/routes-bnet.ts`, `hosted/bnet-db.ts`, `hosted/bnet-check.ts`) | linked account, imported candidates, verified characters | callback, pick, edit, unlink, check round | Blizzard | a round asks one character at a time while members edit their lists | an entry belongs to the linked account; an account has one holder; nothing unchecked stays for ever |
| Live strip (`addon/bmpl/*.lua`, `web/src/lib/live/*`; switched off in `features.ts`) | addon: roster, sequence number, cadence; browser: assembler | redraw, sample, connect | only pixels, one way | missed frames, late connects, pauses, `/reload` | no mixed, revived or forgotten roster, while its number is its own |
| Own WCL clients, token cache (`hosted/wcl-clients.ts`, `wcl/auth.ts`, `wcl/client.ts`) | a client, meter and snapshot per member; tokens | save, test, remove, run, one retry on 401 | meter, gate | a token that outlives its credentials; a save that ends after its account is gone | a query or a verification is never misled by an old token; a client is its member's |
| Sign-in, sessions, invites (`server/routes-auth.ts`, `hosted/auth.ts`, `hosted/oauth-state.ts`, `hosted/db.ts`, `server/routes-admin.ts`) | members, sessions, invites, pending states | callback, resolve, ban, invite, delete | Discord | admission is checked before an await, the session created and the cookie cleared after; row ids are reused | nobody banned or uninvited keeps a session; a state passes once |
| Season sync (`self/sync.ts`, `server/season.ts`, `web/src/useSeason.ts`) | which runs are stored or marked; what a page shows | one batch, the page's loop, its loads | store, WCL, gate | failing newest runs, other lookups and other pages, budget, loads out of order | the loop ends, a report is paid for once per page at most, what WCL gives is reached |
| Deep dive (`deepdive/run.ts`, `wcl.ts`, `attach.ts`, `analyze.ts`, `heals.ts`) | a row of casts and health per run, kept for ever | fetch page by page, read | WCL, gate, a member's table | the row was fetched with another member's table, or an older one | what a member reads about a death is true |
| Evaluation (`evaluation/*`, `web/src/lib/reliability.ts`) | none: a function of the runs | score, explain, path to the next verdict | lookups, the profile | rounding, shrinkage, medians | the explanation adds up; a worse run never helps |
| Calibration collector (`calibration/collect.ts`, `window.ts`, `marker.ts`, `samples.ts`) | `calibration.db`: pages, pool, samples, failures; the server's marker | one run an hour: discovery, collection | WCL's counter, the server (by the marker) | two processes, crashes, members that spend meanwhile | members come first; a day's target is kept, a page is paid for once |
| Candidate page (`web/src/App.tsx`) | tabs, active profile, payloads, address | open, look up, close, re-evaluate, clear | history | overlapping answers of its own calls | what is active is shown, the address names it |
| Watcher and events (`server/watcher.ts`, `server/sse.ts`) | interval, last clipboard text, open streams | start, stop, tick | clipboard, lookups | overlapping starts and ticks | one interval |
| Defensive proposals (`hosted/defensives.ts`, `deepdive/table.ts`) | shipped, approved and proposed entries | propose, correct, approve, dismiss | admin pages, deep dive | a proposal is approved over a layer that changed since | its author's table stays what it was |

### Components without a protocol

`self/season.ts` and the parsing in `mplus.ts` and `signals/` are pure functions of fetched data;
`cli.ts`, `format*.ts` and most of the front are input and output; the scripts of `calibration/`
that fit constants run by hand; audit, usage, feedback and error records are append-only;
`deploy/` is configuration. They are listed in `PROJECT.json` as not modelled, with the reason.

### How they meet

A lookup passes the **rate limiter**, asks the **history** for a row (its own, or another
member's fresh one), joins or starts a **flight** on a miss; the flight asks the **gate** before
each batch of queries, and every answer passes the **meter**, which charges the member the flight
belongs to (an `AsyncLocalStorage` context: whoever joins pays nothing). The end of a flight is
recorded in the history of each caller, and the **evaluation** turns its runs into a score. A
**deep dive** adds what it finds in one run's events, read with the member's layers of
**defensive** entries. Battle.net links decide which characters count as a member's own, and so
which lookups may ask for crowd control. The **season sync** fills the same store for a member's
own characters. The **collector** is a process of its own: it meets the members only in WCL's
counter and in the marker file the server touches.

## 2. The modules

| module | models | role |
|---|---|---|
| `WclBudget`, `MCWclBudget`, `WclBudgetProofs` | meter, gate, hourly bucket; WCL external | detailed |
| `DeepDive`, `MCDeepDive`, `PageProofs` | the fetch of a row, and what is read from it | detailed |
| `MCPoints` | `WclBudget` or `DeepDive`, by `part` | instance |
| `SlidingWindow` | what a rate limiter promises: a window that forgets nothing | abstract |
| `RateLimiter`, `AccessProofs` | `hit`, `sweep` | implements `SlidingWindow` |
| `History` | `server-history.ts`, the in-memory history | abstract for the next |
| `UserHistory`, `MCUserHistory`, `UserHistoryProofs` | the SQLite histories of all members | implements `History` |
| `LookupFlight`, `MCLookupFlight`, `LookupFlightProofs` | flights of one key and its crowd-control twin | detailed |
| `BnetLink`, `MCBnetLink`, `BnetLinkProofs` | callback, pick, edits, unlink, check round | detailed |
| `ShownProfile`, `MCShownProfile`, `PageProofs` | the candidate page and its calls | detailed |
| `MCMember` | `BnetLink` or `ShownProfile`, by `part` | instance |
| `LiveStrip`, `MCLiveStrip`, `OffServerProofs` | addon, strip, capture, assembler | detailed |
| `SeasonSync`, `MCSeasonSync`, `PageProofs` | the page's loop, the batches, the loads, the store | detailed |
| `Access`, `AccessProofs` | Discord callback, sessions, invites, bans, deletion, the client row | detailed |
| `OAuthStates`, `AccessProofs` | the pending sign-ins and their cookies | detailed |
| `OwnClient`, `AccessProofs` | a member's secret, the token cache, the retry on a 401 | detailed |
| `Defensives`, `AccessProofs` | the layers of defensive entries and their proposals | detailed |
| `MCAccess` | one of the four above or `RateLimiter`, by `part` | instance |
| `Collector`, `OffServerProofs` | the hourly collector, its database, its governor | detailed |
| `Evaluation`, `EvaluationProofs` | score, verdict, drivers, reliability | operators over a growing list of runs |
| `MCCalibration` | `Collector` or `Evaluation`, by `part` | instance |

`PageProofs` proves about the three pages (`SeasonSync`, `ShownProfile`, `DeepDive`),
`AccessProofs` about the five modules of the run `access`, `OffServerProofs` about the two programs
beside the server (`Collector`, `LiveStrip`).

The modules that a run takes together by `part` share no variable and no action: a behaviour is
one module's, the others stand still. They are machines in one run, not a composition. Where two
components do meet, the module that needs the other states what it takes from it: a flight is
refused whenever the gate pleases, a callback's state is valid or not, a deep dive's table is any.

**WclBudget.** `last` is `PointsMeter.last`, `used` the `usage_hourly` bucket, `req` the running
requests. `Reserve` is `performLookup`'s call of the gate, `Serve` WCL's side of a query
(external: it counts at once, the answer travels), `Observe` is `PointsMeter.observe` with its
branches `NewHour`, `LateInWindow` and the priming cap, `Lose` an answer that never reaches the
meter, `Restart` a new process. Ghosts (`cum`, `charged`, `win`, `flags`, `counts`) record what
really happened; no guard reads them. A flag is raised by an answer that is older than the
baseline and cannot be told from a newer one (`late`), by one whose counter is charged again
(`recharged`), and by one so slow that its window is estimated to outlive WCL's (`stretched`).
Points are integers. A member's own client is the same meter with a gate that never refuses. A
member alone may still be charged points that another member's lost answer left unobserved: the
promise is about all of them together. The collector's spend is not a request of this module (it is
another process, on the same counter): what the gate reads includes it, and the collector keeps a
reserve far above the gate's floor for itself (`MembersFirst`).

**RateLimiter / SlidingWindow.** `Hit` is one `hit` with its pruning and both outcomes, `Sweep`
forgets what `sweep` forgets. `SlidingWindow` keeps every accepted hit and every burst; `verdict`
is the only thing a caller sees, and the refinement maps it to itself.

**UserHistory / History.** Rows and aliases are sets of records; `Write` is the whole transaction
(stale auto row, alias, upsert, eviction with the aliases it orphans). `Read` and `SyncSummary`
are the two halves of a page that re-evaluates a payload across an await; the instance's `part`
is "reads" when there is one. `History` holds
the entries of the `Map` and its insertion order, as pairs of tabs. `ImplementsHistory` reads the rows
of `Member`, a constant that stands for any of them, as those entries, their `seq` numbers as that
order and nothing else; what the other members do is then a stutter, and a copy of another's row a
`HRecord` dated by his fetch.

**LookupFlight.** A call and the flight it starts share a name. `Start`, `Retry`, `Answer` are the
caller's side (`runLookupWithCache`), `Begin`, `Rankings`, `Enrich`, `Cleanup` the steps of
`performLookup` between awaits and the map's `finally`. The gate may refuse any reservation, so the
module needs no points; the analysis and the evaluation are data.

**BnetLink.** Lists are sets. `Identify` and `Import` are the two halves of the callback around
the four regions' reads, `StartRound`, `NextMember`, `Ask`, `Apply`, `ApplyFails`, `EndRound` the
round, with every answer Blizzard may give.

**LiveStrip.** Time is counted in redraws. `Redraw` is `tick` (rebuild, show, cadence, paint, or
hide), `Sample` a tick of the capture with `RosterAssembler.push`; `Cover` pauses the capture,
`Contrast` and `Reload` are the player's commands. A frame decodes or does not (CRC); rosters are
model values with a number of frames. The ghost `lapped` holds the numbers the browser goes by
(`Held`: its collection's and its roster's) that the addon has given to another roster since.

**SeasonSync.** A run is its rank by start time. `Start` begins the page's loop, `Pick`, `Fetch`,
`GotRaw`, `GotControl`, `GotNothing`, `Throw`, `Settle` are `syncBatch` cut at its awaits, `Answer`
the loop's decision to ask again, `Read` and `Arrive` the two halves of a season's load, `Play` and
`Lookup` what happens around. The season in force is one. The ghost `paid` counts how often WCL
has answered the syncs with a run's report, whichever page's sync it was.

**Access, OAuthStates.** An account is its Discord id, its row has SQLite's id, which is given
again when the newest row was deleted. `Callback` asks Discord who is there, `Admit` and `Deny`
are the admission, after which the guilds may be awaited, `InGuild` and `LetIn` the rest, in one
piece; `Fails` is every other end. An admin's operation ends the sessions in the same step.
The pending states are a set: the `Map` keeps them in the order they were issued in, which is that of
their numbers (`Newer`). A callback that passes drops its state at once (`Consume`) and clears the
cookie only with its answer, after the calls to Discord (`Answer`), whatever the cookie holds by
then: `Issue` may have put another nonce there, which the ghost `disturbed` notes. Linking
Battle.net uses the same class; its callback clears the cookie when it refuses, too.

**OwnClient.** `BeginRun`, `BeginSave`, `BeginVerify` take a token from the cache or ask for one;
`Mint` is WCL's side, `Minted` its answer, which is cached whatever was forgotten meanwhile;
`Reject`, `Retry`, `Answered` the query and its single retry. WCL withdraws its tokens
(`Withdraw`) and takes other secrets (`Rotate`) when it likes.

**Defensives.** An entry has two fields (its cooldown, the rest), so that a patch may set either.
`Written` is the merge of an approved patch with the layer as it is then.

**DeepDive.** A fight is what happened, a row what was fetched of it: `Ping`, `PageArrives`,
`HealthArrives` are the awaits of the fetch, and its end writes the row over whatever is stored.
`Verdict`, `CastCount`, `CdMismatch` are `analyze.ts` with a member's table as it is when he reads.
The properties compare them with the fight.

**Collector.** `Start` opens the run of the hour; `NextPage`, `PutPool`, `NextCandidate`, `Over`
are `collect`'s loop, `Ask`, `Decide`, `Wake` the governor before each job, `Serve` is WCL's side of
a page, which it charges before its answer is on the way, and `PageRead`, `PutSample`, `Fail`,
`TooMany` the ends of a job. Time passes in the gap after a page (`InGap`), and
a run may be killed in it. `Member` spends (the ghost `others` is what members have spent since
the counter was read), `Restart` forgets when the server last touched the marker, `Crash` leaves
the database as it is, and what WCL has charged. The ghost `reads` counts how often a page was
charged in the cycle and how often the collector was killed before its answer.

**Evaluation.** Floating point is exact, a rational is a pair; `Rounded` is `Math.round`. The code's
loops over sub-signals and axes are `Total`, the sum of the first values of a list by a recursive
function, in the order of `Sources` and `Axes`; its sorted medians are order statistics (`Nth`), its
sorted drivers the `Paths` that name the costliest first. Weights, curves, references and thresholds
are constants: `ConfigValid` is what `validateConfig` asks of the operator's file, with naturals for
its numbers, and `CurvesOneWay` what the default configuration adds to it, that a curve of a single
signal does not turn round (`validateConfig` asks that of the global curve only: with a curve that
does, a worse run may help). The weighted mean is over the five axes. Three of them are made of
signals; of the two others only the scores are there, as constants: `Consistency`, any function of
what that axis reads of the runs (`Spreads`), and `Prepared`, which no run changes.

**ShownProfile.** An answer's continuation is noted in the call (`then`), so that each handler is
one step; `Render` is the only way the effects run. Ghosts: `dropped`, `lagged`, `failed`.

## 3. What the runs show

| run | shows |
|---|---|
| `account` | `NoOvercharge`, `QuotaOverrun`, `FloorOverrun` with two requests of a member and an admin, one lost answer, one restart, a window's end; and `AnalysisHonest`: every member reads the truth from a row another one's table was fetched with |
| `history` | `AliasTabs`, `OneFetchForAll`, `SharedIsFresh`, `SummaryOfPayload`, and the refinement `ImplementsHistory` |
| `flights` | `OneFetch`, `OwnRefusal`, `ControlServed`, `KeyFreed` with three calls, a Refresh and crowd control; and, under fairness, `Answered` |
| `link` | `Owned`, `Retention`, `VerifiedForward` of the Battle.net lists; `Heals`, `UrlShown` of the candidate page |
| `strip` | `NothingLeftUp`, `Genuine`, and the liveness `Follows` and `Forgets` |
| `season` | `PaidPerPage`, `ViewForward`, and the liveness `LoopEnds` and `Reaches` |
| `access` | `ClosedOut`, `OwnRows`, `LatestPasses` of the sign-in; `TokensHonest`; `AuthorKeeps`; `WindowBound`, `RetryHonest` and the refinement `ImplementsWindow` of the rate limiter |
| `calibration` | `SpendsOnce`, `MembersFirst` of the collector; `ScoreHonest`, `WorseNeverHelps`, `PathClimbs` of the score |

Four runs expect a violation: the code does other than a comment of the repository says.

| run | the comment | what the code does |
|---|---|---|
| `doc_late` | meter.ts:9, a late answer of the same window is harmless | an overtaken answer observed at or after the estimated end of its window is charged its whole counter |
| `doc_hasty` | bnet-check.ts:4, an entry stays until 30 days without a check | a character picked again while the round runs is removed by the date read at its start |
| `doc_chip` | web/src/lib/reliability.ts:28, the chip says "one run decides the verdict" | when every score without a run lies beyond the threshold, on the side the score is not, no threshold is crossed between them: no chip, though any run decides |
| `doc_reeval` | App.tsx:448, after a re-evaluation "the old entry is redundant now" | the lookup may end at the key it came from: the profile just shown is deleted |

Some statements needed care, and say in their comment what they excuse:

- `FloorOverrun`: quota.ts:7 says the shared client is "never" driven below the floor; `reserve`
  only reads, so each other running request may add a batch, and the bound holds only while the
  accounting is `Undisturbed`: no lost answer, no restart, no answer that overtakes one of a later
  window, none so slow that its window is estimated to outlive WCL's, and outside the seconds by
  which an integer `pointsResetIn` shortens the window. The last two answers leave the gate without a
  valid snapshot once more, so that everybody is let in again; the run's instance is too small to
  meet them, the attempt to prove the bound without them showed both.
- `MembersFirst`: a page or a lookup leaves the reserve but for what members have spent *since the
  counter was read it was decided on*. After a page the loop sleeps, and the counter of the page
  before is the one the next job is decided on (collect.ts): what members spend in the gap is not in
  it. This, too, was found by the proof, and `InGap` and `others` were added for it.
- `NoOvercharge` excludes exactly the behaviours of `doc_late`, by the ghost flag `late`, which is
  raised when an overtaken answer crosses an estimated end of a window.
- `LatestPasses` excuses a sign-in that the browser began while a callback of its own awaited Discord:
  the answer of that callback clears the cookie, and with it the new nonce (routes-auth.ts:54, :114).
  It also excuses one the player has refused at Discord since, and one the cap has evicted. No
  document promises more; the sign-in is lost and has to be begun again.
- `Genuine` excuses a frame by whose number the browser still goes although the addon has given it
  to another roster: after as many missed changes as there are numbers (256 in the code), or after a
  `/reload`, which starts them over (see the next section).
- `PaidPerPage` allows each open page one payment for a report: a sync that had asked when another
  one stored it pays for it, too; no code prevents that. A lookup's own fetch is not counted.
- `SpendsOnce` allows a page one payment more for each time the collector was killed between WCL's
  charge and the answer.
- `WorseNeverHelps` is said of configurations that give the consistency axis no weight, as the default
  one does. `validateConfig` accepts a weight (config.ts:132); then one death more may bring a run
  closer to the others, the spread of the deaths falls (inputs.ts:178), and the score may rise.
- `ControlServed` says whose flight a caller that asked for crowd control may wait for. That flight may
  still drop it, when its gate refuses the extra points (lookup.ts:189) or WCL fails (enrich.ts:111).
- `ClosedOut` excuses the session of a callback that awaited its guilds while its account was shut
  out (`raced`); `OwnRows` the client whose verification ran while its account was deleted
  (`orphan`); `MembersFirst` requests as old as the marker; `AnalysisHonest` deaths in a truncated
  row; `Heals` a payload that was dropped after the last touch; `UrlShown` a landing before the
  render of another.

### Divergences met on the way, without a run

- lookup.ts:77 promises one fetch for overlapping lookups; a joiner whose starter was refused
  retries outside the map (lookup.ts:146), next to another fetch. `OneFetch` does not count it.
- roster.ts:104 calls a roster fresh while *its* frames are seen; after `/reload` the addon's
  numbers restart, and another roster's frames may re-stamp the one held: `Genuine` and `Follows`
  except exactly that (`lapped`).
- App.tsx:340 says the active profile "never sits on loading…": it does when its payload was
  dropped and nothing changes afterwards (`dropped`). The address may stay behind (`lagged`), and
  an older answer for an entry may replace a newer one (App.tsx:228).
- docs/deep-dive.md:26 reads "was off cooldown": for a death after the last page of a truncated
  row a cast that was not fetched makes a spell look available; `analyze.ts` does not look at
  `truncated`. A budget that runs low before the health request (wcl.ts:82) throws away the pages
  already paid, which wcl.ts:91 says are kept.
- An added spell that was ignored can be patched afterwards into an entry without all its fields.
- A row id is given again after the newest account is deleted (wcl-clients.ts:92, `orphan`).
- The collector's marker is made by its first run: a request shortly before goes unseen.
- `detectRole` breaks ties by the order of the runs (inputs.ts:88).

### Bounds

Every bound is a constant named `Max...` in a guard, or a small set.

- `account`: two requests (overlap and overtaking need two), three ticks over a window of two
  (a window's end, with answers of both sides in flight), four served queries (two per request),
  `UserLimit` and floor low enough that both refuse, a cap of two queries (both sides of priming).
  Deep dive: two members with tables of their own (one fetches, the other reads), two spells and
  the potion, eight fights with casts on either side of a cooldown, two pages (a row that is
  truncated), two analyses (the slower overwrites), one correction of a table.
- `history`: two members, one character, three levels, at most two rows each (eviction, with a
  third level to cause it), a shared copy valid for one of two ticks; the part with an open page
  stops one tick earlier. Two members suffice for a copy of a copy: a row goes to the other and
  back.
- `flights`: three calls (a flight, its joiner, a third that comes between) of two members, with
  crowd control for one of them and Refresh for one call.
- `link`: two members, two accounts, a character each, two callbacks, one round. The page: two
  profiles, two calls at a time, three things done besides what follows from them.
- `strip`: rosters of one and two frames and one too large; one pass after a change, holds and
  heartbeat of two redraws, sequence numbers modulo 3, so that three missed changes give a number
  out again; reloads at any time. A running capture decodes a sample at least every `MaxGap = Hold` redraws, the 5 fps that `cadence.lua` counts on.
- `season`: three runs in batches of two (the newest fails every time, the next may be private, the
  oldest has to be reached in a second batch), one tick (a mark grows old), one load more than the
  loop's own. That is the part of one page. The part of two pages has what they need to meet: a
  season both have loaded, one run, the reports that lookups store, neither clock nor new runs.
- `access`: two accounts, one an admin, two browsers (symmetric), two row ids (one is given again), one callback
  at a time, three sessions. States: two players, a cap of two, three issued (the third
  evicts), callbacks that await while others begin, three ticks with a life of two. Own client: two
  secrets, two requests, two withdrawals (one retry survives the first). Proposals: one member, one
  spell under two keys. Limiter: two keys (no sharing), limit 2, a window of three ticks that is no
  whole number of seconds, so that rounding matters; four hits, two windows.
- `calibration`: two hours and a bit, the second begins in the quiet window; two pages, two
  candidates in cells of their own, a target of one a day, a cycle that ends. Score: every list
  of at most three runs of eleven kinds, with curves of two or three points, a constant score for
  preparation and a consistency score that falls with the spread of the deaths, without weight.

`CHECK_DEADLOCK FALSE` stands in the runs whose bounds (time, served queries, sequence) leave
nothing to do in the end.

### Fairness

`LookupFlight`: a continuation runs once its promise has settled (the event loop guarantees it),
and WCL answers or fails; the code gives its requests no timeout, so the second is an assumption
about `fetch`, listed as a hazard. Nobody is assumed to make a lookup. `LiveStrip`: the game draws
and the capture's interval fires; the player is free to do anything for ever, and `Follows`
speaks of a roster, a capture and a contrast that stop changing, no more reloads, and numbers held
that were not given out again. `SeasonSync`: requests and loads
are answered, by the same assumption; `LoopEnds` needs no more. `Reaches` also assumes that
nothing goes wrong for ever (`Trouble`: refusals, restarts, cancelled loops, failures of good
runs) and that the member presses the button while it is offered (`Start`). The other
specifications are used for safety only and assume no fairness.

## 4. What is proved

For every value of the constants that meets the modules' named assumptions: any number of members,
requests, keys, rows and rosters, and any limit, window and price.

| module | theorem | states |
|---|---|---|
| `WclBudgetProofs` | `TypeCorrect` | `Spec => []TypeOK` |
| | `ChargesCovered`, `QuotaOverruns`, `FloorOverruns` | `NoOvercharge`, `QuotaOverrun`, `FloorOverrun` |
| `AccessProofs` (limiter) | `TypeCorrect`, `NeverTooMany`, `RetriesHonest` | `TypeOK`, `WindowBound`, `RetryHonest` |
| | `Implements` | `Spec => ImplementsWindow`: the limiter is the window that forgets nothing |
| `UserHistoryProofs` | `TypeCorrect`, `AliasesLead`, `SummariesHonest`, `OnlyFreshShared`, `OneFetch` | `TypeOK`, `AliasTabs`, `SummaryOfPayload`, `SharedIsFresh`, `OneFetchForAll` |
| | `Implements` | `Spec => ImplementsHistory`: any member's tables are an in-memory history |
| `LookupFlightProofs` | `TypeCorrect`, `FetchedOnce`, `RefusedForOwnQuota`, `ServedWithControl`, `FreedWhenGone` | `TypeOK`, `OneFetch`, `OwnRefusal`, `ControlServed`, `KeyFreed` |
| `BnetLinkProofs` | `TypeCorrect`, `KeptIsOwned`, `NothingTooOld`, `DatesForward` | `TypeOK`, `Owned`, `Retention`, `VerifiedForward` |
| `AccessProofs` (accounts) | `NobodyShutOutStays`, `RowsAreOwned` | `ClosedOut`, `OwnRows` |
| | `SignInsPass`, `OwnTokensHonest`, `ApprovalKeeps` | `LatestPasses`, `TokensHonest`, `AuthorKeeps` |
| `PageProofs` | `SeasonTypes`, `NoRunIsLost`, `PaidAtMostPerPage` | `TypeOK`, `ViewForward`, `PaidPerPage` |
| | `ProfileTypes`, `AddressFollows`, `ProfileHeals` | `ProfileTypeOK`, `UrlShown`, `Heals` |
| | `DiveTypes`, `ReadsAreTrue` | `DiveTypeOK`, `AnalysisHonest` |
| `OffServerProofs` | `CollectorTypes`, `NothingSpentTwice`, `MembersComeFirst` | `CollectorTypeOK`, `SpendsOnce`, `MembersFirst` |
| | `StripTypes`, `NoOldFrame`, `RostersNeverMix` | `TypeOK`, `NothingLeftUp`, `Genuine` |
| `EvaluationProofs` | `RunsTyped`, `ScoresAlwaysHonest` | `EvaluationTypeOK`, `ScoreHonest` |
| | `WorseNeverEverHelps`, `PathsAlwaysClimb` | `WorseNeverHelps`, `PathClimbs` |
| | `CurveOrdered`, `GlobalMonotone` | a curve that goes one way keeps or reverses an order; the number follows the sub-scores, if consistency has no weight or the same score |
| | `PathThere` | `Paths(Impacts(rs)) # {}`: `PathClimbs` is never said of no path |

So every invariant, action property and refinement that a passing run checks is a theorem. Each proof
of a protocol has an inductive invariant, a lemma for its initial states, one
for each action, and the theorems as corollaries; what the invariants add is what makes the
properties true:

- **WclBudget.** `NoOvercharge` compares two running totals and says nothing of the answers on
  their way. `IInv` adds that every answer and the baseline are snapshots of a past of WCL's
  counter (`Past`), that any two of them agree on what was counted between them, and that what was
  charged is covered by the total at the baseline, or, while there is none (start, restart), by
  the total of every answer that may become it. `ChargeStep` shows that one observation keeps
  this unless it raises `late`. The quota and the floor are a matter of counting: a request that was
  admitted owes at most a batch (`OwedBatch`), and what is charged beyond the quota is covered by
  what the running requests still owe (`QuotaCovered`). For the floor (`FloorInv`), undisturbed,
  an estimated window neither outlives WCL's (`WindowsKept`) nor ends more than the truncation early
  (`ClocksTruncated`); what WCL counted since the baseline is on its way in answers, a query's
  price each (`SpendInFlight`); so what it has counted and will count for the queries already
  reserved stays within the bound (`FloorCovered`).
- **RateLimiter.** `WindowBound` speaks of every accepted hit, the limiter remembers a pruned
  list. `IInv` says the list is a tail of the accepted hits, what is gone has expired, hits ascend,
  and a burst the sweep forgot has nothing left in its window. From it the pruned list is short
  exactly when the window has room (`RoomMeansShort`), which gives the bound and the refinement
  step; `RetryHonest` needs besides that a key never holds more hits than the limit (`NeverOverfull`).
- **UserHistory.** `Tables` is about the two tables together: a key has one row (`Keyed`), an auto
  request one alias (`OneAlias`), an alias leads to a row (`Leads`) that is no older than itself
  (`Dated`), a badge has its alias (`Badged`), and a payload is of the fetch that dates it
  (`Honest`). `StoringKeeps` shows it of a write before the eviction, `ForgettingKeeps` of what the
  eviction and a removal take, `EvictionCaps` that the eviction is enough. For the refinement, the
  tabs of a member's rows tell them apart (`TabsApart`), so the entries, their order and what lies
  past the cap (`OverPast`, by a bijection between newer rows and later entries) are those of the
  in-memory history.
- **LookupFlight.** `OneFetch` is about running flights, the code only looks at a map. `IInv` says
  that what is registered is what the map names (`RegisteredNamed`), that the map and every waiting
  caller name started flights of the right kind, and that a free slot or a joiner's has none.
- **BnetLink.** `Retention` is about the end of a round, the round reads its lists at the start.
  `IInv` says that what it still has to write to has nothing old that it has not read
  (`UnreadFresh`), that a member is asked about while something of his is due (`AskedAreDue`), that a
  character is listed once (`ListsOnce`) and nothing is dated ahead (`DatesPast`). `Owned` is inductive
  with the types, over lists, imports and callbacks at once.
- **Access.** An id is one account's at a time (`OneRow`: `MaxIsGreatest` shows that SQLite's new id
  is nobody's), a callback under way is of an account that is admissible or was shut out since
  (`RealSignIns`, `GateHonest`), a save under way is for its account's row or orphaned
  (`SavesOwned`). **OwnClient**: what a request holds is of no later epoch than WCL's, a retried one
  holds a token of after its retry (`Good`), and so does the cache (`CachePast`). **OAuthStates**: a
  state is pending once and not after it has passed (`PendedOnce`, `PassedOnce`), cookies hold what
  was issued to them (`NoncesOwn`), with fewer than the cap issued after it a state is still there
  unless it has passed (`LatestKept`), and of an undisturbed browser with a callback under way the
  last sign-in has passed already, so that the answer takes no nonce it needs (`Undisturbed`). **Defensives** needs no more than the merge itself.
- **SeasonSync.** What a page shows or is about to be shown is still stored (`StillStored`), and of
  its loads one counts, which shows no less than the page once it was read (`OneLoadCounts`). A report
  that is not stored was not paid for, and payments and the syncs that still wait for one are together
  no more than the pages (`PaidInv`): who waits has seen no stored report, and waits once.
- **ShownProfile.** The address follows the page (`UrlFollows`), a profile that is needed is asked
  for (`Asked`), and an answer continues nothing but what its call was sent for (`Continues`).
- **DeepDive.** A row holds casts of the fight, all of the spells it was fetched for if it is not
  truncated (`RowHonest`); an analysis under way has read everything before the time it goes on from
  (`DivingHonest`). That every verdict is then true of the fight is a lemma about spans.
- **Collector.** A run's count never falls behind the database's (`DayBounded`), a page that was
  paid for was cut off, is cached or is on its way (`ReadIsCached`), WCL's counter is the one that was read and what members have spent
  since (`CounterKnown`), and the marker is at most `Touch` behind the members (`MarkerFollows`).
- **LiveStrip.** What was painted is the roster the addon counts (`PaintedIsCurrent`), what the
  browser holds under the painted frame's number comes from that frame's roster, unless the number was
  given out again meanwhile (`OneText`): a change's number that the browser goes by is in `lapped` from
  then on, and so is every number that stays held after a `/reload` and comes up again.
- **Evaluation** has no protocol: with the type of the runs, the three invariants are facts about a
  function of any list of runs. Its sums are recursive functions, of which `SumsExist` and `SumsAgree`
  show that the partial sums are there and unique, by the least number for which they would not be; so
  `TotalAdds`, and every other fact about a sum, needs no induction theorem. The order of rationals
  (`AtMost`, a product across two denominators) is kept by sums, natural factors, positive divisors
  and `Math.round`; by order statistics (`NthMonotone`, a matter of counting) and so by medians; by
  shrinkage (`ShrunkMonotone`); and by a curve that goes one way (`CurveOrdered`, by the segments the
  two numbers lie on). `GlobalMonotone` puts them together: no lower sub-score, no lower number, where
  the consistency score is the same on both sides or has no weight (`Steady`).
  `WorseNeverHelps` is that, of runs that are worse (`WorseSubScore`), and of as many. `PathClimbs`
  needs the converse as well: a signal that raises the number when it alone is brought to the average
  has a sub-score below the average's, since otherwise the number could not have risen; so it lowers
  nothing beside any others (`CostCosts`). `ControlApart` compares two lists of runs
  that differ in crowd control only (`ButControl`). `Explained` writes the sub-scores as integers
  over one denominator (`CommonDenominator`), where each rounded delta is off by half of it at most
  (`IsRounded`) and the weights and the imputed share cancel exactly (`RoundedTerms`).

**Assumptions.** Only those the modules state, each with the code's constants or types as its reason,
and each evaluated by TLC on an instance: `BudgetConstants` (run `account`; the prices of a query and
the requests are finite sets), `DiveConstants` (`account`; a fight has finitely many casts),
`HistoryConstants` (`history`), `FlightConstants` (`flights`), `LinkConstants` and
`ProfileConstants` (`link`), `StripAssumption` (`strip`), `SyncConstants` (`season`; the season has
at least one run), `AccessConstants`, `OAuthConstants`, `OwnClientConstants`, `LimiterConstants`
(`access`), `CollectorConstants`,
`EvaluationConstants`, `ConfigValid`, `CurvesOneWay` (`calibration`; only `WorseNeverHelps` needs the last). The bounds named `Max...` are any
numbers.

**Only model-checked.** Liveness under fairness (`Answered`, `Follows`, `Forgets`, `LoopEnds`,
`Reaches`), which rests on ENABLED. The four `doc_...` runs, which refute. No module uses a RECURSIVE
operator.

## 5. What is not modelled, and why

- The local watcher and its events: what they promise (one lookup for each copied name) needs reads of
  the clipboard that settle in the order they were made, which nothing in the code gives. Two
  overlapping starts do leak an interval (watcher.ts:91).
- A plain lookup that ends after a Refresh of its key and records older data (lookup.ts:152): no
  document says which should win; `LookupFlight` and `UserHistory` are checked apart.
- The meter and the snapshot of a member's own client when a run of the old one ends late
  (wcl-clients.ts:153): no comment says what the new client's numbers may hold.
- A member deleted while his flight runs: the usage row fails (foreign keys) and with it the
  flight; for `LookupFlight` it is one of the failures a fetch may have.
- Errors of a member's own client reaching those who joined his flight: they arrive as they are.
- Requests that never answer, see Fairness.
- The order and cap of a Battle.net list, the deletion of an account while its flight runs.
- Two overlapping `connect()` of the capture; pixels, palettes and CRC of the strip; what the
  strip shows of a roster of more than 255 frames.
- Of the evaluation: roles, what the consistency and preparation axes are made of, the deep dive's signals, the
  previous level's best run, the labels. Of a deep dive: several deaths in one run, amounts of
  health, buffs that are in no table, averages. Of the season: `self/season.ts`.
- The other pages of the front, the selection of Compare, the cards of the season: views of what
  the server answers.
- Parsing of WCL's JSON (`mplus.ts`, `signals/`), the command line, formatting and translations,
  HTTP routing and configuration, audit, usage, feedback and error records, the calibration's
  offline scripts, deployment: no state that outlives a request, or rows that are only appended.

## 6. Plan

1. **Lookup**, composing `LookupFlight` and `UserHistory`: which of a Refresh and a slow plain
   lookup is kept.
2. **Mplus**: which runs `mplus.ts` selects from the rankings of several levels, against a
   reference definition.
