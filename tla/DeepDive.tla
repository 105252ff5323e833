------------------------------ MODULE DeepDive ------------------------------
(***************************************************************************)
(* The analysis of one run's defensives (deepdive/): what WCL is asked for *)
(* a character (run.ts, wcl.ts), the row it leaves in the cache for ever,  *)
(* and what any member is told from it, with his own table of spells as it *)
(* is by then (attach.ts, analyze.ts, heals.ts).                           *)
(*                                                                         *)
(* A fight is what happened, WCL's data of it; a row has the casts of the  *)
(* spells it was fetched for, up to a number of pages.  One death, one     *)
(* tool (the potion or the stone) and one spell of it; amounts of health   *)
(* are left out, and so are the killing hits, the unlisted buffs and the   *)
(* averages.  Whether the client has points left is WclBudget's subject,   *)
(* how a member's table comes about Defensives'.                           *)
(***************************************************************************)
EXTENDS Integers, FiniteSets, FiniteSetsExt

CONSTANTS
    Diver,        \* members
    Spell,        \* defensive spells
    Potion,       \* the spell of the heal tool
    Fight,        \* what a fight may be, see Fights
    Listing,      \* what a table may say of a spell: [cooldown, duration, kind]
    ToolCooldown, Reaction,  \* of the shipped heal rules
    MaxPages,     \* MAX_EVENT_PAGES
    MaxDives, MaxEdits  \* bounds: analyses begun, corrections of the tables

Unlisted == [cooldown |-> 0, duration |-> 0, kind |-> "none"]

\* casts: whatever was cast; total: WCL gives the report's table of casts; low, high: when the
\* health was seen at or under the danger line, and above it; covers: the tool's heal is
\* larger than the overkill; lethal: a one-shot, which only shows in the health.
Fights == [casts: SUBSET [spell: Spell \union {Potion}, at: Nat], total: BOOLEAN, death: Nat,
           low: SUBSET Nat, high: SUBSET Nat, covers: BOOLEAN, lethal: BOOLEAN, instakill: BOOLEAN]

ASSUME DiveConstants ==
    /\ Fight \subseteq Fights /\ \A f \in Fight : IsFiniteSet(f.casts)
    /\ Potion \notin Spell /\ Unlisted \notin Listing
    /\ Listing \subseteq [cooldown: Nat \ {0}, duration: Nat, kind: {"major", "immunity", "minor"}]
    /\ {ToolCooldown, Reaction, MaxDives, MaxEdits} \subseteq Nat /\ MaxPages \in Nat \ {0}

VARIABLES
    fight,
    table,   \* each member's table
    dive,    \* the cached row
    diving,  \* each member's analysis under way
    steps    \* what the bounds count

diveVars == <<fight, table, dive, diving, steps>>

Casts == [spell: Spell \union {Potion}, at: Nat]
Dives == [fetched: BOOLEAN, ids: SUBSET (Spell \union {Potion}), events: SUBSET Casts,
          truncated: BOOLEAN, health: BOOLEAN]
NoDive == [fetched |-> FALSE, ids |-> {}, events |-> {}, truncated |-> FALSE, health |-> FALSE]
Divings == [step: {"idle", "ping", "pages", "health"}, from: Nat, pages: 0..MaxPages, row: Dives]
NotDiving == [step |-> "idle", from |-> 0, pages |-> 0, row |-> NoDive]

DiveTypeOK ==
    /\ fight \in Fight /\ table \in [Diver -> [Spell -> Listing \union {Unlisted}]]
    /\ dive \in Dives /\ diving \in [Diver -> Divings]
    /\ steps \in [dives: 0..MaxDives, edits: 0..MaxEdits]

DiveInit ==
    /\ fight \in Fight
    /\ \E t \in [Spell -> Listing \union {Unlisted}] : table = [m \in Diver |-> t]
    /\ dive = NoDive /\ diving = [m \in Diver |-> NotDiving]
    /\ steps = [dives |-> 0, edits |-> 0]

Listed(t) == {s \in Spell : t[s] # Unlisted}
FetchIds(t) == Listed(t) \union {Potion}

-----------------------------------------------------------------------------
(* The analysis under way.                                                 *)

\* A cached row is analysed anew without WCL, unless the member forces it.
Analyze(m, force) ==
    /\ diving[m].step = "idle" /\ (dive.fetched => force)
    /\ steps.dives < MaxDives /\ steps' = [steps EXCEPT !.dives = @ + 1]
    /\ diving' = [diving EXCEPT ![m] = [NotDiving EXCEPT !.step = "ping", !.row.ids = FetchIds(table[m])]]
    /\ UNCHANGED <<fight, table, dive>>

Ping(m) ==
    /\ diving[m].step = "ping"
    /\ diving' = [diving EXCEPT ![m].step = "pages"]
    /\ UNCHANGED <<fight, table, dive, steps>>

\* WCL's page: the casts of the spells asked for, from a time on; a page ends between two times.
Wanted(d) == {c \in fight.casts : c.spell \in d.row.ids /\ c.at >= d.from}
PageOf(d) == {c \in Wanted(d) : \A e \in Wanted(d) : c.at <= e.at}
RestOf(d) == Wanted(d) \ PageOf(d)

PageArrives(m) ==
    LET d == diving[m]
        read == [d EXCEPT !.row.events = @ \union PageOf(d), !.pages = @ + 1]
    IN  /\ d.step = "pages"
        /\ diving' = [diving EXCEPT ![m] =
              IF RestOf(d) = {} THEN [read EXCEPT !.step = "health"]
              ELSE IF read.pages >= MaxPages THEN [read EXCEPT !.step = "health", !.row.truncated = TRUE]
              ELSE [read EXCEPT !.from = Min({c.at : c \in RestOf(d)})]]
        /\ UNCHANGED <<fight, table, dive, steps>>

\* The health request may fail: what is paid for is kept.
HealthArrives(m, ok) ==
    /\ diving[m].step = "health"
    /\ dive' = [diving[m].row EXCEPT !.fetched = TRUE, !.health = ok]
    /\ diving' = [diving EXCEPT ![m] = NotDiving]
    /\ UNCHANGED <<fight, table, steps>>

\* WCL fails, or the points of the hour run low, before the next request.
GivesUp(m) ==
    /\ diving[m].step # "idle"
    /\ diving' = [diving EXCEPT ![m] = NotDiving]
    /\ UNCHANGED <<fight, table, dive, steps>>

\* A correction of the member's, or one that was approved for everyone.
Correction(M, s, listing) ==
    /\ steps.edits < MaxEdits /\ steps' = [steps EXCEPT !.edits = @ + 1]
    /\ table' = [m \in Diver |-> IF m \in M THEN [table[m] EXCEPT ![s] = listing] ELSE table[m]]
    /\ table' # table
    /\ UNCHANGED <<fight, dive, diving>>

DiveNext ==
    \/ \E m \in Diver :
        \/ \E force \in BOOLEAN : Analyze(m, force)
        \/ \E ok \in BOOLEAN : HealthArrives(m, ok)
        \/ Ping(m) \/ PageArrives(m) \/ GivesUp(m)
    \/ \E M \in {{m} : m \in Diver} \union {Diver}, s \in Spell, listing \in Listing \union {Unlisted} :
        Correction(M, s, listing)

DiveSpec == DiveInit /\ [][DiveNext]_diveVars

-----------------------------------------------------------------------------
(* What a member is told from the row, with the listing d of a spell.      *)

Times(casts, s) == {c.at : c \in {c \in casts : c.spell = s}}
Seen(s) == Times(dive.events, s)

Total(s) == IF fight.total THEN Cardinality(Times(fight.casts, s)) ELSE 0
CountSeen(s) == Cardinality(Seen(s)) \* mutant
CastCount(s) == Max({Cardinality(Seen(s)), Total(s)})
CdMismatch(s, d) == \E t, u \in Seen(s) : t < u /\ 10 * (u - t) < 9 * d.cooldown

\* Only spells the row was fetched for can be judged.
JudgedAll(s) == TRUE \* mutant
Judged(s) == s \in dive.ids

Within(casts, s, at, span) == \E t \in Times(casts, s) : t <= at /\ at - t < span
Active(s, d) == Judged(s) /\ d.duration > 0 /\ Within(dive.events, s, fight.death, d.duration + 1)
OnCooldown(s, d) == Judged(s) /\ ~Active(s, d) /\ Within(dive.events, s, fight.death, d.cooldown)
Available(s, d) == Judged(s) /\ ~Active(s, d) /\ ~OnCooldown(s, d)

\* The start of the last stretch in danger before the death, and when the tool would be used.
Danger == {t \in fight.low : t < fight.death /\ \A u \in fight.high : u < fight.death => u < t}
InTime == Danger # {} /\ Min(Danger) + Reaction < fight.death
UsedAt == IF InTime THEN Min(Danger) + Reaction ELSE fight.death
ToolSaves ==
    /\ Potion \in dive.ids /\ ~Within(dive.events, Potion, UsedAt, ToolCooldown)
    /\ InTime /\ fight.covers

Verdict(t) ==
    LET free(kind) == \E s \in Listed(t) : t[s].kind = kind /\ Available(s, t[s])
        active == \E s \in Listed(t) : t[s].kind # "minor" /\ Active(s, t[s])
    IN  CASE fight.instakill \/ (dive.health /\ fight.lethal) -> "unpreventable"
          [] OTHER ->
             IF free("immunity") THEN "immunity available"
             ELSE IF free("major") /\ ~active THEN "defensive available"
             ELSE IF dive.health /\ ToolSaves THEN "heal available"
             ELSE IF active THEN "covered" ELSE "nothing available"

StaleTable(t) == ~(Listed(t) \subseteq dive.ids)

-----------------------------------------------------------------------------
\* docs/deep-dive.md:24-33, of the fight and not of the row: what a member reads in a death is
\* true, whoever fetched the row, with whatever table, and whatever has been corrected since; a
\* row that is neither stale nor truncated misses nothing.  The count of the casts is
\* right for any spell, fetched or not, and a cooldown that is called wrong is.
Ready(s, d) == ~Within(fight.casts, s, fight.death, d.cooldown)
DeathHonest(t) ==
    LET v == Verdict(t) IN
    /\ v = "immunity available" => \E s \in Listed(t) : t[s].kind = "immunity" /\ Ready(s, t[s])
    /\ v = "defensive available" => \E s \in Listed(t) : t[s].kind = "major" /\ Ready(s, t[s])
    /\ v = "heal available" => ~Within(fight.casts, Potion, UsedAt, ToolCooldown)
    /\ v \in {"covered", "nothing available"} /\ ~StaleTable(t) =>
          \A s \in Listed(t) :
              /\ t[s].kind = "immunity" /\ Ready(s, t[s]) => Active(s, t[s])
              /\ v = "nothing available" /\ t[s].kind = "major" => ~Ready(s, t[s])
UsageHonest(t) ==
    \A s \in Listed(t) :
        /\ fight.total \/ (Judged(s) /\ ~dive.truncated) => CastCount(s) = Cardinality(Times(fight.casts, s))
        /\ CdMismatch(s, t[s]) => \E a, b \in Times(fight.casts, s) : a < b /\ b - a < t[s].cooldown
AnalysisHonest ==
    dive.fetched => \A m \in Diver : UsageHonest(table[m]) /\ (~dive.truncated => DeathHonest(table[m]))
=============================================================================
