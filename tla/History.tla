------------------------------- MODULE History -------------------------------
(***************************************************************************)
(* The in-memory lookup history of one caller: class History               *)
(* (src/server-history.ts).  Its Map is the set of its entries and the     *)
(* order they were set in, its aliases are the levels auto requests        *)
(* resolved to.  The hosted history of every member must behave like this  *)
(* one (src/hosted/history.ts:1-4).  A record is dated by the clock its    *)
(* caller passes: any time.                                                *)
(***************************************************************************)
EXTENDS Naturals, FiniteSets

CONSTANTS Who, Level, NoLevel, MaxRows, Time

VARIABLES
    entries,    \* the values of the Map
    before,     \* its insertion order: <<t, s>>, the entry of tab t is older than that of s
    autoLevel   \* the tab each auto request resolved to

hvars == <<entries, before, autoLevel>>

HInit == entries = {} /\ before = {} /\ autoLevel = {}

Tab(e) == [who |-> e.who, level |-> e.level]

\* Map.delete: the others keep their order.
Among(order, list) ==
    {p \in order : (\E e \in list : p[1] = Tab(e)) /\ (\E e \in list : p[2] = Tab(e))}

\* Map.set on a key that is not there: the newest.
Newest(order, others, e) == Among(order, others) \union {<<Tab(o), Tab(e)>> : o \in others}

\* The entries past the cap, oldest first.
Over(order, list) ==
    {e \in list : Cardinality({f \in list : <<Tab(e), Tab(f)>> \in order}) >= MaxRows}

\* forget: the alias goes only if it pointed at the entry.
Forget(alias, gone) == {a \in alias : ~ \E e \in gone : Tab(e) = a}

\* The stale auto entry of a request whose detected level moved.
Stale(w, asked, level) ==
    {e \in entries : asked = NoLevel /\ e.who = w /\ e.level # level /\ e.auto /\ Tab(e) \in autoLevel}

HRecord(w, asked, level, at) ==
    LET e == [who |-> w, level |-> level, auto |-> (asked = NoLevel), fetchedAt |-> at, summary |-> at]
        left == {o \in entries \ Stale(w, asked, level) : Tab(o) # Tab(e)}
        order == Newest(before, left, e)
        gone == Over(order, left \union {e})
        stored == (left \union {e}) \ gone
        pointed == IF asked = NoLevel THEN {a \in autoLevel : a.who # w} \union {Tab(e)} ELSE autoLevel
    IN  /\ asked \in {NoLevel, level}
        /\ entries' = stored
        /\ before' = Among(order, stored)
        /\ autoLevel' = Forget(pointed, gone)

\* cached: a hit is deleted and set again.
HCached(w, asked) ==
    \E e \in entries :
        /\ e.who = w
        /\ e.level = asked \/ (asked = NoLevel /\ Tab(e) \in autoLevel)
        /\ before' = Newest(before, entries \ {e}, e)
        /\ UNCHANGED <<entries, autoLevel>>

HRemove(e) ==
    /\ entries' = entries \ {e}
    /\ before' = Among(before, entries \ {e})
    /\ autoLevel' = Forget(autoLevel, {e})

HClear == entries' = {} /\ before' = {} /\ autoLevel' = {}

HSyncSummary(e) ==
    /\ entries' = (entries \ {e}) \union {[e EXCEPT !.summary = e.fetchedAt]}
    /\ UNCHANGED <<before, autoLevel>>

HNext ==
    \/ HClear
    \/ \E e \in entries : HRemove(e) \/ HSyncSummary(e)
    \/ \E w \in Who, asked \in Level \union {NoLevel} :
         \/ HCached(w, asked)
         \/ \E level \in Level, at \in Time : HRecord(w, asked, level, at)

HSpec == HInit /\ [][HNext]_hvars
=============================================================================
