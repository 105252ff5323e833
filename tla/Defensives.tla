----------------------------- MODULE Defensives -----------------------------
(***************************************************************************)
(* The defensive spells of a spec: the shipped table, the layer an admin   *)
(* approves for everyone and each member's pending proposals               *)
(* (hosted/defensives.ts), layered by deepdive/table.ts.                   *)
(*                                                                         *)
(* An entry says that a spell is ignored, or has some of the spell's       *)
(* fields: its cooldown, and the rest of them taken together.  Each        *)
(* handler is one transaction; the rows of decided proposals, the origins  *)
(* of the entries and the checks of their form are left out.               *)
(***************************************************************************)
EXTENDS Integers, Sequences, SequencesExt

CONSTANTS Author, Spell

Keys == <<"wide", "own">>  \* the keys of a spec, the more specific last
TableKey == {"wide", "own"}
Before(k) == IF k = "wide" THEN <<"wide">> ELSE Keys

\* 0: the field is not set.
Entries == [ignore: BOOLEAN, cooldown: 0..2, rest: 0..1]
None == [ignore |-> FALSE, cooldown |-> 0, rest |-> 0]
Ignore == [ignore |-> TRUE, cooldown |-> 0, rest |-> 0]
Patches == {Ignore} \union {e \in Entries : ~e.ignore /\ e # None}
Complete(e) == e.cooldown # 0 /\ e.rest # 0
Tables == [TableKey -> [Spell -> Entries]]

VARIABLES
    shipped,   \* the table of the release
    approved,  \* defensives_shared
    proposed   \* each member's pending proposals, one row for a key and a spell

defensivesVars == <<shipped, approved, proposed>>

DefensivesTypeOK ==
    /\ shipped \in Tables /\ approved \in Tables
    /\ proposed \in [Author -> Tables]

DefensivesInit ==
    /\ shipped \in {t \in Tables : \A k \in TableKey, s \in Spell :
                       t[k][s] = None \/ (k = "wide" /\ Complete(t[k][s]) /\ t[k][s].cooldown = 1)}
    /\ approved = [k \in TableKey |-> [s \in Spell |-> None]]
    /\ proposed = [a \in Author |-> approved]

-----------------------------------------------------------------------------
\* The fields of `patch` over those of `e`.
Over(e, patch) ==
    [ignore |-> FALSE,
     cooldown |-> IF patch.cooldown # 0 THEN patch.cooldown ELSE e.cooldown,
     rest |-> IF patch.rest # 0 THEN patch.rest ELSE e.rest]

\* mergeEntry: an ignore replaces what was there, and a patch after an ignore starts over.
MergeEntry(e, patch) ==
    IF patch.ignore THEN Ignore ELSE Over(IF e.ignore THEN None ELSE e, patch)

\* layerPatches: the pending rows of a member over the approved layer.
Layered(a) ==
    [k \in TableKey |-> [s \in Spell |->
        IF proposed[a][k][s] = None THEN approved[k][s] ELSE MergeEntry(approved[k][s], proposed[a][k][s])]]

\* specDefensives of the spec whose key is k, over the release's table `base`, for one spell;
\* None: the spell is not in the table.
Applied(cur, e) ==
    IF e.ignore THEN None
    ELSE IF cur # None THEN Over(cur, e)
    ELSE IF Complete(e) THEN e ELSE None
Shipped(base, k, s) == FoldLeft(LAMBDA cur, j : IF base[j][s] # None THEN base[j][s] ELSE cur, None, Before(k))
SpecDefensives(base, table, k, s) ==
    FoldLeft(LAMBDA cur, j : Applied(cur, table[j][s]), Shipped(base, k, s), Before(k))
Effective(table, k, s) == SpecDefensives(shipped, table, k, s)
Ignored(table, k, s) == \E j \in ToSet(Before(k)) : table[j][s].ignore

\* applyPatch: a spell that is not in the table needs all its fields.
Accepted(table, k, s, patch) ==
    \/ patch.ignore
    \/ Effective(table, k, s) # None \/ Ignored(table, k, s)
    \/ Complete(MergeEntry(table[k][s], patch))

\* A member's correction: merged into his pending row of the same spell.
Propose(a, k, s, patch) ==
    /\ Accepted(Layered(a), k, s, patch)
    /\ proposed' = [proposed EXCEPT ![a][k][s] = MergeEntry(@, patch)]
    /\ UNCHANGED <<shipped, approved>>

\* An admin's is approved on the spot.
Correct(k, s, patch) ==
    /\ Accepted(approved, k, s, patch)
    /\ approved' = [approved EXCEPT ![k][s] = MergeEntry(@, patch)]
    /\ UNCHANGED <<shipped, proposed>>

\* What an approved patch makes of the approved entry.
WrittenAlone(e, patch) == patch \* mutant
Written(e, patch) == MergeEntry(e, patch)

Approve(a, k, s) ==
    /\ proposed[a][k][s] # None
    /\ approved' = [approved EXCEPT ![k][s] = Written(@, proposed[a][k][s])]
    /\ proposed' = [proposed EXCEPT ![a][k][s] = None]
    /\ UNCHANGED shipped

Dismiss(a, k, s) ==
    /\ proposed[a][k][s] # None
    /\ proposed' = [proposed EXCEPT ![a][k][s] = None]
    /\ UNCHANGED <<shipped, approved>>

DefensivesNext ==
    \E k \in TableKey, s \in Spell :
        \/ \E a \in Author :
            \/ \E patch \in Patches : Propose(a, k, s, patch)
            \/ Approve(a, k, s) \/ Dismiss(a, k, s)
        \/ \E patch \in Patches : Correct(k, s, patch)

DefensivesSpec == DefensivesInit /\ [][DefensivesNext]_defensivesVars

-----------------------------------------------------------------------------
\* A proposal applies to its author at once and to everyone once approved (defensives.ts:2-4):
\* however the approved layer has changed since it was made, approving it leaves its author's
\* tables as they were.
AuthorKeeps ==
    [][\A a \in Author, k \in TableKey, s \in Spell :
           Approve(a, k, s) =>
               \A j \in TableKey, t \in Spell : Effective(Layered(a), j, t)' = Effective(Layered(a), j, t)]_defensivesVars
=============================================================================
