----------------------------- MODULE MCDeepDive -----------------------------
(* Two members with tables of their own, two spells and the potion; fights in which each of them *)
(* is cast before, during and after its cooldown, with and without a time in danger.             *)
EXTENDS DeepDive

At(spell, times) == {[spell |-> spell, at |-> t] : t \in times}
AFight(casts, low, high, covers) ==
    [casts |-> casts, total |-> TRUE, death |-> 6, low |-> low, high |-> high, covers |-> covers,
     lethal |-> FALSE, instakill |-> FALSE]
MCFight ==
    {AFight(At("wall", {1, 5}) \union At("bubble", {4}), {5}, {4}, TRUE),
     AFight(At("wall", {4}) \union At("potion", {1}), {4, 5}, {3}, TRUE),
     AFight(At("bubble", {2, 6}) \union At("potion", {4}), {3, 4, 5}, {}, TRUE),
     AFight(At("wall", {3}) \union At("bubble", {3, 7}), {2, 5}, {4}, FALSE)}
    \union {[AFight(At("wall", {2, 3}) \union At("bubble", {2}), {4}, {2}, TRUE) EXCEPT
                !.total = FALSE, !.lethal = l, !.instakill = i] : l \in BOOLEAN, i \in BOOLEAN}
MCListing ==
    {[cooldown |-> 3, duration |-> 1, kind |-> "major"],
     [cooldown |-> 2, duration |-> 0, kind |-> "major"],
     [cooldown |-> 5, duration |-> 2, kind |-> "immunity"],
     [cooldown |-> 2, duration |-> 2, kind |-> "minor"]}
=============================================================================
