---------------------------- MODULE MCSeasonSync ----------------------------
(* Small instances of SeasonSync, from one specification: one page and the runs of every kind as   *)
(* time passes, with the reports the syncs store; or two pages that have loaded the season and sync *)
(* one run at once, with the reports the lookups store too.                                         *)
EXTENDS SeasonSync

CONSTANTS f1, f2

\* One run of each kind: the newest fails every time, the next may be private, the oldest
\* is as good as any.
CursedRun == {3}
PrivateRun == {2}

VARIABLE part

Closed(f) == sync'[f] = sync[f] /\ view'[f] = view[f] /\ loads'[f] = loads[f]

MCInit ==
    /\ part \in {"alone", "together"}
    /\ IF part = "alone" THEN Init
       ELSE /\ listed = 1 /\ rows = {1} /\ raw = {} /\ control = {}
            /\ failedAt = [r \in Run |-> Never] /\ now = 0
            /\ sync = [f \in Front |-> Idle]
            /\ view = [f \in Front |-> [NoView EXCEPT !.pending = TRUE]]
            /\ loads = [f \in Front |-> {}] /\ paid = [r \in Run |-> 0]
MCNext ==
    /\ Next /\ UNCHANGED part
    /\ part = "alone" => Closed(f2) /\ (raw' # raw => paid' # paid)
    /\ part = "together" => UNCHANGED <<listed, now>> /\ \A f \in Front : \A l \in loads'[f] : l.mine
MCSpec ==
    /\ MCInit /\ [][MCNext]_<<vars, part>>
    /\ \A f \in Front : WF_vars(Work(f)) /\ \A mine \in BOOLEAN : WF_vars(Load(f, mine))
=============================================================================
