---------------------------- MODULE MCCalibration ----------------------------
(* The collector of the calibration, over two hours and a bit, the second begins in the Wednesday  *)
(* window, and the score it calibrates: they share no state, so each behaviour is one of theirs.   *)
EXTENDS Collector, Evaluation

VARIABLE part

all == <<part, collectorVars, runs>>

MCInit == part \in {"collector", "score"} /\ CollectorInit /\ EvaluationInit
MCNext ==
    /\ UNCHANGED part
    /\ \/ part = "collector" /\ CollectorNext /\ UNCHANGED runs
       \/ part = "score" /\ EvaluationNext /\ UNCHANGED collectorVars
MCSpec == MCInit /\ [][MCNext]_all

-----------------------------------------------------------------------------
(* A configuration of small numbers, and the runs it tells apart. *)

MCWeight == [individualDeaths |-> 2, kicksAbsolute |-> 1, crowdControl |-> 1, medianParse |-> 2, parseAtTarget |-> 1]
MCCurveOf == [individualDeaths |-> <<<<0, 100>>, <<1, 60>>, <<3, 10>>>>,
              kicksAbsolute |-> <<<<0, 20>>, <<20, 50>>, <<40, 100>>>>,
              crowdControl |-> <<<<50, 20>>, <<100, 60>>>>,
              medianParse |-> <<<<0, 10>>, <<50, 60>>, <<90, 100>>>>,
              parseAtTarget |-> <<<<0, 10>>, <<50, 60>>, <<90, 100>>>>]
MCReference == [individualDeaths |-> 1, kicksAbsolute |-> 20, crowdControl |-> 100, medianParse |-> 50, parseAtTarget |-> 50]
MCShrinkage == [individualDeaths |-> 2, kicksAbsolute |-> 1, crowdControl |-> 0, medianParse |-> 1, parseAtTarget |-> 0]
MCAxisWeight == [survival |-> 3, utility |-> 2, throughput |-> 3, consistency |-> 0, preparation |-> 1]
MCPrepared == 74
\* A spread of the deaths over two runs or more, each death of it 25 points.
MCConsistency(spreads) ==
    LET deaths == {spreads[i].deaths : i \in {j \in DOMAIN spreads : spreads[j].signals}}
    IN  IF Len(spreads) < 2 \/ deaths = {} THEN NoScore ELSE 100 - 25 * (Max(deaths) - Min(deaths))
MCGlobalCurve == <<<<0, 0>>, <<50, 30>>, <<70, 70>>, <<100, 100>>>>
MCLevelScale == <<<<12, 2>>, <<16, 1>>>>

Run(level, deaths, kick, control, parse) ==
    [signals |-> TRUE, level |-> level, deaths |-> deaths, kick |-> kick, control |-> control, parse |-> parse]
\* A clean run and a bad one at the level and below it, with and without each signal; a run
\* that is ranked and not analyzed.
MCRunKind ==
    {Run(l, q.deaths, q.kick, q.control, q.parse) : l \in {12, 16},
        q \in {[deaths |-> 0, kick |-> 35, control |-> 100, parse |-> 85],
               [deaths |-> 2, kick |-> 10, control |-> 50, parse |-> 20],
               [deaths |-> 1, kick |-> NoData, control |-> NoData, parse |-> 60]}}
    \union {Run(16, 0, NoKick, 50, 0), Run(14, 3, NoKick, NoData, 45),
            Run(16, 1, 0, NoData, 95),
            [signals |-> FALSE, level |-> 16, deaths |-> 0, kick |-> NoData, control |-> NoData, parse |-> 70]}
=============================================================================
