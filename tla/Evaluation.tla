---------------------------- MODULE Evaluation ----------------------------
(***************************************************************************)
(* The score of a player (evaluation/): what each run tells of him is put  *)
(* together (inputs.ts), pulled toward the average player and read on a    *)
(* curve (axis.ts, curve.ts), weighed into axes, pillars and one number    *)
(* (global.ts, pillars.ts), and compared with what it would be if the      *)
(* signals that cost points were the average player's (drivers.ts).        *)
(*                                                                         *)
(* Beside it, how far the verdict can be trusted: whether the level was    *)
(* ever played, and the score without each run in turn (reliability.ts,    *)
(* and the web's file of the same name).                                   *)
(*                                                                         *)
(* The state is the list of runs, which grows one lookup after another.    *)
(* Floating point is exact: a rational is a pair <<n, d>> with d > 0.  One *)
(* role, five of the signals (one of them scored for its pillar only) on   *)
(* three of the axes.  Of the other two axes only the score counts here:   *)
(* consistency is a constant function of what it reads of the runs, a      *)
(* member's preparation is a constant; neither is given a driver.  The     *)
(* deep dive's signals, the damage spread, the previous level's best run   *)
(* and the labels are left out.                                            *)
(***************************************************************************)
EXTENDS Integers, Sequences, SequencesExt, FiniteSets, FiniteSetsExt

CONSTANTS
    RunKind,      \* what a run may be: [level, signals, deaths, kick, control, parse]
    TargetLevel,       \* the level the member vets for
    MaxRuns,      \* bound: runs
    Weight, CurveOf, Reference, Shrinkage, AxisWeight, GlobalCurve, LevelScale,  \* the configuration
    MinRuns, Maybe, Invite,
    Consistency(_),  \* the score of that axis by the spreads of the runs; none if no natural
    Prepared         \* the score of the preparation axis

Axis == {"survival", "utility", "throughput"}
SourcesOf == [survival |-> {"individualDeaths"}, utility |-> {"kicksAbsolute", "crowdControl"},
              throughput |-> {"medianParse", "parseAtTarget"}]
PillarSources == [survival |-> {"individualDeaths"}, interrupts |-> {"kicksAbsolute"},
                  control |-> {"crowdControl"}, damage |-> {"medianParse", "parseAtTarget"}]
PillarOnly == {"crowdControl"}
Source == UNION {SourcesOf[a] : a \in Axis}
AnyAxis == Axis \union {"consistency", "preparation"}

\* The order in which they are added up.
Axes == <<"survival", "utility", "throughput", "consistency", "preparation">>
Sources == <<"individualDeaths", "kicksAbsolute", "crowdControl", "medianParse", "parseAtTarget">>

NoScore == -1
NoData == -1     \* of a run: kick, control; no kick in the kit: NoKick
NoKick == -2

ASSUME EvaluationConstants ==
    /\ RunKind \subseteq [signals : BOOLEAN, level : Nat, deaths : Nat, kick : Int, control : Int, parse : Nat]
    /\ TargetLevel \in Nat /\ MaxRuns \in Nat /\ MinRuns \in Nat /\ Maybe \in Nat /\ Invite \in Nat /\ Maybe <= Invite

\* config.ts:47: points by x, which strictly increases.
IsCurve(points) ==
    /\ points \in Seq(Int \X Nat) /\ points # <<>>
    /\ \A i, j \in 1..Len(points) : i < j => points[i][1] < points[j][1]
Rising(points) == \A i, j \in 1..Len(points) : i < j => points[i][2] <= points[j][2]
Falling(points) == \A i, j \in 1..Len(points) : i < j => points[j][2] <= points[i][2]

\* What validateConfig asks of a configuration, the operator's own one included (naturals for its
\* numbers).  Crowd control carries no number of runs (utility.ts:18): nothing pulls it.
ASSUME ConfigValid ==
    /\ \A s \in Source : Weight[s] \in Nat /\ Shrinkage[s] \in Nat /\ Reference[s] \in Int /\ IsCurve(CurveOf[s])
    /\ \A s \in PillarOnly : Shrinkage[s] = 0
    /\ \A a \in AnyAxis : AxisWeight[a] \in Nat
    /\ IsCurve(LevelScale) /\ IsCurve(GlobalCurve) /\ Rising(GlobalCurve)
    /\ Prepared \in Nat \union {NoScore}

\* Every curve of default-config.json goes one way; validateConfig asks it of the global one only.
ASSUME CurvesOneWay ==
    Falling(CurveOf["individualDeaths"]) /\ \A s \in Source \ {"individualDeaths"} : Rising(CurveOf[s])

VARIABLE runs

EvaluationTypeOK == runs \in Seq(RunKind) /\ Len(runs) <= MaxRuns

EvaluationInit == runs = <<>>

\* A later lookup shows one run more.
Play == \E r \in RunKind : Len(runs) < MaxRuns /\ runs' = Append(runs, r)
EvaluationNext == Play
EvaluationSpec == EvaluationInit /\ [][EvaluationNext]_runs

-----------------------------------------------------------------------------
(* Rationals, their sums, and the two averages.                            *)

Rational == Int \X (Nat \ {0})
Whole(i) == <<i, 1>>
Plus(p, q) == IF p[2] = q[2] THEN <<p[1] + q[1], p[2]>> ELSE <<p[1] * q[2] + q[1] * p[2], p[2] * q[2]>>
Scaled(i, q) == <<i * q[1], q[2]>>
Divided(p, q) == <<p[1] * q[2], p[2] * q[1]>>
AtMost(p, q) == p[1] * q[2] <= q[1] * p[2]
Rounded(q) == (2 * q[1] + q[2]) \div (2 * q[2])   \* Math.round

\* The sum of the first n values.
Total(values, n) ==
    LET upTo[i \in 0..n] == IF i = 0 THEN Whole(0) ELSE Plus(upTo[i - 1], values[i])
    IN  upTo[n]
\* What F gives for the members of a set, in the order of a list.
TotalOf(list, set, F(_)) ==
    Total([i \in DOMAIN list |-> IF list[i] \in set THEN F(list[i]) ELSE Whole(0)], Len(list))

\* The k-th smallest of some integers.
Nth(values, k) ==
    CHOOSE v \in {values[i] : i \in DOMAIN values} :
        /\ Cardinality({i \in DOMAIN values : values[i] < v}) < k
        /\ k <= Cardinality({i \in DOMAIN values : values[i] <= v})
Median(values) ==
    LET n == Cardinality(DOMAIN values)
        m == n \div 2
    IN  IF n % 2 = 1 THEN Whole(Nth(values, m + 1)) ELSE <<Nth(values, m) + Nth(values, m + 1), 2>>

\* Piecewise linear over points of integers, clamped at both ends.
RisesUnshifted(p0, p1, q) == Divided(Scaled(p1[2] - p0[2], q), Whole(p1[1] - p0[1])) \* mutant: measured from zero
Rises(p0, p1, q) == Divided(Scaled(p1[2] - p0[2], Plus(q, Whole(-p0[1]))), Whole(p1[1] - p0[1]))
Curve(q, points) ==
    LET right == {i \in 2..Len(points) : AtMost(q, Whole(points[i][1]))}
        i == Min(right)
    IN  IF AtMost(q, Whole(points[1][1])) THEN Whole(points[1][2])
        ELSE IF right = {} THEN Whole(points[Len(points)][2])
        ELSE Plus(Whole(points[i - 1][2]), Rises(points[i - 1], points[i], q))

-----------------------------------------------------------------------------
(* What the runs tell (inputs.ts): sets of indices of runs.                *)

Signals(rs) == {i \in DOMAIN rs : rs[i].signals}
Kicked(rs) == {i \in Signals(rs) : rs[i].kick >= 0}
Controlled(rs) == {i \in Signals(rs) : rs[i].control >= 0}
Ranked(rs) == {i \in DOMAIN rs : rs[i].parse > 0}
AtTarget(rs) == {i \in Ranked(rs) : rs[i].level >= TargetLevel - 1}
HasKick(rs) == \E i \in Signals(rs) : rs[i].kick # NoKick

\* The runs a source was measured on.
Measured(rs, src) ==
    CASE src = "individualDeaths" -> Signals(rs)
      [] src = "kicksAbsolute" -> Kicked(rs)
      [] src = "crowdControl" -> Controlled(rs)
      [] src = "medianParse" -> Ranked(rs)
      [] src = "parseAtTarget" -> AtTarget(rs)

\* ... and what they say; each death weighs by the level of its own run.
LevelDeaths(r) == Scaled(r.deaths, Curve(Whole(r.level), LevelScale))
MeanDeaths(rs) ==
    LET deaths == [i \in DOMAIN rs |-> IF i \in Signals(rs) THEN LevelDeaths(rs[i]) ELSE Whole(0)]
    IN  Divided(Total(deaths, Len(rs)), Whole(Cardinality(Signals(rs))))
Value(rs, src) ==
    CASE src = "individualDeaths" -> MeanDeaths(rs)
      [] src = "kicksAbsolute" -> Median([i \in Kicked(rs) |-> rs[i].kick])
      [] src = "crowdControl" -> Median([i \in Controlled(rs) |-> rs[i].control])
      [] src = "medianParse" -> Median([i \in Ranked(rs) |-> rs[i].parse])
      [] src = "parseAtTarget" -> Median([i \in AtTarget(rs) |-> rs[i].parse])

Has(rs, src) == Measured(rs, src) # {}
Applies(rs, src) == Weight[src] > 0 /\ (src = "kicksAbsolute" => HasKick(rs))

-----------------------------------------------------------------------------
(* Axes (axis.ts).  `as` is the set of sources taken as the average        *)
(* player's: the drivers' override.                                        *)

\* Pulled toward the reference by k / (n + k).
Shrunk(q, n, src) == Divided(Plus(Scaled(n, q), Whole(Shrinkage[src] * Reference[src])), Whole(n + Shrinkage[src]))

InputOf(rs, src, as) ==
    IF src \in as \/ ~Has(rs, src) THEN Whole(Reference[src])
    ELSE Shrunk(Value(rs, src), Cardinality(Measured(rs, src)), src)
SubScore(rs, src, as) == Curve(InputOf(rs, src, as), CurveOf[src])

ScoredAll(rs, a) == {s \in SourcesOf[a] : Applies(rs, s)} \* mutant: the pillars' sources too
Scored(rs, a) == {s \in SourcesOf[a] \ PillarOnly : Applies(rs, s)}
Contributing(rs, a) == {s \in Scored(rs, a) : Has(rs, s)}
WeightOf(srcs) == TotalOf(Sources, srcs, LAMBDA s : Whole(Weight[s]))
Den(rs, a) == WeightOf(Scored(rs, a))
DenMeasured(rs, a) == WeightOf(Contributing(rs, a)) \* mutant
DeltaDen(rs, a) == Den(rs, a)

Weighed(rs, srcs, as) == TotalOf(Sources, srcs, LAMBDA s : Scaled(Weight[s], SubScore(rs, s, as)))

\* Missing data scores as the reference; an axis with nothing measured has no score.
AxisScore(rs, a, as) ==
    IF Contributing(rs, a) = {} THEN NoScore ELSE Rounded(Divided(Weighed(rs, Scored(rs, a), as), Den(rs, a)))

\* The evidence's delta, in tenths of an axis point.
Delta(rs, a, s) ==
    Rounded(Divided(Scaled(10 * Weight[s], Plus(SubScore(rs, s, {}), Whole(-50))), DeltaDen(rs, a)))

PillarScore(rs, p) ==
    LET of == {s \in PillarSources[p] : Has(rs, s) /\ Applies(rs, s)} IN
    IF of = {} THEN NoScore
    ELSE Rounded(Divided(Weighed(rs, of, {}), WeightOf(of)))

-----------------------------------------------------------------------------
(* The number and the verdict (global.ts, evaluate.ts).                    *)

\* What the consistency axis reads of the runs (inputs.ts:172).
Spreads(rs) == [i \in DOMAIN rs |-> [signals |-> rs[i].signals, deaths |-> rs[i].deaths, parse |-> rs[i].parse]]
SpreadScore(rs) == IF Consistency(Spreads(rs)) \in Nat THEN Consistency(Spreads(rs)) ELSE NoScore

Score(rs, a, as) ==
    CASE a = "consistency" -> SpreadScore(rs) [] a = "preparation" -> Prepared [] OTHER -> AxisScore(rs, a, as)

\* The mean of the axes that have a score, by their weights, read on a curve.
Global(rs, as) ==
    LET with == {a \in AnyAxis : Score(rs, a, as) # NoScore}
        den == TotalOf(Axes, with, LAMBDA a : Whole(AxisWeight[a]))
        num == TotalOf(Axes, with, LAMBDA a : Whole(AxisWeight[a] * Score(rs, a, as)))
    IN  IF den = Whole(0) THEN NoScore ELSE Rounded(Curve(Divided(num, den), GlobalCurve))

Verdict(rs, global) ==
    IF global = NoScore \/ Cardinality(Signals(rs)) < MinRuns THEN "insufficient"
    ELSE IF global >= Invite THEN "invite" ELSE IF global >= Maybe THEN "maybe" ELSE "pass"

-----------------------------------------------------------------------------
(* The drivers and the path to the next verdict (drivers.ts).              *)

\* What each measured signal brings or costs against the average player's.
Impacts(rs) ==
    LET global == Global(rs, {}) IN
    [s \in UNION {Contributing(rs, a) : a \in Axis} |-> global - Global(rs, {s})]

\* The path: the signals that cost points, the costliest first (equal ones in any order).
PathMax == 3
CostsAll(impact) == {s \in DOMAIN impact : impact[s] # 0} \* mutant: the gains too
Costs(impact) == {s \in DOMAIN impact : impact[s] < 0}
Paths(impact) ==
    LET costs == Costs(impact)
        length == Min({PathMax, Cardinality(costs)})
        Left(path, n) == costs \ {path[i] : i \in 1..n - 1}
    IN  {path \in [1..length -> costs] :
            \A n \in 1..length : path[n] \in Left(path, n) /\ \A s \in Left(path, n) : impact[path[n]] <= impact[s]}

\* The score as the signals of a path are brought one by one to the average.
PathScores(rs, path) == [n \in 0..Len(path) |-> Global(rs, {path[i] : i \in 1..n})]

NextThreshold(rs) == IF Verdict(rs, Global(rs, {})) = "pass" THEN Maybe ELSE Invite
\* It stops at the first score that reaches the next verdict, else it names every cost.
NextVerdict(rs, scores) ==
    LET reached == {n \in DOMAIN scores \ {0} : scores[n] >= NextThreshold(rs)}
        n == IF reached = {} THEN Max(DOMAIN scores) ELSE Min(reached)
    IN  [length |-> n, score |-> scores[n], reachable |-> reached # {}]

-----------------------------------------------------------------------------
(* How far the verdict holds (reliability.ts, web/src/lib/reliability.ts). *)

LevelMargin == 2
Proven(rs) == \E i \in DOMAIN rs : rs[i].level >= TargetLevel - LevelMargin

\* The scores with each shown run left out in turn.
Without(rs) == {Global(RemoveAt(rs, i), {}) : i \in DOMAIN rs} \ {NoScore}
HasRange(rs) == Global(rs, {}) # NoScore /\ Cardinality(Signals(rs)) >= MinRuns + 1 /\ Without(rs) # {}
Low(rs) == Min(Without(rs))
High(rs) == Max(Without(rs))

CrossesOne(rs, th) == Low(rs) < th /\ High(rs) >= th
Crossed(rs) == HasRange(rs) /\ (CrossesOne(rs, Invite) \/ CrossesOne(rs, Maybe))

\* The header's chip.
LowReliability(rs) == Verdict(rs, Global(rs, {})) # "insufficient" /\ (~Proven(rs) \/ Crossed(rs))

-----------------------------------------------------------------------------
(* Properties.                                                             *)

Distance(p, q) == LET d == Plus(p, Scaled(-1, q)) IN <<IF d[1] < 0 THEN -d[1] ELSE d[1], d[2]>>

\* axis.ts:38-41: what the page explains is what the score is made of: on every scored axis the
\* deltas and the share of the imputed sources add up to score - 50, but for the rounding of
\* each of them.
Explained ==
    \A a \in Axis : AxisScore(runs, a, {}) # NoScore =>
        LET deltas == TotalOf(Sources, Contributing(runs, a), LAMBDA s : Whole(Delta(runs, a, s)))
            absent == Scored(runs, a) \ Contributing(runs, a)
            imputed == Divided(Plus(Scaled(10, Weighed(runs, absent, {})), Scaled(-500, WeightOf(absent))), Den(runs, a))
            rounding == <<10 + Cardinality(Contributing(runs, a)), 2>>
        IN  AtMost(Distance(Plus(deltas, imputed), Whole(10 * (AxisScore(runs, a, {}) - 50))), rounding)

\* pillars.ts:1-4: nothing of the crowd control reaches a score or the verdict.
ControlApart ==
    LET bare == [i \in DOMAIN runs |-> [runs[i] EXCEPT !.control = NoData]]
    IN  /\ \A a \in Axis : AxisScore(bare, a, {}) = AxisScore(runs, a, {})
        /\ \A p \in DOMAIN PillarSources \ {"control"} : PillarScore(bare, p) = PillarScore(runs, p)
        /\ Verdict(bare, Global(bare, {})) = Verdict(runs, Global(runs, {}))

\* (Of a player without runs there is nothing to explain.)
ScoreHonest == runs # <<>> => Explained /\ ControlApart

\* The evaluation's own rule, of whole runs rather than of one input: no player gains a point
\* by dying once more, by a lower parse or by a lower kick rate in one of his runs.  It is the rule
\* of a configuration that gives consistency no weight, as default-config.json does: with a weight,
\* one more death may bring a run closer to the others, and the spread's score up (inputs.ts:178).
WorseNeverHelps ==
    AxisWeight["consistency"] = 0 => \A i \in DOMAIN runs :
        LET worse == {[runs[i] EXCEPT !.deaths = @ + 1], [runs[i] EXCEPT !.parse = IF @ > 10 THEN 10 ELSE @],
                      [runs[i] EXCEPT !.kick = IF @ > 0 THEN 0 ELSE @]}
        IN  \A r \in worse : Global([runs EXCEPT ![i] = r], {}) <= Global(runs, {})

\* drivers.ts:1-3: every signal of the path adds to what the others bring, the first one its
\* own impact, and a path said to reach the next verdict reaches it.
Climbs(scores, verdict, next) ==
    verdict \in {"pass", "maybe"} /\ DOMAIN scores # {0} =>
        /\ \A n \in DOMAIN scores \ {0} : scores[n] >= scores[n - 1]
        /\ scores[1] > scores[0]
        /\ next.reachable => Verdict(runs, next.score) # verdict
ClimbsFrom(scores) == Climbs(scores, Verdict(runs, scores[0]), NextVerdict(runs, scores))
PathClimbs == runs # <<>> => \A path \in Paths(Impacts(runs)) : ClimbsFrom(PathScores(runs, path))

\* web/src/lib/reliability.ts:28, "one run decides the verdict": a verdict that some run left out
\* changes carries the chip.
OneRunDecides ==
    HasRange(runs) /\ (\E g \in Without(runs) : Verdict(runs, g) # Verdict(runs, Global(runs, {})))
        => LowReliability(runs)
=============================================================================
