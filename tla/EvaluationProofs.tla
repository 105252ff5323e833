--------------------------- MODULE EvaluationProofs ---------------------------
(***************************************************************************)
(* The score, for any list of runs and any configuration that ConfigValid  *)
(* and CurvesOneWay allow.  Every step from the runs to the number keeps   *)
(* an order: the sums, the means and the medians of what the runs tell,    *)
(* the pull toward the average player, the curves, which keep it or turn   *)
(* it round, the axes, the number.  So a worse run is no higher number     *)
(* when consistency has no weight, and a signal brought to the average     *)
(* player's raises the number beside any others as it does alone.  What    *)
(* the page explains is compared over one denominator of all the           *)
(* sub-scores, each rounding off by a half at most.  There is no induction *)
(* over data: a sum is the last of a list of partial sums, and that list   *)
(* is there by the order of the naturals.                                  *)
(***************************************************************************)
EXTENDS Evaluation, FiniteSetTheorems, WellFoundedInduction, TLAPS

-----------------------------------------------------------------------------
(* Integers.                                                               *)

\* A factor that is not negative keeps an order; a positive one can be taken away.
LEMMA TimesMonotone ==
    ASSUME NEW a \in Int, NEW b \in Int, NEW c \in Nat, a <= b
    PROVE  a * c <= b * c
    OBVIOUS

LEMMA TimesCancels ==
    ASSUME NEW a \in Int, NEW b \in Int, NEW c \in Nat \ {0}, a * c <= b * c
    PROVE  a <= b
    OBVIOUS

LEMMA TimesTyped == ASSUME NEW a \in Nat \ {0}, NEW b \in Nat \ {0} PROVE a * b \in Nat \ {0}
    OBVIOUS

-----------------------------------------------------------------------------
(* Rationals.                                                              *)

Same(p, q) == p[1] * q[2] = q[1] * p[2]

\* A rational has an integer over a positive natural.
LEMMA PartsTyped == ASSUME NEW q \in Rational PROVE q[1] \in Int /\ q[2] \in Nat \ {0} /\ q = <<q[1], q[2]>>
    BY DEF Rational

LEMMA WholeTyped == ASSUME NEW i \in Int PROVE Whole(i) \in Rational /\ Whole(i)[1] = i /\ Whole(i)[2] = 1
    BY DEF Whole, Rational

\* The operations give rationals.
LEMMA PlusTyped == ASSUME NEW p \in Rational, NEW q \in Rational PROVE Plus(p, q) \in Rational
    BY PartsTyped, TimesTyped DEF Plus, Rational

LEMMA ScaledTyped == ASSUME NEW i \in Int, NEW q \in Rational PROVE Scaled(i, q) \in Rational
    BY PartsTyped DEF Scaled, Rational

LEMMA DividedTyped == ASSUME NEW p \in Rational, NEW q \in Rational, q[1] > 0 PROVE Divided(p, q) \in Rational
    BY PartsTyped, TimesTyped DEF Divided, Rational

\* Order.
LEMMA AtMostReflexive == ASSUME NEW q \in Rational PROVE AtMost(q, q)
    BY PartsTyped DEF AtMost

LEMMA AtMostTotal == ASSUME NEW p \in Rational, NEW q \in Rational PROVE AtMost(p, q) \/ AtMost(q, p)
    BY PartsTyped DEF AtMost

\* The order of rationals is transitive, whatever their denominators.
LEMMA AtMostChains ==
    ASSUME NEW p \in Rational, NEW q \in Rational, NEW r \in Rational, AtMost(p, q), AtMost(q, r)
    PROVE  AtMost(p, r)
<1>. DEFINE a == p[1]  b == p[2]  c == q[1]  d == q[2]  e == r[1]  f == r[2]
<1>1. a \in Int /\ c \in Int /\ e \in Int /\ b \in Nat \ {0} /\ d \in Nat \ {0} /\ f \in Nat \ {0}
    BY PartsTyped
<1>2. a * d <= c * b /\ c * f <= e * d
    BY DEF AtMost
<1>3. a * f <= e * b
  <2>. HIDE DEF a, b, c, d, e, f
  <2>1. (a * d) * f <= (c * b) * f
    BY <1>1, <1>2, TimesMonotone
  <2>2. (c * f) * b <= (e * d) * b
    BY <1>1, <1>2, TimesMonotone
  <2>3. (a * d) * f = (a * f) * d /\ (c * b) * f = (c * f) * b /\ (e * d) * b = (e * b) * d
    BY <1>1
  <2>4. (a * f) * d <= (e * b) * d
    BY <1>1, <2>1, <2>2, <2>3
  <2>. QED
    BY <1>1, <2>4, TimesCancels
<1>. QED
    BY <1>3 DEF AtMost

\* The sum over a common denominator is the sum over the product of the two.
LEMMA PlusCross ==
    ASSUME NEW p \in Rational, NEW q \in Rational
    PROVE  Same(Plus(p, q), <<p[1] * q[2] + q[1] * p[2], p[2] * q[2]>>)
<1>. DEFINE a == p[1]  b == p[2]  c == q[1]  d == q[2]
<1>1. a \in Int /\ c \in Int /\ b \in Nat \ {0} /\ d \in Nat \ {0}
    BY PartsTyped
<1>2. (a + c) * (b * b) = (a * b + c * b) * b
  <2>. HIDE DEF a, b, c, d
  <2>. QED
    BY <1>1
<1>. QED
    BY <1>2 DEF Plus, Same

\* Two forms of one rational are at most each other.
LEMMA SameIsAtMost == ASSUME NEW p \in Rational, NEW q \in Rational, Same(p, q) PROVE AtMost(p, q) /\ AtMost(q, p)
    BY PartsTyped DEF Same, AtMost

\* A sum of no smaller terms is no smaller.
LEMMA PlusMonotone ==
    ASSUME NEW p \in Rational, NEW q \in Rational, NEW r \in Rational, NEW s \in Rational, AtMost(p, q), AtMost(r, s)
    PROVE  AtMost(Plus(p, r), Plus(q, s))
<1>. DEFINE a == p[1]  b == p[2]  c == q[1]  d == q[2]  e == r[1]  f == r[2]  g == s[1]  h == s[2]
            left == <<a * f + e * b, b * f>>
            right == <<c * h + g * d, d * h>>
<1>1. /\ a \in Int /\ c \in Int /\ e \in Int /\ g \in Int
      /\ b \in Nat \ {0} /\ d \in Nat \ {0} /\ f \in Nat \ {0} /\ h \in Nat \ {0}
    BY PartsTyped
<1>2. a * d <= c * b /\ e * h <= g * f
    BY DEF AtMost
<1>3. b * f \in Nat \ {0} /\ d * h \in Nat \ {0} /\ f * h \in Nat \ {0} /\ b * d \in Nat \ {0}
    BY <1>1, TimesTyped
<1>4. (a * f + e * b) * (d * h) <= (c * h + g * d) * (b * f)
  <2>. HIDE DEF a, b, c, d, e, f, g, h
  <2>1. (a * d) * (f * h) <= (c * b) * (f * h)
    BY <1>1, <1>2, <1>3, TimesMonotone
  <2>2. (e * h) * (b * d) <= (g * f) * (b * d)
    BY <1>1, <1>2, <1>3, TimesMonotone
  <2>3. (a * f + e * b) * (d * h) = (a * d) * (f * h) + (e * h) * (b * d)
    BY <1>1
  <2>4. (c * h + g * d) * (b * f) = (c * b) * (f * h) + (g * f) * (b * d)
    BY <1>1
  <2>. QED
    BY <1>1, <2>1, <2>2, <2>3, <2>4
<1>5. left \in Rational /\ right \in Rational /\ AtMost(left, right)
  <2>1. a * f + e * b \in Int /\ c * h + g * d \in Int
    BY <1>1
  <2>2. left \in Rational /\ right \in Rational
    BY <1>3, <2>1 DEF Rational
  <2>. QED
    BY <1>4, <2>2 DEF AtMost
<1>6. Plus(p, r) \in Rational /\ Plus(q, s) \in Rational /\ Same(Plus(p, r), left) /\ Same(Plus(q, s), right)
    BY PlusTyped, PlusCross
<1>. HIDE DEF left, right
<1>7. AtMost(Plus(p, r), left) /\ AtMost(right, Plus(q, s))
    BY <1>5, <1>6, SameIsAtMost
<1>8. AtMost(Plus(p, r), right)
    BY <1>5, <1>6, <1>7, AtMostChains
<1>. QED
    BY <1>5, <1>6, <1>7, <1>8, AtMostChains

\* A natural factor keeps the order, a negative one turns it round, and a positive divisor keeps it.
LEMMA ScaledMonotone ==
    ASSUME NEW i \in Nat, NEW p \in Rational, NEW q \in Rational, AtMost(p, q)
    PROVE  AtMost(Scaled(i, p), Scaled(i, q))
<1>. DEFINE a == p[1]  b == p[2]  c == q[1]  d == q[2]
<1>1. a \in Int /\ c \in Int /\ b \in Nat \ {0} /\ d \in Nat \ {0} /\ a * d <= c * b
    BY PartsTyped DEF AtMost
<1>2. (i * a) * d <= (i * c) * b
  <2>. HIDE DEF a, b, c, d
  <2>1. (a * d) * i <= (c * b) * i
    BY <1>1, TimesMonotone
  <2>. QED
    BY <1>1, <2>1
<1>. QED
    BY <1>2 DEF AtMost, Scaled

\* More of what is not negative, and less of what is positive.
LEMMA ScaledBy ==
    ASSUME NEW i \in Nat, NEW j \in Nat, i <= j, NEW q \in Rational, q[1] >= 0
    PROVE  AtMost(Scaled(i, q), Scaled(j, q))
<1>. DEFINE a == q[1]  b == q[2]
<1>1. a \in Nat /\ b \in Nat \ {0}
    BY PartsTyped
<1>2. (i * a) * b <= (j * a) * b
  <2>. HIDE DEF a, b
  <2>1. i * (a * b) <= j * (a * b)
    BY <1>1, TimesMonotone
  <2>. QED
    BY <1>1, <2>1
<1>. QED
    BY <1>2 DEF AtMost, Scaled

LEMMA ScaledReverses ==
    ASSUME NEW i \in Nat, NEW p \in Rational, NEW q \in Rational, AtMost(p, q)
    PROVE  AtMost(Scaled(-i, q), Scaled(-i, p))
<1>. DEFINE a == p[1]  b == p[2]  c == q[1]  d == q[2]
<1>1. a \in Int /\ c \in Int /\ b \in Nat \ {0} /\ d \in Nat \ {0} /\ a * d <= c * b
    BY PartsTyped DEF AtMost
<1>2. ((-i) * c) * b <= ((-i) * a) * d
  <2>. HIDE DEF a, b, c, d
  <2>1. (a * d) * i <= (c * b) * i
    BY <1>1, TimesMonotone
  <2>2. ((-i) * c) * b = -((c * b) * i) /\ ((-i) * a) * d = -((a * d) * i)
    BY <1>1
  <2>. QED
    BY <1>1, <2>1, <2>2
<1>. QED
    BY <1>2 DEF AtMost, Scaled

LEMMA DividedMonotone ==
    ASSUME NEW p \in Rational, NEW q \in Rational, NEW r \in Rational, r[1] > 0, AtMost(p, q)
    PROVE  AtMost(Divided(p, r), Divided(q, r))
<1>. DEFINE a == p[1]  b == p[2]  c == q[1]  d == q[2]  e == r[1]  f == r[2]
<1>1. a \in Int /\ c \in Int /\ b \in Nat \ {0} /\ d \in Nat \ {0} /\ e \in Nat \ {0} /\ f \in Nat \ {0} /\ a * d <= c * b
    BY PartsTyped DEF AtMost
<1>2. (a * f) * (d * e) <= (c * f) * (b * e)
  <2>. HIDE DEF a, b, c, d, e, f
  <2>0. e * f \in Nat
    BY <1>1, TimesTyped
  <2>1. (a * d) * (e * f) <= (c * b) * (e * f)
    BY <1>1, <2>0, TimesMonotone
  <2>. QED
    BY <1>1, <2>1
<1>. QED
    BY <1>2 DEF AtMost, Divided

\* Math.round is off by a half at most, and keeps the order.
LEMMA RoundedBounds ==
    ASSUME NEW q \in Rational
    PROVE  /\ Rounded(q) \in Int
           /\ 2 * q[2] * Rounded(q) <= 2 * q[1] + q[2]
           /\ 2 * q[1] + q[2] < 2 * q[2] * Rounded(q) + 2 * q[2]
<1>. DEFINE n == 2 * q[1] + q[2]  d == 2 * q[2]
<1>1. n \in Int /\ d \in Nat \ {0}
    BY PartsTyped
<1>2. n \div d \in Int /\ d * (n \div d) <= n /\ n < d * (n \div d) + d
  <2>. HIDE DEF n, d
  <2>1. n = d * (n \div d) + (n % d) /\ (n % d) \in 0..(d - 1) /\ n \div d \in Int
    BY <1>1
  <2>. QED
    BY <1>1, <2>1
<1>. QED
    BY <1>2 DEF Rounded

LEMMA RoundedMonotone ==
    ASSUME NEW p \in Rational, NEW q \in Rational, AtMost(p, q)
    PROVE  Rounded(p) <= Rounded(q)
<1>. DEFINE a == p[1]  b == p[2]  c == q[1]  d == q[2]  k == Rounded(p)  m == Rounded(q)
<1>1. a \in Int /\ c \in Int /\ b \in Nat \ {0} /\ d \in Nat \ {0} /\ a * d <= c * b
    BY PartsTyped DEF AtMost
<1>2. k \in Int /\ m \in Int /\ 2 * b * k <= 2 * a + b /\ 2 * c + d < 2 * d * m + 2 * d
    BY RoundedBounds
<1>3. ~(m + 1 <= k)
  <2>. HIDE DEF a, b, c, d, k, m
  <2>1. (2 * b * k) * d <= (2 * a + b) * d
    BY <1>1, <1>2, TimesMonotone
  <2>2. (2 * c + d + 1) * b <= (2 * d * m + 2 * d) * b
    BY <1>1, <1>2, TimesMonotone
  <2>3. (2 * b * k) * d = 2 * (k * (b * d)) /\ (2 * a + b) * d = 2 * (a * d) + b * d
    BY <1>1, <1>2
  <2>4. (2 * c + d + 1) * b = 2 * (c * b) + b * d + b /\ (2 * d * m + 2 * d) * b = 2 * (m * (b * d)) + 2 * (b * d)
    BY <1>1, <1>2
  <2>5. SUFFICES ASSUME m + 1 <= k PROVE FALSE
    OBVIOUS
  <2>6. b * d \in Nat \ {0}
    BY <1>1, TimesTyped
  <2>7. (m + 1) * (b * d) <= k * (b * d)
    BY <1>2, <2>5, <2>6, TimesMonotone
  <2>8. (m + 1) * (b * d) = m * (b * d) + b * d
    BY <1>2, <2>6
  <2>. DEFINE kbd == k * (b * d)  mbd == m * (b * d)  ad == a * d  cb == c * b  bd == b * d
  <2>9. kbd \in Int /\ mbd \in Int /\ ad \in Int /\ cb \in Int /\ bd \in Nat
    BY <1>1, <1>2, <2>6
  <2>10. 2 * kbd <= 2 * ad + bd /\ 2 * cb + bd + b <= 2 * mbd + 2 * bd /\ mbd + bd <= kbd /\ ad <= cb
    BY <1>1, <2>1, <2>2, <2>3, <2>4, <2>7, <2>8
  <2>. HIDE DEF kbd, mbd, ad, cb, bd
  <2>. QED
    BY <1>1, <2>9, <2>10
<1>. QED
    BY <1>2, <1>3

-----------------------------------------------------------------------------
(* Sums.                                                                   *)

\* partial is the list of the first n partial sums of values.
PartialSums(partial, values, n) ==
    partial = [i \in 0..n |-> IF i = 0 THEN Whole(0) ELSE Plus(partial[i - 1], values[i])]

\* A set of naturals with 0 and the successor of each of its members has them all.
LEMMA SetInduction ==
    ASSUME NEW S \in SUBSET Nat, 0 \in S, \A n \in Nat : n \in S => n + 1 \in S
    PROVE  S = Nat
<1>. DEFINE T == Nat \ S
<1>1. SUFFICES ASSUME T # {} PROVE FALSE
    OBVIOUS
<1>2. T \subseteq Nat
    OBVIOUS
<1>3. PICK n \in T : \A k \in T : ~(<<k, n>> \in OpToRel(<, Nat))
  <2>. HIDE DEF T
  <2>. QED
    BY <1>1, <1>2, WFMin, NatLessThanWellFounded, Zenon
<1>4. n \in Nat \ {0} /\ n - 1 \in Nat /\ n - 1 < n
    BY <1>2
<1>5. n - 1 \notin T
    BY <1>2, <1>3, <1>4 DEF OpToRel
<1>. QED
    BY <1>4, <1>5

\* The partial sums of any values are there, and there is one list of them: the recursive function of
\* Total is what its equation says.
LEMMA SumsExist ==
    ASSUME NEW values, NEW n \in Nat
    PROVE  \E partial : PartialSums(partial, values, n)
<1>. DEFINE S == {m \in Nat : \E partial : PartialSums(partial, values, m)}
<1>1. 0 \in S
  <2>1. PartialSums([i \in 0..0 |-> Whole(0)], values, 0)
    BY DEF PartialSums
  <2>. QED
    BY <2>1
<1>2. ASSUME NEW m \in Nat, m \in S PROVE m + 1 \in S
  <2>1. PICK p : PartialSums(p, values, m)
    BY <1>2
  <2>. DEFINE r == [i \in 0..m + 1 |-> IF i = m + 1 THEN Plus(p[m], values[m + 1]) ELSE p[i]]
  <2>2. \A i \in 0..m : r[i] = p[i]
    OBVIOUS
  <2>3. \A i \in 0..m : p[i] = IF i = 0 THEN Whole(0) ELSE Plus(p[i - 1], values[i])
    BY <2>1 DEF PartialSums
  <2>4. \A i \in 0..m + 1 : r[i] = IF i = 0 THEN Whole(0) ELSE Plus(r[i - 1], values[i])
    <3>1. SUFFICES ASSUME NEW i \in 0..m + 1 PROVE r[i] = IF i = 0 THEN Whole(0) ELSE Plus(r[i - 1], values[i])
        OBVIOUS
    <3>2. CASE i = m + 1
      <4>1. m \in 0..m /\ i # 0 /\ i - 1 = m
        BY <3>2
      <4>. QED
        BY <2>2, <3>2, <4>1
    <3>3. CASE i \in 0..m /\ i = 0
        BY <2>2, <2>3, <3>3
    <3>4. CASE i \in 0..m /\ i # 0
      <4>1. i - 1 \in 0..m
        BY <3>4
      <4>. QED
        BY <2>2, <2>3, <3>4, <4>1
    <3>. QED
        BY <3>2, <3>3, <3>4
  <2>5. PartialSums(r, values, m + 1)
    <3>1. r = [i \in 0..m + 1 |-> r[i]]
        OBVIOUS
    <3>. HIDE DEF r
    <3>. QED
        BY <2>4, <3>1 DEF PartialSums
  <2>. QED
    BY <2>5
<1>. HIDE DEF S
<1>3. S = Nat
    BY <1>1, <1>2, SetInduction DEF S
<1>. QED
    BY <1>3 DEF S

LEMMA SumsAgree ==
    ASSUME NEW values, NEW n \in Nat, NEW p, PartialSums(p, values, n),
           NEW r, PartialSums(r, values, n + 1)
    PROVE  \A i \in 0..n : p[i] = r[i]
<1>. DEFINE S == {m \in Nat : m \in 0..n => p[m] = r[m]}
<1>1. \A i \in 0..n : p[i] = IF i = 0 THEN Whole(0) ELSE Plus(p[i - 1], values[i])
    BY DEF PartialSums
<1>2. \A i \in 0..n + 1 : r[i] = IF i = 0 THEN Whole(0) ELSE Plus(r[i - 1], values[i])
    BY DEF PartialSums
<1>3. 0 \in S
    BY <1>1, <1>2
<1>4. ASSUME NEW m \in Nat, m \in S PROVE m + 1 \in S
  <2>1. SUFFICES ASSUME m + 1 \in 0..n PROVE p[m + 1] = r[m + 1]
    OBVIOUS
  <2>2. m \in 0..n /\ m + 1 \in 0..n + 1 /\ m + 1 # 0 /\ (m + 1) - 1 = m
    BY <2>1
  <2>3. p[m] = r[m]
    BY <1>4, <2>2
  <2>4. p[m + 1] = Plus(p[m], values[m + 1]) /\ r[m + 1] = Plus(r[m], values[m + 1])
    BY <1>1, <1>2, <2>1, <2>2
  <2>. QED
    BY <2>3, <2>4
<1>5. S = Nat
  <2>. HIDE DEF S
  <2>1. S \in SUBSET Nat
    BY DEF S
  <2>. QED
    BY <1>3, <1>4, <2>1, SetInduction
<1>. QED
    BY <1>5

\* Total is the last partial sum.
LEMMA TotalIsLast ==
    ASSUME NEW values, NEW n \in Nat
    PROVE  \E partial : PartialSums(partial, values, n) /\ Total(values, n) = partial[n]
<1>. DEFINE P(partial) == partial = [i \in 0..n |-> IF i = 0 THEN Whole(0) ELSE Plus(partial[i - 1], values[i])]
<1>1. \E partial : P(partial)
    BY SumsExist DEF PartialSums
<1>2. P(CHOOSE partial : P(partial))
    BY <1>1
<1>3. Total(values, n) = (CHOOSE partial : P(partial))[n]
    BY DEF Total
<1>. QED
    BY <1>2, <1>3 DEF PartialSums

\* What Total gives: nothing for no value, and one value more for one more.
LEMMA TotalEmpty == ASSUME NEW values PROVE Total(values, 0) = Whole(0)
<1>1. PICK p : PartialSums(p, values, 0) /\ Total(values, 0) = p[0]
    BY TotalIsLast
<1>. QED
    BY <1>1 DEF PartialSums

LEMMA TotalAdds ==
    ASSUME NEW values, NEW n \in Nat
    PROVE  Total(values, n + 1) = Plus(Total(values, n), values[n + 1])
<1>1. PICK p : PartialSums(p, values, n) /\ Total(values, n) = p[n]
    BY TotalIsLast
<1>2. PICK r : PartialSums(r, values, n + 1) /\ Total(values, n + 1) = r[n + 1]
    BY TotalIsLast
<1>3. p[n] = r[n]
    BY <1>1, <1>2, SumsAgree
<1>4. n + 1 \in 0..n + 1 /\ n + 1 # 0 /\ (n + 1) - 1 = n
    OBVIOUS
<1>5. r[n + 1] = Plus(r[(n + 1) - 1], values[n + 1])
    BY <1>2, <1>4 DEF PartialSums
<1>. QED
    BY <1>1, <1>2, <1>3, <1>4, <1>5

\* A sum of rationals is one, and no smaller when none of its terms is.
LEMMA TotalTyped ==
    ASSUME NEW n \in Nat, NEW values, \A i \in 1..n : values[i] \in Rational
    PROVE  Total(values, n) \in Rational
<1>. DEFINE S == {m \in Nat : m <= n => Total(values, m) \in Rational}
<1>1. 0 \in S
    BY TotalEmpty, WholeTyped
<1>2. ASSUME NEW m \in Nat, m \in S PROVE m + 1 \in S
  <2>1. SUFFICES ASSUME m + 1 <= n PROVE Total(values, m + 1) \in Rational
    OBVIOUS
  <2>2. Total(values, m) \in Rational /\ m + 1 \in 1..n
    BY <1>2, <2>1
  <2>3. values[m + 1] \in Rational
    BY <2>2
  <2>. QED
    BY <2>2, <2>3, TotalAdds, PlusTyped
<1>3. S = Nat
  <2>. HIDE DEF S
  <2>1. S \in SUBSET Nat
    BY DEF S
  <2>. QED
    BY <1>1, <1>2, <2>1, SetInduction
<1>. QED
    BY <1>3

LEMMA TotalMonotone ==
    ASSUME NEW n \in Nat, NEW f, NEW g,
           \A i \in 1..n : f[i] \in Rational /\ g[i] \in Rational /\ AtMost(f[i], g[i])
    PROVE  AtMost(Total(f, n), Total(g, n))
<1>. DEFINE S == {m \in Nat : m <= n => AtMost(Total(f, m), Total(g, m))}
<1>1. 0 \in S
    BY TotalEmpty, WholeTyped, AtMostReflexive
<1>2. ASSUME NEW m \in Nat, m \in S PROVE m + 1 \in S
  <2>1. SUFFICES ASSUME m + 1 <= n PROVE AtMost(Total(f, m + 1), Total(g, m + 1))
    OBVIOUS
  <2>2. AtMost(Total(f, m), Total(g, m)) /\ m + 1 \in 1..n /\ \A i \in 1..m : i \in 1..n
    BY <1>2, <2>1
  <2>3. Total(f, m) \in Rational /\ Total(g, m) \in Rational
    BY <2>2, TotalTyped
  <2>4. f[m + 1] \in Rational /\ g[m + 1] \in Rational /\ AtMost(f[m + 1], g[m + 1])
    BY <2>2
  <2>5. Total(f, m + 1) = Plus(Total(f, m), f[m + 1]) /\ Total(g, m + 1) = Plus(Total(g, m), g[m + 1])
    BY TotalAdds
  <2>. QED
    BY <2>2, <2>3, <2>4, <2>5, PlusMonotone
<1>3. S = Nat
  <2>. HIDE DEF S
  <2>1. S \in SUBSET Nat
    BY DEF S
  <2>. QED
    BY <1>1, <1>2, <2>1, SetInduction
<1>. QED
    BY <1>3

-----------------------------------------------------------------------------
(* Curves.                                                                 *)

\* Min of some naturals is the least of them.
LEMMA LeastExists ==
    ASSUME NEW S, S \subseteq Nat, S # {}
    PROVE  \E n \in S : \A k \in S : n <= k
<1>1. PICK n \in S : \A k \in S : ~(<<k, n>> \in OpToRel(<, Nat))
    BY WFMin, NatLessThanWellFounded, Zenon
<1>2. \A k \in S : ~(k < n)
    BY <1>1 DEF OpToRel
<1>. QED
    BY <1>2

LEMMA MinIsLeast ==
    ASSUME NEW S, S \subseteq Nat, S # {}
    PROVE  Min(S) \in S /\ \A k \in S : Min(S) <= k
    BY LeastExists DEF Min

LEMMA WholeAtMost == ASSUME NEW i \in Int, NEW k \in Int PROVE AtMost(Whole(i), Whole(k)) <=> i <= k
    BY DEF AtMost, Whole

\* The order, or the reverse of it.
Ordered(up, p, q) == IF up THEN AtMost(p, q) ELSE AtMost(q, p)
OneWay(points, up) == IF up THEN Rising(points) ELSE Falling(points)

LEMMA OrderedChains ==
    ASSUME NEW up \in BOOLEAN, NEW p \in Rational, NEW q \in Rational, NEW r \in Rational, Ordered(up, p, q), Ordered(up, q, r)
    PROVE  Ordered(up, p, r)
<1>1. CASE up
    BY <1>1, AtMostChains DEF Ordered
<1>2. CASE ~up
    BY <1>2, AtMostChains DEF Ordered
<1>. QED
    BY <1>1, <1>2

LEMMA OrderedReflexive == ASSUME NEW up \in BOOLEAN, NEW p \in Rational PROVE Ordered(up, p, p)
    BY AtMostReflexive DEF Ordered

\* A point of the integers, with the points of a curve.
Segment(p0, p1, q) == Plus(Whole(p0[2]), Rises(p0, p1, q))

\* The line between two points of a curve gives rationals, keeps the order of its arguments when it
\* rises, turns it round when it falls, and ends at the two points.
LEMMA SegmentTyped ==
    ASSUME NEW p0 \in Int \X Nat, NEW p1 \in Int \X Nat, p0[1] < p1[1], NEW q \in Rational
    PROVE  Rises(p0, p1, q) \in Rational /\ Segment(p0, p1, q) \in Rational
<1>1. p0[1] \in Int /\ p0[2] \in Int /\ p1[1] \in Int /\ p1[2] \in Int /\ p1[2] - p0[2] \in Int /\ -p0[1] \in Int /\ p1[1] - p0[1] \in Int
    OBVIOUS
<1>2. Plus(q, Whole(-p0[1])) \in Rational
    BY <1>1, WholeTyped, PlusTyped
<1>3. Scaled(p1[2] - p0[2], Plus(q, Whole(-p0[1]))) \in Rational
    BY <1>1, <1>2, ScaledTyped
<1>4. Whole(p1[1] - p0[1]) \in Rational /\ Whole(p1[1] - p0[1])[1] > 0
    BY <1>1, WholeTyped
<1>5. Rises(p0, p1, q) \in Rational
    BY <1>3, <1>4, DividedTyped DEF Rises
<1>. QED
    BY <1>1, <1>5, WholeTyped, PlusTyped DEF Segment

LEMMA SegmentOrdered ==
    ASSUME NEW p0 \in Int \X Nat, NEW p1 \in Int \X Nat, p0[1] < p1[1], NEW up \in BOOLEAN,
           IF up THEN p0[2] <= p1[2] ELSE p1[2] <= p0[2],
           NEW p \in Rational, NEW q \in Rational, AtMost(p, q)
    PROVE  Ordered(up, Segment(p0, p1, p), Segment(p0, p1, q))
<1>. DEFINE a == Plus(p, Whole(-p0[1]))  b == Plus(q, Whole(-p0[1]))  k == p1[2] - p0[2]  w == Whole(p1[1] - p0[1])
<1>1. p0[1] \in Int /\ p0[2] \in Int /\ p1[1] \in Int /\ p1[2] \in Int /\ k \in Int /\ -p0[1] \in Int /\ p1[1] - p0[1] \in Int
    OBVIOUS
<1>2. Whole(-p0[1]) \in Rational /\ w \in Rational /\ w[1] > 0 /\ Whole(p0[2]) \in Rational
    BY <1>1, WholeTyped
<1>3. a \in Rational /\ b \in Rational /\ AtMost(a, b)
    BY <1>2, PlusTyped, PlusMonotone, AtMostReflexive
<1>4. Ordered(up, Scaled(k, a), Scaled(k, b)) /\ Scaled(k, a) \in Rational /\ Scaled(k, b) \in Rational
  <2>. HIDE DEF a, b
  <2>1. CASE up
    <3>1. k \in Nat
        BY <1>1, <2>1
    <3>. QED
        BY <1>3, <2>1, <3>1, ScaledMonotone, ScaledTyped DEF Ordered
  <2>2. CASE ~up
    <3>1. -k \in Nat /\ k = -(-k) /\ k \in Int
        BY <1>1, <2>2
    <3>. HIDE DEF k
    <3>2. AtMost(Scaled(k, b), Scaled(k, a))
        BY <1>3, <3>1, ScaledReverses
    <3>. QED
        BY <1>3, <2>2, <3>1, <3>2, ScaledTyped DEF Ordered
  <2>. QED
    BY <2>1, <2>2
<1>5. Rises(p0, p1, p) = Divided(Scaled(k, a), w) /\ Rises(p0, p1, q) = Divided(Scaled(k, b), w)
    BY DEF Rises
<1>6. Rises(p0, p1, p) \in Rational /\ Rises(p0, p1, q) \in Rational
    BY SegmentTyped
<1>. HIDE DEF a, b, k, w
<1>7. Ordered(up, Rises(p0, p1, p), Rises(p0, p1, q))
    BY <1>2, <1>4, <1>5, DividedMonotone DEF Ordered
<1>. QED
    BY <1>2, <1>6, <1>7, PlusMonotone, AtMostReflexive DEF Ordered, Segment

LEMMA SegmentEnds ==
    ASSUME NEW p0 \in Int \X Nat, NEW p1 \in Int \X Nat, p0[1] < p1[1]
    PROVE  /\ Same(Segment(p0, p1, Whole(p0[1])), Whole(p0[2]))
           /\ Same(Segment(p0, p1, Whole(p1[1])), Whole(p1[2]))
<1>. DEFINE x0 == p0[1]  y0 == p0[2]  x1 == p1[1]  y1 == p1[2]  d == x1 - x0  k == y1 - y0
<1>1. x0 \in Int /\ y0 \in Int /\ x1 \in Int /\ y1 \in Int /\ d \in Nat \ {0} /\ k \in Int
    OBVIOUS
<1>2. \A x \in Int : Rises(p0, p1, Whole(x)) = <<k * (x - x0), d>>
    BY <1>1 DEF Rises, Plus, Whole, Scaled, Divided
<1>3. Rises(p0, p1, Whole(x0)) = <<0, d>> /\ Rises(p0, p1, Whole(x1)) = <<k * d, d>>
  <2>1. k * (x0 - x0) = 0
    BY <1>1
  <2>. QED
    BY <1>1, <1>2, <2>1
<1>4. Segment(p0, p1, Whole(x0)) = Plus(<<y0, 1>>, <<0, d>>) /\ Segment(p0, p1, Whole(x1)) = Plus(<<y0, 1>>, <<k * d, d>>)
    BY <1>3 DEF Segment, Whole
<1>5. Same(Plus(<<y0, 1>>, <<0, d>>), <<y0, 1>>)
  <2>. HIDE DEF y0, d
  <2>. QED
    BY <1>1 DEF Same, Plus
<1>6. Same(Plus(<<y0, 1>>, <<k * d, d>>), <<y1, 1>>)
  <2>1. y1 = y0 + k
    BY <1>1
  <2>. HIDE DEF y0, y1, d, k
  <2>2. (y0 + k) * d = y0 * d + k * d
    BY <1>1
  <2>. QED
    BY <1>1, <2>1, <2>2 DEF Same, Plus
<1>. QED
    BY <1>4, <1>5, <1>6 DEF Whole

\* Where a number lies on a curve: before its first point, after its last one, or on the segment
\* that ends at point i.
Before(q, points) == AtMost(q, Whole(points[1][1]))
After(q, points) == ~AtMost(q, Whole(points[Len(points)][1]))
On(q, points, i) ==
    i \in 2..Len(points) /\ AtMost(q, Whole(points[i][1])) /\ ~AtMost(q, Whole(points[i - 1][1]))

\* The points of a curve have the types of integers and naturals.
LEMMA PointsTyped ==
    ASSUME NEW points, IsCurve(points)
    PROVE  /\ Len(points) \in Nat \ {0} /\ 1 \in 1..Len(points) /\ Len(points) \in 1..Len(points)
           /\ \A i \in 1..Len(points) :
                 /\ points[i] \in Int \X Nat /\ points[i][1] \in Int /\ points[i][2] \in Nat
                 /\ Whole(points[i][1]) \in Rational /\ Whole(points[i][2]) \in Rational
           /\ \A i \in 2..Len(points) : i \in 1..Len(points) /\ i - 1 \in 1..Len(points) /\ points[i - 1][1] < points[i][1]
<1>1. points \in Seq(Int \X Nat) /\ points # <<>>
    BY DEF IsCurve
<1>2. Len(points) \in Nat \ {0}
    BY <1>1
<1>3. \A i \in 1..Len(points) : points[i] \in Int \X Nat /\ points[i][1] \in Int /\ points[i][2] \in Nat
    BY <1>1
<1>4. \A i \in 1..Len(points) : Whole(points[i][1]) \in Rational /\ Whole(points[i][2]) \in Rational
    BY <1>3, WholeTyped
<1>5. \A i \in 2..Len(points) : i \in 1..Len(points) /\ i - 1 \in 1..Len(points) /\ i - 1 < i
    BY <1>2
<1>6. \A i \in 2..Len(points) : points[i - 1][1] < points[i][1]
    BY <1>5 DEF IsCurve
<1>. QED
    BY <1>2, <1>3, <1>4, <1>5, <1>6

\* Points of which the first one does not come after the second.
LEMMA PointsOrdered ==
    ASSUME NEW points, IsCurve(points), NEW i \in 1..Len(points), NEW j \in 1..Len(points), i <= j
    PROVE  /\ AtMost(Whole(points[i][1]), Whole(points[j][1]))
           /\ \A up \in BOOLEAN : OneWay(points, up) => Ordered(up, Whole(points[i][2]), Whole(points[j][2]))
<1>1. points[i][1] \in Int /\ points[j][1] \in Int /\ points[i][2] \in Int /\ points[j][2] \in Int
    BY PointsTyped
<1>2. Len(points) \in Nat /\ i \in Int /\ j \in Int
    BY PointsTyped
<1>3. points[i][1] <= points[j][1]
  <2>1. CASE i < j
    <3>1. \A k, m \in 1..Len(points) : k < m => points[k][1] < points[m][1]
        BY DEF IsCurve
    <3>2. points[i][1] < points[j][1]
        BY <2>1, <3>1
    <3>. QED
        BY <1>1, <3>2
  <2>2. CASE i = j
    BY <1>1, <2>2
  <2>. QED
    BY <1>2, <2>1, <2>2
<1>4. ASSUME NEW up \in BOOLEAN, OneWay(points, up) PROVE Ordered(up, Whole(points[i][2]), Whole(points[j][2]))
  <2>1. IF up THEN points[i][2] <= points[j][2] ELSE points[j][2] <= points[i][2]
    <3>1. CASE i < j
        BY <1>1, <1>4, <3>1 DEF OneWay, Rising, Falling
    <3>2. CASE i = j
        BY <1>1, <3>2
    <3>. QED
        BY <1>2, <3>1, <3>2
  <2>. QED
    BY <1>1, <2>1, WholeAtMost DEF Ordered
<1>. QED
    BY <1>1, <1>3, <1>4, WholeAtMost

\* A number is before the curve, after it, or on one of its segments, and the value is read there.
LEMMA CurveCases ==
    ASSUME NEW points, IsCurve(points), NEW q \in Rational
    PROVE  \/ Before(q, points) /\ Curve(q, points) = Whole(points[1][2])
           \/ After(q, points) /\ Curve(q, points) = Whole(points[Len(points)][2])
           \/ \E i \in 2..Len(points) : On(q, points, i) /\ Curve(q, points) = Segment(points[i - 1], points[i], q)
<1>. DEFINE right == {i \in 2..Len(points) : AtMost(q, Whole(points[i][1]))}
            i == Min(right)
<1>0. Len(points) \in Nat \ {0}
    BY PointsTyped
<1>1. CASE Before(q, points)
    BY <1>1 DEF Before, Curve
<1>2. CASE ~Before(q, points) /\ right = {}
  <2>1. After(q, points)
    <3>1. CASE Len(points) = 1
        BY <1>2, <3>1 DEF Before, After
    <3>2. CASE Len(points) # 1
      <4>1. Len(points) \in 2..Len(points)
        <5>. DEFINE n == Len(points)
        <5>1. n \in Nat \ {0} /\ n # 1
            BY <1>0, <3>2
        <5>. HIDE DEF n
        <5>2. n \in 2..n
            BY <5>1
        <5>. QED
            BY <5>2 DEF n
      <4>. QED
        BY <1>2, <4>1 DEF After
    <3>. QED
        BY <3>1, <3>2
  <2>. QED
    BY <1>2, <2>1 DEF Before, Curve
<1>3. CASE ~Before(q, points) /\ right # {}
  <2>1. right \subseteq Nat
    BY <1>0
  <2>2. i \in right /\ \A k \in right : i <= k
    <3>. HIDE DEF right
    <3>. QED
        BY <1>3, <2>1, MinIsLeast
  <2>3. i \in 2..Len(points) /\ AtMost(q, Whole(points[i][1]))
    BY <2>2
  <2>4. Curve(q, points) = Segment(points[i - 1], points[i], q)
    BY <1>3 DEF Before, Curve, Segment
  <2>. HIDE DEF i
  <2>5. ~AtMost(q, Whole(points[i - 1][1]))
    <3>1. CASE i = 2
        BY <1>3, <3>1 DEF Before
    <3>2. CASE i # 2
      <4>1. i - 1 \in 2..Len(points) /\ ~(i <= i - 1)
        BY <1>0, <2>3, <3>2
      <4>2. i - 1 \notin right
        BY <2>2, <4>1
      <4>. QED
        BY <4>1, <4>2
    <3>. QED
        BY <3>1, <3>2
  <2>. QED
    BY <2>3, <2>4, <2>5 DEF On
<1>. QED
    BY <1>1, <1>2, <1>3

\* On a segment the curve stays between the values of its two points.
LEMMA SegmentBetween ==
    ASSUME NEW points, IsCurve(points), NEW q \in Rational, NEW i \in 2..Len(points), On(q, points, i), NEW up \in BOOLEAN,
           IF up THEN points[i - 1][2] <= points[i][2] ELSE points[i][2] <= points[i - 1][2]
    PROVE  /\ Ordered(up, Whole(points[i - 1][2]), Segment(points[i - 1], points[i], q))
           /\ Ordered(up, Segment(points[i - 1], points[i], q), Whole(points[i][2]))
<1>. DEFINE p0 == points[i - 1]  p1 == points[i]
<1>1. p0 \in Int \X Nat /\ p1 \in Int \X Nat /\ p0[1] < p1[1]
    BY PointsTyped
<1>2. /\ Whole(p0[1]) \in Rational /\ Whole(p1[1]) \in Rational /\ Whole(p0[2]) \in Rational /\ Whole(p1[2]) \in Rational
    BY PointsTyped
<1>3. AtMost(q, Whole(p1[1])) /\ AtMost(Whole(p0[1]), q)
    BY <1>2, AtMostTotal DEF On
<1>. HIDE DEF p0, p1
<1>4. /\ Ordered(up, Segment(p0, p1, Whole(p0[1])), Segment(p0, p1, q))
      /\ Ordered(up, Segment(p0, p1, q), Segment(p0, p1, Whole(p1[1])))
    BY <1>1, <1>2, <1>3, SegmentOrdered DEF p0, p1
<1>5. /\ Segment(p0, p1, Whole(p0[1])) \in Rational /\ Segment(p0, p1, Whole(p1[1])) \in Rational
      /\ Segment(p0, p1, q) \in Rational
    BY <1>1, <1>2, SegmentTyped
<1>6. /\ Same(Segment(p0, p1, Whole(p0[1])), Whole(p0[2]))
      /\ Same(Segment(p0, p1, Whole(p1[1])), Whole(p1[2]))
    BY <1>1, SegmentEnds
<1>7. /\ Ordered(up, Whole(p0[2]), Segment(p0, p1, Whole(p0[1])))
      /\ Ordered(up, Segment(p0, p1, Whole(p1[1])), Whole(p1[2]))
    BY <1>2, <1>5, <1>6, SameIsAtMost DEF Ordered
<1>8. /\ Ordered(up, Whole(p0[2]), Segment(p0, p1, q))
      /\ Ordered(up, Segment(p0, p1, q), Whole(p1[2]))
    BY <1>2, <1>4, <1>5, <1>7, OrderedChains
<1>. QED
    BY <1>8 DEF p0, p1

\* A curve's value is a number that is not negative.
LEMMA CurveTyped ==
    ASSUME NEW points, IsCurve(points), NEW q \in Rational
    PROVE  Curve(q, points) \in Rational /\ Curve(q, points)[1] >= 0
<1>1. \A i \in 1..Len(points) : Whole(points[i][2]) \in Rational /\ Whole(points[i][2])[1] >= 0 /\ points[i][2] \in Nat
    BY PointsTyped, WholeTyped
<1>2. ASSUME NEW i \in 2..Len(points), On(q, points, i)
      PROVE  Segment(points[i - 1], points[i], q) \in Rational /\ Segment(points[i - 1], points[i], q)[1] >= 0
  <2>. DEFINE v == Segment(points[i - 1], points[i], q)  y0 == points[i - 1][2]  y1 == points[i][2]
  <2>1. i \in 1..Len(points) /\ i - 1 \in 1..Len(points) /\ points[i - 1][1] < points[i][1]
        /\ points[i] \in Int \X Nat /\ points[i - 1] \in Int \X Nat
    BY PointsTyped
  <2>2. v \in Rational
    BY <2>1, SegmentTyped
  <2>3. y0 \in Nat /\ y1 \in Nat
    BY <1>1, <2>1
  <2>4. \E y \in Nat : AtMost(Whole(y), v)
    <3>1. CASE y0 <= y1
        BY <1>2, <2>3, <3>1, SegmentBetween DEF Ordered
    <3>2. CASE y1 <= y0
        BY <1>2, <2>3, <3>2, SegmentBetween DEF Ordered
    <3>. QED
        BY <2>3, <3>1, <3>2
  <2>5. PICK y \in Nat : AtMost(Whole(y), v)
    BY <2>4
  <2>. HIDE DEF v
  <2>6. v[1] \in Int /\ v[2] \in Nat \ {0} /\ y * v[2] <= v[1] * 1
    BY <2>2, <2>5, PartsTyped DEF AtMost, Whole
  <2>7. y * v[2] \in Nat
    BY <2>6
  <2>8. v[1] >= 0
    BY <2>6, <2>7
  <2>. QED
    BY <2>2, <2>8 DEF v
<1>3. 1 \in 1..Len(points) /\ Len(points) \in 1..Len(points)
    BY PointsTyped
<1>. QED
    BY <1>1, <1>2, <1>3, CurveCases

\* Theorem: a curve that goes one way keeps the order of any two rationals, or turns it round, whatever
\* its points (curve.ts curve).
THEOREM CurveOrdered ==
    ASSUME NEW points, IsCurve(points), NEW up \in BOOLEAN, OneWay(points, up),
           NEW p \in Rational, NEW q \in Rational, AtMost(p, q)
    PROVE  Ordered(up, Curve(p, points), Curve(q, points))
<1>. DEFINE n == Len(points)
            x(i) == Whole(points[i][1])
            y(i) == Whole(points[i][2])
<1>1. n \in Nat \ {0} /\ 1 \in 1..n /\ n \in 1..n /\ \A i \in 2..n : i \in 1..n /\ i - 1 \in 1..n
    BY PointsTyped
<1>2. \A i \in 1..n : x(i) \in Rational /\ y(i) \in Rational
    BY PointsTyped
<1>3. ASSUME NEW i \in 1..n, NEW j \in 1..n, i <= j PROVE AtMost(x(i), x(j)) /\ Ordered(up, y(i), y(j))
    BY <1>3, PointsOrdered
<1>4. Curve(p, points) \in Rational /\ Curve(q, points) \in Rational
    BY CurveTyped
<1>5. ASSUME NEW i \in 2..n, NEW r \in Rational, On(r, points, i)
      PROVE  Ordered(up, y(i - 1), Segment(points[i - 1], points[i], r)) /\ Ordered(up, Segment(points[i - 1], points[i], r), y(i))
  <2>1. i - 1 \in 1..n /\ i \in 1..n /\ i - 1 < i
    BY <1>1
  <2>2. IF up THEN points[i - 1][2] <= points[i][2] ELSE points[i][2] <= points[i - 1][2]
    BY <2>1 DEF OneWay, Rising, Falling
  <2>. QED
    BY <1>5, <2>2, SegmentBetween
<1>6. ASSUME NEW i \in 1..n, AtMost(q, x(i)) PROVE AtMost(p, x(i))
    BY <1>2, <1>6, AtMostChains
<1>7. CASE Before(p, points) /\ Curve(p, points) = y(1)
  <2>1. CASE Before(q, points) /\ Curve(q, points) = y(1)
    BY <1>1, <1>2, <1>7, <2>1, OrderedReflexive
  <2>2. CASE After(q, points) /\ Curve(q, points) = y(n)
    BY <1>1, <1>3, <1>7, <2>2
  <2>3. CASE \E j \in 2..n : On(q, points, j) /\ Curve(q, points) = Segment(points[j - 1], points[j], q)
    <3>1. PICK j \in 2..n : On(q, points, j) /\ Curve(q, points) = Segment(points[j - 1], points[j], q)
        BY <2>3
    <3>2. Ordered(up, y(j - 1), Curve(q, points))
        BY <1>5, <3>1
    <3>3. j - 1 \in 1..n /\ 1 <= j - 1
        BY <1>1
    <3>4. Ordered(up, y(1), y(j - 1)) /\ y(1) \in Rational /\ y(j - 1) \in Rational
        BY <1>1, <1>2, <1>3, <3>3
    <3>5. Ordered(up, y(1), Curve(q, points))
      <4>. HIDE DEF y
      <4>. QED
        BY <1>4, <3>2, <3>4, OrderedChains
    <3>. QED
        BY <1>7, <3>5
  <2>. QED
    BY <2>1, <2>2, <2>3, CurveCases
<1>8. CASE After(p, points) /\ Curve(p, points) = y(n)
  <2>1. ~AtMost(p, x(n))
    BY <1>8 DEF After
  <2>2. ASSUME NEW i \in 1..n PROVE ~AtMost(q, x(i))
    <3>1. SUFFICES ASSUME AtMost(q, x(i)) PROVE FALSE
        OBVIOUS
    <3>2. AtMost(p, x(i)) /\ AtMost(x(i), x(n)) /\ x(i) \in Rational /\ x(n) \in Rational
        BY <1>1, <1>2, <1>3, <1>6, <3>1
    <3>. HIDE DEF x
    <3>. QED
        BY <2>1, <3>2, AtMostChains
  <2>3. CASE Before(q, points) /\ Curve(q, points) = y(1)
    BY <1>1, <2>2, <2>3 DEF Before
  <2>4. CASE After(q, points) /\ Curve(q, points) = y(n)
    BY <1>1, <1>2, <1>8, <2>4, OrderedReflexive
  <2>5. CASE \E j \in 2..n : On(q, points, j) /\ Curve(q, points) = Segment(points[j - 1], points[j], q)
    BY <1>1, <2>2, <2>5 DEF On
  <2>. QED
    BY <2>3, <2>4, <2>5, CurveCases
<1>9. CASE \E i \in 2..n : On(p, points, i) /\ Curve(p, points) = Segment(points[i - 1], points[i], p)
  <2>1. PICK i \in 2..n : On(p, points, i) /\ Curve(p, points) = Segment(points[i - 1], points[i], p)
    BY <1>9
  <2>2. i \in 1..n /\ i - 1 \in 1..n /\ ~AtMost(p, x(i - 1))
    BY <1>1, <2>1 DEF On
  <2>3. ASSUME NEW j \in 1..n, j <= i - 1 PROVE ~AtMost(q, x(j))
    <3>1. SUFFICES ASSUME AtMost(q, x(j)) PROVE FALSE
        OBVIOUS
    <3>2. AtMost(p, x(j)) /\ AtMost(x(j), x(i - 1)) /\ x(j) \in Rational /\ x(i - 1) \in Rational
        BY <1>2, <1>3, <1>6, <2>2, <2>3, <3>1
    <3>. HIDE DEF x
    <3>. QED
        BY <2>2, <3>2, AtMostChains
  <2>4. Ordered(up, Curve(p, points), y(i)) /\ y(i) \in Rational
    BY <1>2, <1>5, <2>1, <2>2
  <2>5. CASE Before(q, points) /\ Curve(q, points) = y(1)
    <3>1. 1 \in 1..n /\ 1 <= i - 1
        BY <1>1, <2>2
    <3>. QED
        BY <2>3, <2>5, <3>1 DEF Before
  <2>6. CASE After(q, points) /\ Curve(q, points) = y(n)
    <3>1. Ordered(up, y(i), y(n)) /\ y(n) \in Rational
        BY <1>1, <1>2, <1>3, <2>2
    <3>. HIDE DEF y
    <3>. QED
        BY <1>4, <2>4, <2>6, <3>1, OrderedChains
  <2>7. CASE \E j \in 2..n : On(q, points, j) /\ Curve(q, points) = Segment(points[j - 1], points[j], q)
    <3>1. PICK j \in 2..n : On(q, points, j) /\ Curve(q, points) = Segment(points[j - 1], points[j], q)
        BY <2>7
    <3>2. j \in 1..n /\ j - 1 \in 1..n /\ AtMost(q, x(j))
        BY <1>1, <3>1 DEF On
    <3>3. ~(j <= i - 1)
        BY <2>3, <3>2
    <3>4. CASE i = j
      <4>1. points[i] \in Int \X Nat /\ points[i - 1] \in Int \X Nat /\ points[i - 1][1] < points[i][1]
        BY <2>1, PointsTyped
      <4>2. IF up THEN points[i - 1][2] <= points[i][2] ELSE points[i][2] <= points[i - 1][2]
        <5>1. i - 1 < i
            BY <2>2
        <5>. QED
            BY <2>2, <5>1 DEF OneWay, Rising, Falling
      <4>. QED
        BY <2>1, <3>1, <3>4, <4>1, <4>2, SegmentOrdered
    <3>5. CASE i < j
      <4>1. i <= j - 1
        BY <2>2, <3>2, <3>5
      <4>2. Ordered(up, y(i), y(j - 1)) /\ Ordered(up, y(j - 1), Curve(q, points)) /\ y(j - 1) \in Rational
        BY <1>2, <1>3, <1>5, <2>2, <3>1, <3>2, <4>1
      <4>. HIDE DEF y
      <4>3. Ordered(up, y(i), Curve(q, points))
        BY <1>4, <2>4, <4>2, OrderedChains
      <4>. QED
        BY <1>4, <2>4, <4>3, OrderedChains
    <3>. QED
        BY <2>2, <3>2, <3>3, <3>4, <3>5
  <2>. QED
    BY <2>5, <2>6, <2>7, CurveCases
<1>. QED
  <2>1. \/ Before(p, points) /\ Curve(p, points) = y(1)
        \/ After(p, points) /\ Curve(p, points) = y(n)
        \/ \E i \in 2..n : On(p, points, i) /\ Curve(p, points) = Segment(points[i - 1], points[i], p)
    BY CurveCases
  <2>. QED
    BY <1>7, <1>8, <1>9, <2>1

-----------------------------------------------------------------------------
(* Order statistics.                                                       *)

NoMore(values, v) == {i \in DOMAIN values : values[i] <= v}
Less(values, v) == {i \in DOMAIN values : values[i] < v}

\* values is a list of naturals, of any finite set.
Naturals(values) == IsFiniteSet(DOMAIN values) /\ \A i \in DOMAIN values : values[i] \in Nat

\* Counts of a finite list are naturals.
LEMMA Counted ==
    ASSUME NEW values, IsFiniteSet(DOMAIN values), NEW v
    PROVE  /\ IsFiniteSet(NoMore(values, v)) /\ Cardinality(NoMore(values, v)) \in Nat
           /\ IsFiniteSet(Less(values, v)) /\ Cardinality(Less(values, v)) \in Nat
<1>1. NoMore(values, v) \in SUBSET DOMAIN values /\ Less(values, v) \in SUBSET DOMAIN values
    BY DEF NoMore, Less
<1>. QED
    BY <1>1, FS_Subset, FS_CardinalityType

IsNth(values, k, v) == Cardinality(Less(values, v)) < k /\ k <= Cardinality(NoMore(values, v))

\* A finite list of naturals has a bound.
LEMMA FiniteBounded ==
    ASSUME NEW D, IsFiniteSet(D), NEW f, \A i \in D : f[i] \in Nat
    PROVE  \E b \in Nat : \A i \in D : f[i] <= b
<1>. DEFINE S == {n \in Nat : \A E \in SUBSET D : Cardinality(E) = n => \E b \in Nat : \A i \in E : f[i] <= b}
<1>1. \A E \in SUBSET D : IsFiniteSet(E) /\ Cardinality(E) \in Nat
    BY FS_Subset, FS_CardinalityType
<1>2. 0 \in S
  <2>1. \A E \in SUBSET D : Cardinality(E) = 0 => E = {}
    BY <1>1, FS_EmptySet
  <2>. QED
    BY <2>1
<1>3. ASSUME NEW n \in Nat, n \in S PROVE n + 1 \in S
  <2>1. SUFFICES ASSUME NEW E \in SUBSET D, Cardinality(E) = n + 1 PROVE \E b \in Nat : \A i \in E : f[i] <= b
    OBVIOUS
  <2>2. PICK x : x \in E
    BY <1>1, <2>1, FS_EmptySet
  <2>3. E \ {x} \in SUBSET D /\ Cardinality(E \ {x}) = n
    <3>1. Cardinality(E \ {x}) = Cardinality(E) - 1
        BY <1>1, <2>2, FS_RemoveElement
    <3>. QED
        BY <2>1, <3>1
  <2>4. PICK b \in Nat : \A i \in E \ {x} : f[i] <= b
    BY <1>3, <2>3
  <2>5. f[x] \in Nat /\ \A i \in E : f[i] \in Nat
    BY <2>2
  <2>6. CASE f[x] <= b
    BY <2>4, <2>6
  <2>7. CASE b <= f[x]
    BY <2>4, <2>5, <2>7
  <2>. QED
    BY <2>5, <2>6, <2>7
<1>4. S = Nat
  <2>. HIDE DEF S
  <2>1. S \in SUBSET Nat
    BY DEF S
  <2>. QED
    BY <1>2, <1>3, <2>1, SetInduction
<1>5. Cardinality(D) \in S /\ D \in SUBSET D
    BY <1>1, <1>4
<1>. QED
    BY <1>5

\* The k-th smallest of some naturals is there, and one of them.
LEMMA NthExists ==
    ASSUME NEW values, Naturals(values), NEW k \in 1..Cardinality(DOMAIN values)
    PROVE  \E v \in {values[i] : i \in DOMAIN values} : IsNth(values, k, v)
<1>. DEFINE D == DOMAIN values
            S == {v \in Nat : k <= Cardinality(NoMore(values, v))}
<1>0. IsFiniteSet(D) /\ (\A i \in D : values[i] \in Nat) /\ Cardinality(D) \in Nat
    BY FS_CardinalityType DEF Naturals
<1>1. S # {}
  <2>2. PICK b \in Nat : \A i \in D : values[i] <= b
    BY <1>0, FiniteBounded
  <2>3. NoMore(values, b) = D
    BY <2>2 DEF NoMore
  <2>4. k <= Cardinality(D)
    BY <1>0
  <2>. QED
    BY <2>3, <2>4
<1>2. PICK v \in S : \A u \in S : v <= u
  <2>1. S \subseteq Nat
    OBVIOUS
  <2>. HIDE DEF S
  <2>. QED
    BY <1>1, <2>1, LeastExists
<1>3. v \in Nat /\ k <= Cardinality(NoMore(values, v)) /\ k \in Nat \ {0}
    BY <1>0
<1>4. Cardinality(Less(values, v)) < k
  <2>1. CASE v = 0
    <3>1. Less(values, v) = {}
        BY <1>0, <2>1 DEF Less
    <3>. QED
        BY <1>3, <3>1, FS_EmptySet
  <2>2. CASE v # 0
    <3>1. v - 1 \in Nat /\ ~(v <= v - 1)
        BY <1>3, <2>2
    <3>2. v - 1 \notin S
        BY <1>2, <3>1
    <3>3. Less(values, v) = NoMore(values, v - 1)
        BY <1>0, <1>3, <3>1 DEF Less, NoMore
    <3>4. Cardinality(NoMore(values, v - 1)) \in Nat
        BY <1>0, Counted
    <3>5. ~(k <= Cardinality(NoMore(values, v - 1)))
        BY <3>1, <3>2
    <3>. QED
        BY <1>3, <3>3, <3>4, <3>5
  <2>. QED
    BY <2>1, <2>2
<1>5. v \in {values[i] : i \in D}
  <2>1. SUFFICES ASSUME v \notin {values[i] : i \in D} PROVE FALSE
    OBVIOUS
  <2>2. Less(values, v) = NoMore(values, v)
    BY <1>0, <1>3, <2>1 DEF Less, NoMore
  <2>3. Cardinality(NoMore(values, v)) \in Nat
    BY <1>0, Counted
  <2>. QED
    BY <1>3, <1>4, <2>2, <2>3
<1>. QED
    BY <1>3, <1>4, <1>5 DEF IsNth

LEMMA NthTyped ==
    ASSUME NEW values, Naturals(values), NEW k \in 1..Cardinality(DOMAIN values)
    PROVE  Nth(values, k) \in Nat /\ IsNth(values, k, Nth(values, k))
<1>1. \E v \in {values[i] : i \in DOMAIN values} : IsNth(values, k, v)
    BY NthExists
<1>2. Nth(values, k) = CHOOSE v \in {values[i] : i \in DOMAIN values} : IsNth(values, k, v)
    BY DEF Nth, IsNth, Less, NoMore
<1>3. Nth(values, k) \in {values[i] : i \in DOMAIN values} /\ IsNth(values, k, Nth(values, k))
    BY <1>1, <1>2, Zenon
<1>. QED
    BY <1>3 DEF Naturals

\* The k-th smallest of values that are no smaller is no smaller: the median of kicks and parses keeps
\* the order of its runs.
LEMMA NthMonotone ==
    ASSUME NEW f, NEW g, Naturals(f), Naturals(g), DOMAIN f = DOMAIN g, \A i \in DOMAIN f : f[i] <= g[i],
           NEW k \in 1..Cardinality(DOMAIN f)
    PROVE  Nth(f, k) <= Nth(g, k)
<1>. DEFINE u == Nth(f, k)  v == Nth(g, k)
<1>1. u \in Nat /\ v \in Nat /\ Cardinality(Less(f, u)) < k /\ k <= Cardinality(NoMore(g, v))
    BY NthTyped DEF IsNth
<1>2. SUFFICES ASSUME v < u PROVE FALSE
    BY <1>1
<1>. HIDE DEF u, v
<1>3. IsFiniteSet(Less(f, u)) /\ Cardinality(Less(f, u)) \in Nat /\ Cardinality(NoMore(g, v)) \in Nat
    BY Counted DEF Naturals
<1>4. NoMore(g, v) \subseteq Less(f, u)
    BY <1>1, <1>2 DEF NoMore, Less, Naturals
<1>5. Cardinality(NoMore(g, v)) <= Cardinality(Less(f, u))
    BY <1>3, <1>4, FS_Subset
<1>6. k \in Nat
    BY FS_CardinalityType DEF Naturals
<1>. QED
    BY <1>1, <1>3, <1>5, <1>6

\* ... and so is their median (signals/peers.ts median).
LEMMA MedianMonotone ==
    ASSUME NEW f, NEW g, Naturals(f), Naturals(g), DOMAIN f = DOMAIN g, \A i \in DOMAIN f : f[i] <= g[i],
           DOMAIN f # {}
    PROVE  Median(f) \in Rational /\ Median(g) \in Rational /\ AtMost(Median(f), Median(g))
<1>. DEFINE n == Cardinality(DOMAIN f)  m == n \div 2
<1>1. n \in Nat \ {0}
    BY FS_CardinalityType, FS_EmptySet DEF Naturals
<1>2. ASSUME NEW k \in 1..n PROVE Nth(f, k) \in Nat /\ Nth(g, k) \in Nat /\ Nth(f, k) <= Nth(g, k)
    BY NthTyped, NthMonotone
<1>3. Cardinality(DOMAIN g) = n
    OBVIOUS
<1>4. CASE n % 2 = 1
  <2>1. m + 1 \in 1..n
    <3>. HIDE DEF n
    <3>. QED
        BY <1>1, <1>4
  <2>2. Median(f) = Whole(Nth(f, m + 1)) /\ Median(g) = Whole(Nth(g, m + 1))
    BY <1>3, <1>4 DEF Median
  <2>. QED
    BY <1>2, <2>1, <2>2, WholeTyped, WholeAtMost
<1>5. CASE n % 2 # 1
  <2>1. m \in 1..n /\ m + 1 \in 1..n
    <3>. HIDE DEF n
    <3>. QED
        BY <1>1, <1>5
  <2>2. /\ Median(f) = <<Nth(f, m) + Nth(f, m + 1), 2>>
        /\ Median(g) = <<Nth(g, m) + Nth(g, m + 1), 2>>
    BY <1>3, <1>5 DEF Median
  <2>. DEFINE a == Nth(f, m)  b == Nth(f, m + 1)  c == Nth(g, m)  d == Nth(g, m + 1)
  <2>3. a \in Nat /\ b \in Nat /\ c \in Nat /\ d \in Nat /\ a <= c /\ b <= d
    BY <1>2, <2>1
  <2>. HIDE DEF a, b, c, d
  <2>4. (a + b) * 2 <= (c + d) * 2 /\ a + b \in Int /\ c + d \in Int
    BY <2>3
  <2>5. Median(f) = <<a + b, 2>> /\ Median(g) = <<c + d, 2>>
    BY <2>2 DEF a, b, c, d
  <2>. QED
    BY <2>4, <2>5 DEF Rational, AtMost
<1>. QED
    BY <1>4, <1>5

-----------------------------------------------------------------------------
(* What the runs tell.                                                     *)

RunRecord == [signals : BOOLEAN, level : Nat, deaths : Nat, kick : Int, control : Int, parse : Nat]

\* The sources, the axes and the configuration, spelt out.
LEMMA SourceNames ==
    Source = {"individualDeaths", "kicksAbsolute", "crowdControl", "medianParse", "parseAtTarget"}
<1>1. \A a \in Axis : SourcesOf[a] \subseteq {"individualDeaths", "kicksAbsolute", "crowdControl", "medianParse", "parseAtTarget"}
    BY DEF Axis, SourcesOf
<1>2. /\ "survival" \in Axis /\ "individualDeaths" \in SourcesOf["survival"]
      /\ "utility" \in Axis /\ "kicksAbsolute" \in SourcesOf["utility"] /\ "crowdControl" \in SourcesOf["utility"]
      /\ "throughput" \in Axis /\ "medianParse" \in SourcesOf["throughput"] /\ "parseAtTarget" \in SourcesOf["throughput"]
    BY DEF Axis, SourcesOf
<1>. QED
    BY <1>1, <1>2 DEF Source

LEMMA ConfigTyped ==
    /\ \A s \in Source : Weight[s] \in Nat /\ Shrinkage[s] \in Nat /\ Reference[s] \in Int /\ IsCurve(CurveOf[s])
    /\ \A a \in AnyAxis : AxisWeight[a] \in Nat
    /\ IsCurve(LevelScale) /\ IsCurve(GlobalCurve) /\ OneWay(GlobalCurve, TRUE)
    BY ConfigValid DEF OneWay

\* A list of runs and what is read of it: the runs with signals, those a source was measured on.
LEMMA SignalsTyped ==
    ASSUME NEW rs \in Seq(RunRecord)
    PROVE  /\ Len(rs) \in Nat /\ DOMAIN rs = 1..Len(rs)
           /\ \A i \in DOMAIN rs : rs[i] \in RunRecord
           /\ \A i \in DOMAIN rs : /\ rs[i].signals \in BOOLEAN /\ rs[i].level \in Nat /\ rs[i].deaths \in Nat
                                   /\ rs[i].kick \in Int /\ rs[i].control \in Int /\ rs[i].parse \in Nat
<1>1. Len(rs) \in Nat /\ DOMAIN rs = 1..Len(rs) /\ \A i \in DOMAIN rs : rs[i] \in RunRecord
    OBVIOUS
<1>. QED
    BY <1>1 DEF RunRecord

LEMMA MeasuredTyped ==
    ASSUME NEW rs \in Seq(RunRecord), NEW s \in Source
    PROVE  /\ Measured(rs, s) \subseteq DOMAIN rs /\ IsFiniteSet(Measured(rs, s))
           /\ Cardinality(Measured(rs, s)) \in Nat
           /\ Has(rs, s) => Cardinality(Measured(rs, s)) > 0
<1>1. Measured(rs, s) \subseteq DOMAIN rs
    BY SourceNames DEF Measured, Signals, Kicked, Controlled, Ranked, AtTarget
<1>2. IsFiniteSet(DOMAIN rs)
    BY SignalsTyped, FS_Interval
<1>3. IsFiniteSet(Measured(rs, s))
    BY <1>1, <1>2, FS_Subset
<1>4. Cardinality(Measured(rs, s)) \in Nat /\ (Cardinality(Measured(rs, s)) = 0 <=> Measured(rs, s) = {})
    BY <1>3, FS_CardinalityType, FS_EmptySet
<1>. QED
    BY <1>1, <1>3, <1>4 DEF Has

\* The field whose median a source is.
Field(rs, s) ==
    CASE s = "kicksAbsolute" -> [i \in Kicked(rs) |-> rs[i].kick]
      [] s = "crowdControl" -> [i \in Controlled(rs) |-> rs[i].control]
      [] s = "medianParse" -> [i \in Ranked(rs) |-> rs[i].parse]
      [] s = "parseAtTarget" -> [i \in AtTarget(rs) |-> rs[i].parse]

\* The fields a source reads of those runs are naturals.
LEMMA FieldTyped ==
    ASSUME NEW rs \in Seq(RunRecord), NEW s \in Source \ {"individualDeaths"}
    PROVE  /\ Naturals(Field(rs, s)) /\ DOMAIN Field(rs, s) = Measured(rs, s)
           /\ Value(rs, s) = Median(Field(rs, s))
<1>1. IsFiniteSet(Measured(rs, s))
    BY MeasuredTyped
<1>2. s \in {"kicksAbsolute", "crowdControl", "medianParse", "parseAtTarget"}
    BY SourceNames
<1>3. Value(rs, s) = Median(Field(rs, s)) /\ DOMAIN Field(rs, s) = Measured(rs, s)
    BY <1>2 DEF Value, Field, Measured
<1>4. \A i \in Measured(rs, s) : Field(rs, s)[i] \in Nat
    BY <1>2, SignalsTyped DEF Field, Measured, Signals, Kicked, Controlled, Ranked, AtTarget
<1>. QED
    BY <1>1, <1>3, <1>4 DEF Naturals

\* Deaths by level, their mean, and every value and input of a source are rationals.
LEMMA LevelDeathsTyped ==
    ASSUME NEW r \in RunRecord
    PROVE  LevelDeaths(r) \in Rational
<1>1. r.level \in Int /\ r.deaths \in Int
    BY DEF RunRecord
<1>2. Whole(r.level) \in Rational
    BY <1>1, WholeTyped
<1>3. Curve(Whole(r.level), LevelScale) \in Rational
    BY <1>2, ConfigTyped, CurveTyped
<1>. QED
    BY <1>1, <1>3, ScaledTyped DEF LevelDeaths

Deaths(rs) == [i \in DOMAIN rs |-> IF i \in Signals(rs) THEN LevelDeaths(rs[i]) ELSE Whole(0)]

LEMMA DeathsTyped ==
    ASSUME NEW rs \in Seq(RunRecord)
    PROVE  /\ \A i \in 1..Len(rs) : Deaths(rs)[i] \in Rational
           /\ Total(Deaths(rs), Len(rs)) \in Rational
           /\ MeanDeaths(rs) = Divided(Total(Deaths(rs), Len(rs)), Whole(Cardinality(Signals(rs))))
<1>1. ASSUME NEW i \in 1..Len(rs) PROVE Deaths(rs)[i] \in Rational
  <2>1. i \in DOMAIN rs /\ rs[i] \in RunRecord
    BY SignalsTyped
  <2>2. LevelDeaths(rs[i]) \in Rational /\ Whole(0) \in Rational
    BY <2>1, LevelDeathsTyped, WholeTyped
  <2>. QED
    BY <2>1, <2>2 DEF Deaths
<1>2. Total(Deaths(rs), Len(rs)) \in Rational
    BY <1>1, SignalsTyped, TotalTyped
<1>. QED
    BY <1>1, <1>2 DEF MeanDeaths, Deaths

LEMMA ValueTyped ==
    ASSUME NEW rs \in Seq(RunRecord), NEW s \in Source, Has(rs, s)
    PROVE  Value(rs, s) \in Rational
<1>1. CASE s = "individualDeaths"
  <2>. DEFINE n == Cardinality(Signals(rs))
  <2>1. n \in Nat /\ n > 0
    BY <1>1, MeasuredTyped DEF Measured
  <2>2. Whole(n) \in Rational /\ Whole(n)[1] > 0
    BY <2>1, WholeTyped
  <2>3. MeanDeaths(rs) \in Rational
    BY <2>2, DeathsTyped, DividedTyped
  <2>. QED
    BY <1>1, <2>3 DEF Value
<1>2. CASE s # "individualDeaths"
  <2>1. Naturals(Field(rs, s)) /\ DOMAIN Field(rs, s) # {} /\ Value(rs, s) = Median(Field(rs, s))
    BY <1>2, FieldTyped DEF Has
  <2>2. \A i \in DOMAIN Field(rs, s) : Field(rs, s)[i] <= Field(rs, s)[i]
    BY <2>1 DEF Naturals
  <2>. QED
    BY <2>1, <2>2, MedianMonotone
<1>. QED
    BY <1>1, <1>2

LEMMA ShrunkTyped ==
    ASSUME NEW q \in Rational, NEW n \in Nat \ {0}, NEW s \in Source
    PROVE  Shrunk(q, n, s) \in Rational
<1>. DEFINE k == Shrinkage[s]  r == Reference[s]
<1>1. k \in Nat /\ r \in Int /\ k * r \in Int /\ n + k \in Int /\ n + k > 0
    BY ConfigTyped
<1>2. Whole(k * r) \in Rational /\ Whole(n + k) \in Rational /\ Whole(n + k)[1] > 0
    BY <1>1, WholeTyped
<1>3. Plus(Scaled(n, q), Whole(k * r)) \in Rational
    BY <1>2, ScaledTyped, PlusTyped
<1>. QED
    BY <1>2, <1>3, DividedTyped DEF Shrunk

\* The pull toward the reference keeps the order of two values of as many runs.
LEMMA ShrunkMonotone ==
    ASSUME NEW p \in Rational, NEW q \in Rational, AtMost(p, q), NEW n \in Nat \ {0}, NEW s \in Source
    PROVE  AtMost(Shrunk(p, n, s), Shrunk(q, n, s))
<1>. DEFINE k == Shrinkage[s]  r == Reference[s]
<1>1. k \in Nat /\ r \in Int /\ k * r \in Int /\ n + k \in Int /\ n + k > 0
    BY ConfigTyped
<1>2. Whole(k * r) \in Rational /\ Whole(n + k) \in Rational /\ Whole(n + k)[1] > 0
    BY <1>1, WholeTyped
<1>3. Scaled(n, p) \in Rational /\ Scaled(n, q) \in Rational /\ AtMost(Scaled(n, p), Scaled(n, q))
    BY ScaledTyped, ScaledMonotone
<1>4. /\ Plus(Scaled(n, p), Whole(k * r)) \in Rational /\ Plus(Scaled(n, q), Whole(k * r)) \in Rational
      /\ AtMost(Plus(Scaled(n, p), Whole(k * r)), Plus(Scaled(n, q), Whole(k * r)))
    BY <1>2, <1>3, PlusTyped, PlusMonotone, AtMostReflexive
<1>. QED
    BY <1>2, <1>4, DividedMonotone DEF Shrunk

LEMMA InputTyped ==
    ASSUME NEW rs \in Seq(RunRecord), NEW s \in Source, NEW as
    PROVE  InputOf(rs, s, as) \in Rational
<1>1. Whole(Reference[s]) \in Rational
    BY ConfigTyped, WholeTyped
<1>2. ASSUME Has(rs, s) PROVE Shrunk(Value(rs, s), Cardinality(Measured(rs, s)), s) \in Rational
    BY <1>2, MeasuredTyped, ValueTyped, ShrunkTyped
<1>. QED
    BY <1>1, <1>2 DEF InputOf

LEMMA SubScoreTyped ==
    ASSUME NEW rs \in Seq(RunRecord), NEW s \in Source, NEW as
    PROVE  SubScore(rs, s, as) \in Rational /\ SubScore(rs, s, as)[1] >= 0
    BY InputTyped, ConfigTyped, CurveTyped DEF SubScore

-----------------------------------------------------------------------------
(* Axes and the number.                                                    *)

\* The lists in whose order the sums are added up.
LEMMA SourceList ==
    /\ Len(Sources) = 5 /\ DOMAIN Sources = 1..5
    /\ Sources[1] = "individualDeaths" /\ Sources[2] = "kicksAbsolute" /\ Sources[3] = "crowdControl"
    /\ Sources[4] = "medianParse" /\ Sources[5] = "parseAtTarget"
    /\ \A i \in 1..5 : Sources[i] \in Source
    BY SourceNames DEF Sources

LEMMA AxisList ==
    /\ Len(Axes) = 5 /\ DOMAIN Axes = 1..5
    /\ \A i \in 1..5 : Axes[i] \in AnyAxis
    BY DEF Axes, Axis, AnyAxis

\* A sum of naturals is a natural, and no less than any of them.
LEMMA WholeTotal ==
    ASSUME NEW n \in Nat, NEW v, NEW u, \A i \in 1..n : u[i] \in Nat /\ v[i] = Whole(u[i])
    PROVE  \E d \in Nat : Total(v, n) = Whole(d) /\ \A i \in 1..n : u[i] <= d
<1>. DEFINE S == {m \in Nat : m <= n => \E d \in Nat : Total(v, m) = Whole(d) /\ \A i \in 1..m : u[i] <= d}
<1>1. 0 \in S
    BY TotalEmpty
<1>2. ASSUME NEW m \in Nat, m \in S PROVE m + 1 \in S
  <2>1. SUFFICES ASSUME m + 1 <= n
                 PROVE  \E d \in Nat : Total(v, m + 1) = Whole(d) /\ \A i \in 1..m + 1 : u[i] <= d
    OBVIOUS
  <2>2. m <= n /\ m + 1 \in 1..n /\ \A i \in 1..m : i \in 1..n
    BY <2>1
  <2>3. PICK d \in Nat : Total(v, m) = Whole(d) /\ \A i \in 1..m : u[i] <= d
    BY <1>2, <2>2
  <2>4. u[m + 1] \in Nat /\ v[m + 1] = Whole(u[m + 1])
    BY <2>2
  <2>5. Total(v, m + 1) = Whole(d + u[m + 1])
    <3>1. Total(v, m + 1) = Plus(Whole(d), Whole(u[m + 1]))
        BY <2>3, <2>4, TotalAdds
    <3>. QED
        BY <3>1 DEF Plus, Whole
  <2>6. d + u[m + 1] \in Nat
    BY <2>4
  <2>7. ASSUME NEW i \in 1..m + 1 PROVE u[i] <= d + u[m + 1]
    <3>1. CASE i = m + 1
        BY <2>4, <3>1
    <3>2. CASE i \in 1..m
      <4>1. u[i] <= d /\ u[i] \in Nat
        BY <2>2, <2>3, <3>2
      <4>. QED
        BY <2>4, <4>1
    <3>. QED
        BY <3>1, <3>2
  <2>. QED
    BY <2>5, <2>6, <2>7
<1>3. S = Nat
  <2>. HIDE DEF S
  <2>1. S \in SUBSET Nat
    BY DEF S
  <2>. QED
    BY <1>1, <1>2, <2>1, SetInduction
<1>. QED
    BY <1>3

\* What some sources weigh.
LEMMA WeightTyped ==
    ASSUME NEW srcs \in SUBSET Source
    PROVE  \E w \in Nat : WeightOf(srcs) = Whole(w) /\ \A s \in srcs : Weight[s] <= w
<1>. DEFINE u == [i \in 1..5 |-> IF Sources[i] \in srcs THEN Weight[Sources[i]] ELSE 0]
            v == [i \in DOMAIN Sources |-> IF Sources[i] \in srcs THEN Whole(Weight[Sources[i]]) ELSE Whole(0)]
<1>1. \A i \in 1..5 : u[i] \in Nat /\ v[i] = Whole(u[i])
    BY SourceList, ConfigTyped
<1>2. WeightOf(srcs) = Total(v, 5)
    BY SourceList DEF WeightOf, TotalOf
<1>3. PICK w \in Nat : Total(v, 5) = Whole(w) /\ \A i \in 1..5 : u[i] <= w
  <2>. HIDE DEF u, v
  <2>. QED
    BY <1>1, WholeTotal
<1>4. ASSUME NEW s \in srcs PROVE Weight[s] <= w
  <2>1. PICK i \in 1..5 : Sources[i] = s
    BY SourceList, SourceNames
  <2>. QED
    BY <1>3, <2>1
<1>. QED
    BY <1>2, <1>3, <1>4

\* What contributes is scored, and weighs something.
LEMMA ScoredTyped ==
    ASSUME NEW rs, NEW a \in Axis
    PROVE  /\ Contributing(rs, a) \subseteq Scored(rs, a) /\ Scored(rs, a) \subseteq Source \ PillarOnly
           /\ \A s \in Scored(rs, a) : Weight[s] \in Nat /\ Weight[s] > 0
<1>1. Scored(rs, a) \subseteq Source \ PillarOnly /\ \A s \in Scored(rs, a) : Weight[s] > 0
    BY DEF Scored, Applies, Source
<1>. QED
    BY <1>1, ConfigTyped DEF Contributing

\* The weight an axis is divided by is positive when something of it was measured (axis.ts:80).
LEMMA DenTyped ==
    ASSUME NEW rs, NEW a \in Axis, Contributing(rs, a) # {}
    PROVE  \E w \in Nat \ {0} : Den(rs, a) = Whole(w)
<1>1. Scored(rs, a) \in SUBSET Source /\ \E s \in Scored(rs, a) : Weight[s] > 0 /\ Weight[s] \in Nat
    BY ScoredTyped
<1>2. PICK w \in Nat : WeightOf(Scored(rs, a)) = Whole(w) /\ \A s \in Scored(rs, a) : Weight[s] <= w
    BY <1>1, WeightTyped
<1>3. w # 0
    BY <1>1, <1>2
<1>. QED
    BY <1>2, <1>3 DEF Den

Terms(rs, srcs, as) ==
    [i \in DOMAIN Sources |-> IF Sources[i] \in srcs THEN Scaled(Weight[Sources[i]], SubScore(rs, Sources[i], as)) ELSE Whole(0)]

\* The weighed sub-scores of some sources, term by term, are rationals that are not negative.
LEMMA TermsTyped ==
    ASSUME NEW rs \in Seq(RunRecord), NEW srcs, NEW as
    PROVE  /\ \A i \in 1..5 : Terms(rs, srcs, as)[i] \in Rational /\ AtMost(Whole(0), Terms(rs, srcs, as)[i])
           /\ Weighed(rs, srcs, as) = Total(Terms(rs, srcs, as), 5)
           /\ Weighed(rs, srcs, as) \in Rational /\ AtMost(Whole(0), Weighed(rs, srcs, as))
<1>. DEFINE t == Terms(rs, srcs, as)
            zero == [i \in 1..5 |-> Whole(0)]
<1>1. Whole(0) \in Rational /\ AtMost(Whole(0), Whole(0))
    BY WholeTyped, AtMostReflexive
<1>2. ASSUME NEW i \in 1..5 PROVE t[i] \in Rational /\ AtMost(Whole(0), t[i])
  <2>. DEFINE w == Weight[Sources[i]]  x == SubScore(rs, Sources[i], as)
  <2>1. i \in DOMAIN Sources /\ w \in Nat /\ x \in Rational /\ x[1] >= 0
    BY SourceList, ConfigTyped, SubScoreTyped
  <2>2. t[i] = IF Sources[i] \in srcs THEN Scaled(w, x) ELSE Whole(0)
    BY <2>1 DEF Terms
  <2>. HIDE DEF w, x
  <2>3. Scaled(w, x) \in Rational
    BY <2>1, ScaledTyped
  <2>4. AtMost(Scaled(0, x), Scaled(w, x)) /\ Scaled(0, x) = <<0, x[2]>> /\ x[2] \in Nat \ {0}
    <3>1. 0 \in Nat /\ 0 <= w
        BY <2>1
    <3>2. AtMost(Scaled(0, x), Scaled(w, x))
        BY <2>1, <3>1, ScaledBy
    <3>3. x[1] \in Int /\ x[2] \in Nat \ {0}
        BY <2>1, PartsTyped
    <3>4. 0 * x[1] = 0
        BY <3>3
    <3>. QED
        BY <3>2, <3>3, <3>4 DEF Scaled
  <2>5. Same(Whole(0), Scaled(0, x)) /\ Scaled(0, x) \in Rational
    BY <2>1, <2>4, ScaledTyped DEF Same, Whole
  <2>6. AtMost(Whole(0), Scaled(w, x))
    BY <1>1, <2>3, <2>4, <2>5, SameIsAtMost, AtMostChains
  <2>. QED
    BY <1>1, <2>2, <2>3, <2>6
<1>3. Weighed(rs, srcs, as) = Total(t, 5)
    BY SourceList DEF Weighed, TotalOf, Terms
<1>. HIDE DEF t
<1>4. Total(t, 5) \in Rational
    BY <1>2, TotalTyped
<1>5. AtMost(Total(zero, 5), Total(t, 5))
  <2>1. \A i \in 1..5 : zero[i] \in Rational /\ AtMost(zero[i], t[i])
    BY <1>1, <1>2
  <2>. HIDE DEF zero
  <2>. QED
    BY <1>2, <2>1, TotalMonotone
<1>6. Total(zero, 5) = Whole(0)
  <2>. DEFINE u == [i \in 1..5 |-> 0]
  <2>0. \A i \in 1..5 : zero[i] = Whole(0)
    OBVIOUS
  <2>. HIDE DEF zero
  <2>1. Plus(Whole(0), Whole(0)) = Whole(0)
    BY DEF Plus, Whole
  <2>2. Total(zero, 1) = Whole(0)
    <3>1. Total(zero, 0 + 1) = Plus(Total(zero, 0), zero[0 + 1]) /\ 0 + 1 = 1
        BY TotalAdds
    <3>2. 1 \in 1..5 /\ Total(zero, 0) = Whole(0)
        BY TotalEmpty
    <3>. QED
        BY <2>0, <2>1, <3>1, <3>2
  <2>3. Total(zero, 2) = Whole(0)
    BY <2>0, <2>1, <2>2, TotalAdds
  <2>4. Total(zero, 3) = Whole(0)
    BY <2>0, <2>1, <2>3, TotalAdds
  <2>5. Total(zero, 4) = Whole(0)
    BY <2>0, <2>1, <2>4, TotalAdds
  <2>. QED
    BY <2>0, <2>1, <2>5, TotalAdds
<1>7. AtMost(Whole(0), Total(t, 5))
    BY <1>5, <1>6
<1>. QED
    BY <1>2, <1>3, <1>4, <1>7 DEF t

\* What is not negative stays so.
LEMMA RoundedNotNegative == ASSUME NEW q \in Rational, AtMost(Whole(0), q) PROVE Rounded(q) \in Nat
<1>1. Rounded(Whole(0)) = 0
    BY DEF Rounded, Whole
<1>2. Rounded(Whole(0)) <= Rounded(q) /\ Rounded(q) \in Int
    BY WholeTyped, RoundedMonotone, RoundedBounds
<1>. QED
    BY <1>1, <1>2

LEMMA DividedNotNegative ==
    ASSUME NEW q \in Rational, AtMost(Whole(0), q), NEW w \in Nat \ {0}
    PROVE  Divided(q, Whole(w)) \in Rational /\ AtMost(Whole(0), Divided(q, Whole(w)))
<1>1. Whole(w) \in Rational /\ Whole(w)[1] > 0 /\ Whole(0) \in Rational
    BY WholeTyped
<1>2. Divided(q, Whole(w)) \in Rational
    BY <1>1, DividedTyped
<1>3. q[1] \in Int /\ q[2] \in Nat \ {0} /\ q[1] >= 0
    BY PartsTyped DEF AtMost, Whole
<1>4. Divided(q, Whole(w))[1] >= 0 /\ Divided(q, Whole(w))[1] \in Int
    BY <1>3 DEF Divided, Whole
<1>. QED
    BY <1>2, <1>4, PartsTyped DEF AtMost, Whole

\* An axis has a score when something of it was measured, a natural.
LEMMA AxisScoreTyped ==
    ASSUME NEW rs \in Seq(RunRecord), NEW a \in Axis, NEW as
    PROVE  /\ Contributing(rs, a) = {} => AxisScore(rs, a, as) = NoScore
           /\ Contributing(rs, a) # {} => AxisScore(rs, a, as) \in Nat
           /\ (AxisScore(rs, a, as) # NoScore) <=> (Contributing(rs, a) # {})
<1>1. Contributing(rs, a) = {} => AxisScore(rs, a, as) = NoScore
    BY DEF AxisScore
<1>2. ASSUME Contributing(rs, a) # {} PROVE AxisScore(rs, a, as) \in Nat
  <2>1. PICK w \in Nat \ {0} : Den(rs, a) = Whole(w)
    BY <1>2, DenTyped
  <2>2. /\ Divided(Weighed(rs, Scored(rs, a), as), Whole(w)) \in Rational
        /\ AtMost(Whole(0), Divided(Weighed(rs, Scored(rs, a), as), Whole(w)))
    BY TermsTyped, DividedNotNegative
  <2>. QED
    BY <1>2, <2>1, <2>2, RoundedNotNegative DEF AxisScore
<1>3. NoScore \notin Nat
    BY DEF NoScore
<1>. QED
    BY <1>1, <1>2, <1>3

NoneLower(rs, rt, as, at) ==
    \A s \in Source \ PillarOnly : AtMost(SubScore(rs, s, as), SubScore(rt, s, at))
Alike(rs, rt) == \A a \in Axis : Scored(rs, a) = Scored(rt, a) /\ Contributing(rs, a) = Contributing(rt, a)

\* An axis none of whose sub-scores is lower has no lower score (axis.ts scoreAxis).
LEMMA AxisScoreMonotone ==
    ASSUME NEW rs \in Seq(RunRecord), NEW rt \in Seq(RunRecord), NEW as, NEW at,
           Alike(rs, rt), NoneLower(rs, rt, as, at), NEW a \in Axis
    PROVE  AxisScore(rs, a, as) <= AxisScore(rt, a, at)
<1>. DEFINE S == Scored(rs, a)
<1>1. Scored(rt, a) = S /\ Contributing(rs, a) = Contributing(rt, a) /\ S \subseteq Source \ PillarOnly
    BY ScoredTyped DEF Alike
<1>2. CASE Contributing(rs, a) = {}
    BY <1>1, <1>2 DEF AxisScore, NoScore
<1>3. CASE Contributing(rs, a) # {}
  <2>. DEFINE p == Weighed(rs, S, as)  q == Weighed(rt, S, at)
  <2>1. PICK w \in Nat \ {0} : Den(rs, a) = Whole(w)
    BY <1>3, DenTyped
  <2>2. Den(rt, a) = Whole(w)
    BY <1>1, <2>1 DEF Den
  <2>3. AxisScore(rs, a, as) = Rounded(Divided(p, Whole(w))) /\ AxisScore(rt, a, at) = Rounded(Divided(q, Whole(w)))
    BY <1>1, <1>3, <2>1, <2>2 DEF AxisScore
  <2>4. p \in Rational /\ q \in Rational
    BY TermsTyped
  <2>5. AtMost(p, q)
    <3>. DEFINE f == Terms(rs, S, as)  g == Terms(rt, S, at)
    <3>1. p = Total(f, 5) /\ q = Total(g, 5)
        BY TermsTyped
    <3>2. ASSUME NEW i \in 1..5 PROVE f[i] \in Rational /\ g[i] \in Rational /\ AtMost(f[i], g[i])
      <4>. DEFINE s == Sources[i]
      <4>1. f[i] \in Rational /\ g[i] \in Rational
        BY TermsTyped
      <4>2. i \in DOMAIN Sources /\ s \in Source /\ Weight[s] \in Nat
        BY SourceList, ConfigTyped
      <4>3. CASE s \in S
        <5>1. AtMost(SubScore(rs, s, as), SubScore(rt, s, at))
            BY <1>1, <4>3 DEF NoneLower
        <5>2. f[i] = Scaled(Weight[s], SubScore(rs, s, as)) /\ g[i] = Scaled(Weight[s], SubScore(rt, s, at))
            BY <4>2, <4>3 DEF Terms
        <5>3. SubScore(rs, s, as) \in Rational /\ SubScore(rt, s, at) \in Rational
            BY <4>2, SubScoreTyped
        <5>. HIDE DEF f, g, s
        <5>. QED
            BY <4>1, <4>2, <5>1, <5>2, <5>3, ScaledMonotone
      <4>4. CASE s \notin S
        <5>1. f[i] = Whole(0) /\ g[i] = Whole(0)
            BY <4>2, <4>4 DEF Terms
        <5>. QED
            BY <5>1, WholeTyped, AtMostReflexive
      <4>. QED
        BY <4>1, <4>3, <4>4
    <3>. HIDE DEF f, g, p, q
    <3>3. AtMost(Total(f, 5), Total(g, 5))
        BY <3>2, TotalMonotone
    <3>. QED
        BY <3>1, <3>3
  <2>6. Whole(w) \in Rational /\ Whole(w)[1] > 0
    BY WholeTyped
  <2>. HIDE DEF p, q
  <2>7. /\ Divided(p, Whole(w)) \in Rational /\ Divided(q, Whole(w)) \in Rational
        /\ AtMost(Divided(p, Whole(w)), Divided(q, Whole(w)))
    BY <2>4, <2>5, <2>6, DividedTyped, DividedMonotone
  <2>. QED
    BY <2>3, <2>7, RoundedMonotone
<1>. QED
    BY <1>2, <1>3

\* The two sums of the number, over the axes that have a score.
With(rs) ==
    {a \in Axis : Contributing(rs, a) # {}} \union {a \in AnyAxis \ Axis : Score(rs, a, {}) # NoScore}
Shares(rs) == [i \in DOMAIN Axes |-> IF Axes[i] \in With(rs) THEN Whole(AxisWeight[Axes[i]]) ELSE Whole(0)]
Parts(rs, as) ==
    [i \in DOMAIN Axes |-> IF Axes[i] \in With(rs) THEN Whole(AxisWeight[Axes[i]] * Score(rs, Axes[i], as)) ELSE Whole(0)]

\* Which axes have a score does not depend on the sources taken as the average player's.
LEMMA ScoreTyped ==
    ASSUME NEW rs \in Seq(RunRecord), NEW as, NEW a \in AnyAxis
    PROVE  /\ a \in With(rs) => Score(rs, a, as) \in Nat /\ Score(rs, a, as) # NoScore
           /\ a \notin With(rs) => Score(rs, a, as) = NoScore
<1>1. CASE a \in Axis
  <2>1. Score(rs, a, as) = AxisScore(rs, a, as) /\ (a \in With(rs) <=> Contributing(rs, a) # {})
    BY <1>1 DEF Score, With, Axis
  <2>2. Contributing(rs, a) = {} => AxisScore(rs, a, as) = NoScore
    BY <1>1, AxisScoreTyped
  <2>3. Contributing(rs, a) # {} => AxisScore(rs, a, as) \in Nat /\ AxisScore(rs, a, as) # NoScore
    BY <1>1, AxisScoreTyped DEF NoScore
  <2>. QED
    BY <2>1, <2>2, <2>3
<1>2. CASE a \notin Axis
  <2>1. a = "consistency" \/ a = "preparation"
    BY <1>2 DEF AnyAxis
  <2>2. Score(rs, a, as) = Score(rs, a, {}) /\ (a \in With(rs) <=> Score(rs, a, {}) # NoScore)
    BY <1>2, <2>1 DEF Score, With
  <2>3. Score(rs, a, {}) \in Nat \union {NoScore}
    <3>1. SpreadScore(rs) \in Nat \union {NoScore}
        BY DEF SpreadScore
    <3>2. Prepared \in Nat \union {NoScore}
        BY ConfigValid
    <3>. QED
        BY <2>1, <3>1, <3>2 DEF Score
  <2>. QED
    BY <2>2, <2>3 DEF NoScore
<1>. QED
    BY <1>1, <1>2

\* The runs leave the consistency axis as it is, or it has no weight.
Steady(rs, rt) == AxisWeight["consistency"] = 0 \/ SpreadScore(rs) = SpreadScore(rt)

\* The number is a curve of the quotient of two sums over the axes that have a score (global.ts).
LEMMA GlobalParts ==
    ASSUME NEW rs \in Seq(RunRecord), NEW as
    PROVE  /\ Global(rs, as) = IF Total(Shares(rs), 5) = Whole(0) THEN NoScore
                               ELSE Rounded(Curve(Divided(Total(Parts(rs, as), 5), Total(Shares(rs), 5)), GlobalCurve))
           /\ \A i \in 1..5 : Parts(rs, as)[i] \in Rational
           /\ Total(Parts(rs, as), 5) \in Rational
           /\ \E d \in Nat : Total(Shares(rs), 5) = Whole(d)
<1>1. With(rs) = {a \in AnyAxis : Score(rs, a, as) # NoScore}
  <2>1. With(rs) \subseteq AnyAxis
    BY DEF With, AnyAxis
  <2>. QED
    BY <2>1, ScoreTyped
<1>2. Global(rs, as) = IF Total(Shares(rs), 5) = Whole(0) THEN NoScore
                       ELSE Rounded(Curve(Divided(Total(Parts(rs, as), 5), Total(Shares(rs), 5)), GlobalCurve))
    BY <1>1, AxisList DEF Global, TotalOf, Shares, Parts
<1>3. ASSUME NEW i \in 1..5 PROVE Parts(rs, as)[i] \in Rational
  <2>. DEFINE a == Axes[i]  x == Score(rs, a, as)
  <2>1. a \in AnyAxis /\ i \in DOMAIN Axes /\ AxisWeight[a] \in Nat
    BY AxisList, ConfigTyped
  <2>2. CASE a \in With(rs)
    <3>1. x \in Nat
        BY <2>1, <2>2, ScoreTyped
    <3>2. AxisWeight[a] * x \in Int
      <4>. DEFINE w == AxisWeight[a]
      <4>1. w \in Nat /\ x \in Nat
        BY <2>1, <3>1
      <4>. HIDE DEF w, x
      <4>2. w * x \in Int
        BY <4>1
      <4>. QED
        BY <4>2 DEF w, x
    <3>3. Parts(rs, as)[i] = Whole(AxisWeight[a] * x)
        BY <2>1, <2>2 DEF Parts
    <3>. QED
        BY <3>2, <3>3, WholeTyped
  <2>3. CASE a \notin With(rs)
    <3>1. Parts(rs, as)[i] = Whole(0)
        BY <2>1, <2>3 DEF Parts
    <3>. QED
        BY <3>1, WholeTyped
  <2>. QED
    BY <2>2, <2>3
<1>4. Total(Parts(rs, as), 5) \in Rational
    BY <1>3, TotalTyped
<1>5. \E d \in Nat : Total(Shares(rs), 5) = Whole(d)
  <2>. DEFINE u == [i \in 1..5 |-> IF Axes[i] \in With(rs) THEN AxisWeight[Axes[i]] ELSE 0]
  <2>1. \A i \in 1..5 : u[i] \in Nat /\ Shares(rs)[i] = Whole(u[i])
    BY AxisList, ConfigTyped DEF Shares
  <2>. HIDE DEF u
  <2>2. \E d \in Nat : Total(Shares(rs), 5) = Whole(d) /\ \A i \in 1..5 : u[i] <= d
    BY <2>1, WholeTotal
  <2>. QED
    BY <2>2
<1>. QED
    BY <1>2, <1>3, <1>4, <1>5

\* The number is an integer, NoScore included.
LEMMA GlobalTyped ==
    ASSUME NEW rs \in Seq(RunRecord), NEW as
    PROVE  Global(rs, as) \in Int
<1>1. PICK d \in Nat : Total(Shares(rs), 5) = Whole(d)
    BY GlobalParts
<1>. DEFINE n == Total(Parts(rs, as), 5)
<1>2. CASE d = 0
  <2>1. Global(rs, as) = NoScore
    BY <1>1, <1>2, GlobalParts
  <2>. QED
    BY <2>1 DEF NoScore
<1>3. CASE d # 0
  <2>1. Whole(d) \in Rational /\ Whole(d)[1] > 0 /\ Whole(d) # Whole(0)
    BY <1>3, WholeTyped DEF Whole
  <2>2. n \in Rational
    BY GlobalParts
  <2>. HIDE DEF n
  <2>3. Divided(n, Whole(d)) \in Rational
    BY <2>1, <2>2, DividedTyped
  <2>4. Curve(Divided(n, Whole(d)), GlobalCurve) \in Rational
    BY <2>3, ConfigTyped, CurveTyped
  <2>5. Global(rs, as) = Rounded(Curve(Divided(n, Whole(d)), GlobalCurve))
    BY <1>1, <2>1, GlobalParts DEF n
  <2>. QED
    BY <2>4, <2>5, RoundedBounds
<1>. QED
    BY <1>2, <1>3

\* Theorem: a player with as much measured, none of whose sub-scores is lower and whose consistency is the
\* same or has no weight has no lower number, for any runs, weights and curves (global.ts finalGlobal).
THEOREM GlobalMonotone ==
    ASSUME NEW rs \in Seq(RunRecord), NEW rt \in Seq(RunRecord), NEW as, NEW at,
           Alike(rs, rt), NoneLower(rs, rt, as, at), Steady(rs, rt)
    PROVE  Global(rs, as) <= Global(rt, at)
<1>1. PICK d \in Nat : Total(Shares(rs), 5) = Whole(d)
    BY GlobalParts
<1>2. ASSUME NEW a \in AnyAxis
      PROVE  \/ a \in With(rt) <=> a \in With(rs)
             \/ AxisWeight[a] = 0
  <2>1. CASE a \in Axis
    BY <2>1 DEF Alike, With
  <2>2. CASE a = "consistency"
    BY <2>2 DEF Steady, With, Score, Axis
  <2>3. CASE a = "preparation"
    BY <2>3 DEF With, Score, Axis
  <2>. QED
    BY <2>1, <2>2, <2>3 DEF AnyAxis
<1>3. Total(Shares(rt), 5) = Whole(d)
  <2>1. \A i \in DOMAIN Axes : Shares(rt)[i] = Shares(rs)[i]
    <3>. SUFFICES ASSUME NEW i \in DOMAIN Axes PROVE Shares(rt)[i] = Shares(rs)[i]
        OBVIOUS
    <3>1. Axes[i] \in AnyAxis
        BY AxisList
    <3>2. (Axes[i] \in With(rt) <=> Axes[i] \in With(rs)) \/ AxisWeight[Axes[i]] = 0
        BY <1>2, <3>1
    <3>. QED
        BY <3>2 DEF Shares
  <2>2. Shares(rt) = Shares(rs)
    BY <2>1 DEF Shares
  <2>. QED
    BY <1>1, <2>2
<1>. DEFINE p == Total(Parts(rs, as), 5)  q == Total(Parts(rt, at), 5)
<1>4. CASE d = 0
  <2>1. Global(rs, as) = NoScore /\ Global(rt, at) = NoScore
    BY <1>1, <1>3, <1>4, GlobalParts
  <2>. QED
    BY <2>1 DEF NoScore
<1>5. CASE d # 0
  <2>1. Whole(d) \in Rational /\ Whole(d)[1] > 0 /\ Whole(d) # Whole(0)
    BY <1>5, WholeTyped DEF Whole
  <2>2. p \in Rational /\ q \in Rational
    BY GlobalParts
  <2>3. AtMost(p, q)
    <3>. DEFINE f == Parts(rs, as)  g == Parts(rt, at)
    <3>1. ASSUME NEW i \in 1..5 PROVE f[i] \in Rational /\ g[i] \in Rational /\ AtMost(f[i], g[i])
      <4>. DEFINE a == Axes[i]  x == Score(rs, a, as)  y == Score(rt, a, at)  w == AxisWeight[a]
      <4>1. f[i] \in Rational /\ g[i] \in Rational
        BY GlobalParts
      <4>2. a \in AnyAxis /\ i \in DOMAIN Axes /\ w \in Nat
        BY AxisList, ConfigTyped
      <4>3. /\ a \in With(rs) => x \in Nat /\ f[i] = Whole(w * x)
            /\ a \notin With(rs) => f[i] = Whole(0)
            /\ a \in With(rt) => y \in Nat /\ g[i] = Whole(w * y)
            /\ a \notin With(rt) => g[i] = Whole(0)
        BY <4>2, ScoreTyped DEF Parts
      <4>4. CASE w = 0
        <5>1. f[i] = Whole(0) /\ g[i] = Whole(0)
          <6>. HIDE DEF f, g, x, y, w, a
          <6>1. (x \in Nat => w * x = 0) /\ (y \in Nat => w * y = 0)
            BY <4>4
          <6>. QED
            BY <4>3, <6>1
        <5>. HIDE DEF f, g
        <5>. QED
            BY <4>1, <5>1, AtMostReflexive
      <4>5. CASE a \in With(rs) /\ a \in With(rt) /\ w # 0
        <5>1. x \in Nat /\ y \in Nat /\ f[i] = Whole(w * x) /\ g[i] = Whole(w * y)
            BY <4>3, <4>5
        <5>2. x <= y
          <6>1. CASE a \in Axis
            <7>1. Score(rs, a, as) = AxisScore(rs, a, as) /\ Score(rt, a, at) = AxisScore(rt, a, at)
                BY <6>1 DEF Score, Axis
            <7>2. AxisScore(rs, a, as) <= AxisScore(rt, a, at)
                BY <6>1, AxisScoreMonotone
            <7>. QED
                BY <7>1, <7>2
          <6>2. CASE a \notin Axis
            <7>1. a = "consistency" \/ a = "preparation"
                BY <4>2, <6>2 DEF AnyAxis
            <7>2. x = y
                BY <4>5, <7>1 DEF Score, Steady
            <7>. HIDE DEF x, y
            <7>. QED
                BY <5>1, <7>2
          <6>. QED
            BY <6>1, <6>2
        <5>. HIDE DEF f, g, x, y, w
        <5>3. w * x <= w * y /\ w * x \in Int /\ w * y \in Int
          <6>1. x * w <= y * w
            BY <4>2, <5>1, <5>2, TimesMonotone
          <6>. QED
            BY <4>2, <5>1, <6>1
        <5>. QED
            BY <4>1, <5>1, <5>3, WholeAtMost
      <4>6. CASE a \notin With(rs) /\ a \notin With(rt)
        <5>. HIDE DEF f, g
        <5>. QED
            BY <4>1, <4>3, <4>6, AtMostReflexive
      <4>7. w = 0 \/ (a \in With(rs) <=> a \in With(rt))
        BY <1>2, <4>2
      <4>. QED
        BY <4>4, <4>5, <4>6, <4>7
    <3>. HIDE DEF f, g
    <3>2. AtMost(Total(f, 5), Total(g, 5))
        BY <3>1, TotalMonotone
    <3>. QED
        BY <3>2 DEF f, g
  <2>. DEFINE u == Divided(p, Whole(d))  v == Divided(q, Whole(d))
  <2>4. u \in Rational /\ v \in Rational /\ AtMost(u, v)
    <3>. HIDE DEF p, q
    <3>. QED
        BY <2>1, <2>2, <2>3, DividedTyped, DividedMonotone
  <2>5. Global(rs, as) = Rounded(Curve(u, GlobalCurve)) /\ Global(rt, at) = Rounded(Curve(v, GlobalCurve))
    BY <1>1, <1>3, <2>1, GlobalParts
  <2>. HIDE DEF u, v
  <2>6. Ordered(TRUE, Curve(u, GlobalCurve), Curve(v, GlobalCurve))
    BY <2>4, ConfigTyped, CurveOrdered
  <2>7. Curve(u, GlobalCurve) \in Rational /\ Curve(v, GlobalCurve) \in Rational
    BY <2>4, ConfigTyped, CurveTyped
  <2>. QED
    BY <2>5, <2>6, <2>7, RoundedMonotone DEF Ordered
<1>. QED
    BY <1>4, <1>5

-----------------------------------------------------------------------------
(* The states of the component.                                            *)

\* Theorem: what collectInputs is given is always a list of at most MaxRuns runs, whatever is played.
THEOREM RunsTyped == EvaluationSpec => []EvaluationTypeOK
<1>1. EvaluationInit => EvaluationTypeOK
    BY EvaluationConstants DEF EvaluationInit, EvaluationTypeOK
<1>2. EvaluationTypeOK /\ [EvaluationNext]_runs => EvaluationTypeOK'
  <2>1. SUFFICES ASSUME EvaluationTypeOK, [EvaluationNext]_runs PROVE EvaluationTypeOK'
    OBVIOUS
  <2>2. CASE EvaluationNext
    <3>1. PICK r \in RunKind : Len(runs) < MaxRuns /\ runs' = Append(runs, r)
        BY <2>2 DEF EvaluationNext, Play
    <3>2. runs \in Seq(RunKind)
        BY <2>1 DEF EvaluationTypeOK
    <3>3. runs' \in Seq(RunKind) /\ Len(runs') = Len(runs) + 1 /\ Len(runs) \in Nat
        BY <3>1, <3>2
    <3>. QED
        BY <3>1, <3>3, EvaluationConstants DEF EvaluationTypeOK
  <2>3. CASE UNCHANGED runs
    BY <2>1, <2>3 DEF EvaluationTypeOK
  <2>. QED
    BY <2>1, <2>2, <2>3
<1>. QED
    BY <1>1, <1>2, PTL DEF EvaluationSpec

\* Those runs have the fields the operators read.
LEMMA RecordsOfRuns == EvaluationTypeOK => runs \in Seq(RunRecord)
<1>1. SUFFICES ASSUME runs \in Seq(RunKind) PROVE runs \in Seq(RunRecord)
    BY DEF EvaluationTypeOK
<1>2. RunKind \subseteq RunRecord
    BY EvaluationConstants DEF RunRecord
<1>3. \A i \in 1..Len(runs) : runs[i] \in RunRecord
    BY <1>1, <1>2
<1>. QED
    BY <1>1, <1>3

-----------------------------------------------------------------------------
(* The path to the next verdict.                                           *)

\* Of the sources taken as the average player's, a sub-score only sees its own.
LEMMA SubScoreOwn ==
    ASSUME NEW rs, NEW s, NEW as, NEW at, s \in as <=> s \in at
    PROVE  SubScore(rs, s, as) = SubScore(rs, s, at)
    BY DEF SubScore, InputOf

LEMMA AlikeItself == ASSUME NEW rs PROVE Alike(rs, rs) /\ Steady(rs, rs)
    BY DEF Alike, Steady

\* What costs points alone costs none beside the others.
LEMMA CostCosts ==
    ASSUME NEW rs \in Seq(RunRecord), NEW s \in Source, NEW as, Global(rs, {}) < Global(rs, {s})
    PROVE  Global(rs, as) <= Global(rs, as \union {s})
<1>1. AtMost(SubScore(rs, s, {}), SubScore(rs, s, {s}))
  <2>1. SUFFICES ASSUME ~AtMost(SubScore(rs, s, {}), SubScore(rs, s, {s})) PROVE FALSE
    OBVIOUS
  <2>2. AtMost(SubScore(rs, s, {s}), SubScore(rs, s, {}))
    BY <2>1, SubScoreTyped, AtMostTotal
  <2>3. NoneLower(rs, rs, {s}, {})
    <3>1. SUFFICES ASSUME NEW t \in Source \ PillarOnly PROVE AtMost(SubScore(rs, t, {s}), SubScore(rs, t, {}))
        BY DEF NoneLower
    <3>2. CASE t = s
        BY <2>2, <3>2
    <3>3. CASE t # s
      <4>1. SubScore(rs, t, {s}) = SubScore(rs, t, {})
        BY <3>3, SubScoreOwn
      <4>. QED
        BY <4>1, SubScoreTyped, AtMostReflexive
    <3>. QED
        BY <3>2, <3>3
  <2>4. Global(rs, {s}) <= Global(rs, {})
    BY <2>3, AlikeItself, GlobalMonotone
  <2>. QED
    BY <2>4, GlobalTyped
<1>2. NoneLower(rs, rs, as, as \union {s})
  <2>1. SUFFICES ASSUME NEW t \in Source \ PillarOnly PROVE AtMost(SubScore(rs, t, as), SubScore(rs, t, as \union {s}))
    BY DEF NoneLower
  <2>2. CASE t = s /\ s \notin as
    <3>1. SubScore(rs, t, as) = SubScore(rs, s, {}) /\ SubScore(rs, t, as \union {s}) = SubScore(rs, s, {s})
      <4>. DEFINE at == as \union {s}  none == {}  one == {s}
      <4>1. (s \in as <=> s \in none) /\ (s \in at <=> s \in one)
        BY <2>2
      <4>. HIDE DEF at, none, one
      <4>2. SubScore(rs, s, as) = SubScore(rs, s, none) /\ SubScore(rs, s, at) = SubScore(rs, s, one)
        BY <4>1, SubScoreOwn
      <4>. QED
        BY <2>2, <4>2 DEF at, none, one
    <3>. QED
        BY <1>1, <3>1
  <2>3. CASE t # s \/ s \in as
    <3>1. SubScore(rs, t, as) = SubScore(rs, t, as \union {s})
      <4>. DEFINE at == as \union {s}
      <4>1. t \in as <=> t \in at
        BY <2>3
      <4>. HIDE DEF at
      <4>2. SubScore(rs, t, as) = SubScore(rs, t, at)
        BY <4>1, SubScoreOwn
      <4>. QED
        BY <4>2 DEF at
    <3>. QED
        BY <3>1, SubScoreTyped, AtMostReflexive
  <2>. QED
    BY <2>2, <2>3
<1>. QED
    BY <1>2, AlikeItself, GlobalMonotone

\* The costs of the drivers are measured sources, and each of them raises the number when it is brought
\* to the average (drivers.ts scoreDrivers).
LEMMA CostsTyped ==
    ASSUME NEW rs \in Seq(RunRecord)
    PROVE  LET impact == Impacts(rs) IN
           /\ Costs(impact) \subseteq Source /\ IsFiniteSet(Costs(impact))
           /\ \A s \in Costs(impact) : Global(rs, {}) < Global(rs, {s})
<1>. DEFINE impact == Impacts(rs)
<1>1. DOMAIN impact = UNION {Contributing(rs, a) : a \in Axis}
    BY DEF Impacts
<1>2. DOMAIN impact \subseteq Source
    BY <1>1, ScoredTyped
<1>3. \A s \in DOMAIN impact : impact[s] = Global(rs, {}) - Global(rs, {s})
    BY DEF Impacts
<1>4. Costs(impact) \subseteq Source /\ \A s \in Costs(impact) : s \in DOMAIN impact /\ impact[s] < 0
    BY <1>2 DEF Costs
<1>5. IsFiniteSet(Source)
  <2>1. IsFiniteSet({"individualDeaths"})
    BY FS_Singleton
  <2>2. IsFiniteSet({"individualDeaths"} \union {"kicksAbsolute"})
    BY <2>1, FS_AddElement
  <2>3. IsFiniteSet({"individualDeaths"} \union {"kicksAbsolute"} \union {"crowdControl"})
    BY <2>2, FS_AddElement
  <2>4. IsFiniteSet({"individualDeaths"} \union {"kicksAbsolute"} \union {"crowdControl"} \union {"medianParse"})
    BY <2>3, FS_AddElement
  <2>5. IsFiniteSet({"individualDeaths"} \union {"kicksAbsolute"} \union {"crowdControl"} \union {"medianParse"} \union {"parseAtTarget"})
    BY <2>4, FS_AddElement
  <2>6. Source = {"individualDeaths"} \union {"kicksAbsolute"} \union {"crowdControl"} \union {"medianParse"} \union {"parseAtTarget"}
    BY SourceNames
  <2>. QED
    BY <2>5, <2>6
<1>6. IsFiniteSet(Costs(impact))
    BY <1>4, <1>5, FS_Subset
<1>7. \A s \in Costs(impact) : Global(rs, {}) < Global(rs, {s})
    BY <1>3, <1>4, GlobalTyped
<1>. QED
    BY <1>4, <1>6, <1>7

\* A path names such costs.
LEMMA PathTyped ==
    ASSUME NEW rs \in Seq(RunRecord), NEW path \in Paths(Impacts(rs))
    PROVE  /\ Len(path) \in Nat
           /\ \A n \in 1..Len(path) : path[n] \in Source /\ Global(rs, {}) < Global(rs, {path[n]})
<1>. DEFINE costs == Costs(Impacts(rs))
            length == Min({PathMax, Cardinality(costs)})
<1>1. costs \subseteq Source /\ IsFiniteSet(costs) /\ \A s \in costs : Global(rs, {}) < Global(rs, {s})
    BY CostsTyped
<1>2. length \in Nat
  <2>1. Cardinality(costs) \in Nat
    BY <1>1, FS_CardinalityType
  <2>. DEFINE both == {PathMax, Cardinality(costs)}
  <2>2. both \subseteq Nat /\ both # {}
    BY <2>1 DEF PathMax
  <2>. HIDE DEF both
  <2>3. Min(both) \in both
    BY <2>2, MinIsLeast
  <2>. QED
    BY <2>2, <2>3 DEF both
<1>3. path \in [1..length -> costs]
    BY DEF Paths
<1>. HIDE DEF length, costs
<1>4. path \in Seq(costs) /\ Len(path) = length
    BY <1>2, <1>3
<1>. QED
    BY <1>1, <1>2, <1>3, <1>4

\* Of a finite set, what costs most.
LEMMA FiniteLeast ==
    ASSUME NEW D, IsFiniteSet(D), D # {}, NEW f, \A i \in D : f[i] \in Int
    PROVE  \E x \in D : \A y \in D : f[x] <= f[y]
<1>. DEFINE S == {n \in Nat : \A F \in SUBSET D : Cardinality(F) = n /\ F # {} => \E x \in F : \A y \in F : f[x] <= f[y]}
<1>1. \A F \in SUBSET D : IsFiniteSet(F) /\ Cardinality(F) \in Nat
    BY FS_Subset, FS_CardinalityType
<1>2. 0 \in S
  <2>1. \A F \in SUBSET D : Cardinality(F) = 0 => F = {}
    BY <1>1, FS_EmptySet
  <2>. QED
    BY <2>1
<1>3. ASSUME NEW n \in Nat, n \in S PROVE n + 1 \in S
  <2>1. SUFFICES ASSUME NEW F \in SUBSET D, Cardinality(F) = n + 1, F # {} PROVE \E x \in F : \A y \in F : f[x] <= f[y]
    OBVIOUS
  <2>2. PICK z : z \in F
    BY <2>1
  <2>3. F \ {z} \in SUBSET D /\ Cardinality(F \ {z}) = n
    <3>1. Cardinality(F \ {z}) = Cardinality(F) - 1
        BY <1>1, <2>2, FS_RemoveElement
    <3>. QED
        BY <2>1, <3>1
  <2>4. \A y \in F : f[y] \in Int
    OBVIOUS
  <2>5. CASE F \ {z} = {}
    <3>1. \A y \in F : y = z
        BY <2>5
    <3>. QED
        BY <2>2, <2>4, <3>1
  <2>6. CASE F \ {z} # {}
    <3>1. PICK x \in F \ {z} : \A y \in F \ {z} : f[x] <= f[y]
        BY <1>3, <2>3, <2>6
    <3>2. CASE f[x] <= f[z]
        BY <3>1, <3>2
    <3>3. CASE f[z] <= f[x]
      <4>1. \A y \in F : f[z] <= f[y]
        BY <2>2, <2>4, <3>1, <3>3
      <4>. QED
        BY <2>2, <4>1
    <3>. QED
        BY <2>2, <2>4, <3>2, <3>3
  <2>. QED
    BY <2>5, <2>6
<1>4. S = Nat
  <2>. HIDE DEF S
  <2>1. S \in SUBSET Nat
    BY DEF S
  <2>. QED
    BY <1>2, <1>3, <2>1, SetInduction
<1>5. Cardinality(D) \in S /\ D \in SUBSET D
    BY <1>1, <1>4
<1>. QED
    BY <1>5

PathUpTo(impact, costs, path, n) ==
    /\ path \in [1..n -> costs]
    /\ \A m \in 1..n : /\ path[m] \in costs \ {path[i] : i \in 1..m - 1}
                       /\ \A s \in costs \ {path[i] : i \in 1..m - 1} : impact[path[m]] <= impact[s]

\* A path shorter than the costs can be made longer by the costliest of the rest.
LEMMA PathGrows ==
    ASSUME NEW costs, IsFiniteSet(costs), NEW impact, \A s \in costs : impact[s] \in Int,
           NEW n \in Nat, n < Cardinality(costs), NEW path, PathUpTo(impact, costs, path, n)
    PROVE  \E longer : PathUpTo(impact, costs, longer, n + 1)
<1>. DEFINE used == {path[i] : i \in 1..n}
<1>1. path \in [1..n -> costs]
    BY DEF PathUpTo
<1>2. path \in Surjection(1..n, used)
    BY <1>1 DEF Surjection
<1>3. IsFiniteSet(1..n) /\ Cardinality(1..n) = n
    BY FS_Interval
<1>4. IsFiniteSet(used) /\ Cardinality(used) <= n /\ Cardinality(used) \in Nat
  <2>. HIDE DEF used
  <2>. QED
    BY <1>2, <1>3, FS_Surjection, FS_CardinalityType
<1>5. costs \ used # {}
  <2>1. SUFFICES ASSUME costs \subseteq used PROVE FALSE
    OBVIOUS
  <2>2. Cardinality(costs) <= Cardinality(used)
    <3>. HIDE DEF used
    <3>. QED
        BY <1>4, <2>1, FS_Subset
  <2>3. Cardinality(costs) \in Nat
    BY FS_CardinalityType
  <2>. HIDE DEF used
  <2>. QED
    BY <1>4, <2>2, <2>3
<1>6. PICK x \in costs \ used : \A s \in costs \ used : impact[x] <= impact[s]
  <2>. DEFINE rest == costs \ used
  <2>1. rest \in SUBSET costs /\ rest # {} /\ \A s \in rest : impact[s] \in Int
    BY <1>5
  <2>. HIDE DEF rest
  <2>2. IsFiniteSet(rest)
    BY <2>1, FS_Subset
  <2>3. \E x \in rest : \A s \in rest : impact[x] <= impact[s]
    BY <2>1, <2>2, FiniteLeast
  <2>. QED
    BY <2>3 DEF rest
<1>. DEFINE longer == [i \in 1..n + 1 |-> IF i = n + 1 THEN x ELSE path[i]]
<1>7. longer \in [1..n + 1 -> costs]
    BY <1>1
<1>8. longer[n + 1] = x /\ \A i \in 1..n : longer[i] = path[i]
    OBVIOUS
<1>. HIDE DEF longer
<1>9. \A m \in 1..n + 1 : {longer[i] : i \in 1..m - 1} = {path[i] : i \in 1..m - 1}
  <2>1. \A m \in 1..n + 1 : \A i \in 1..m - 1 : i \in 1..n
    OBVIOUS
  <2>. QED
    BY <1>8, <2>1
<1>10. ASSUME NEW m \in 1..n + 1
       PROVE  /\ longer[m] \in costs \ {longer[i] : i \in 1..m - 1}
              /\ \A s \in costs \ {longer[i] : i \in 1..m - 1} : impact[longer[m]] <= impact[s]
  <2>1. CASE m = n + 1
    <3>1. m - 1 = n /\ {longer[i] : i \in 1..m - 1} = used
        BY <1>9, <2>1
    <3>. HIDE DEF used
    <3>. QED
        BY <1>6, <1>8, <2>1, <3>1
  <2>2. CASE m \in 1..n
    BY <1>8, <1>9, <2>2 DEF PathUpTo
  <2>. QED
    BY <2>1, <2>2
<1>. QED
    BY <1>7, <1>10 DEF PathUpTo

\* Theorem: for any runs there is a path of the drivers, of three costs or of all: what PathClimbs says is
\* never said of no path (drivers.ts:24-29).
THEOREM PathThere ==
    ASSUME NEW rs \in Seq(RunRecord)
    PROVE  Paths(Impacts(rs)) # {}
<1>. DEFINE impact == Impacts(rs)
            costs == Costs(impact)
            length == Min({PathMax, Cardinality(costs)})
            S == {n \in Nat : n <= length => \E path : PathUpTo(impact, costs, path, n)}
<1>1. IsFiniteSet(costs) /\ Cardinality(costs) \in Nat
    BY CostsTyped, FS_CardinalityType
<1>2. length \in Nat /\ length <= Cardinality(costs)
  <2>. DEFINE both == {PathMax, Cardinality(costs)}
  <2>1. both \subseteq Nat /\ both # {} /\ Cardinality(costs) \in both
    BY <1>1 DEF PathMax
  <2>. HIDE DEF both
  <2>2. Min(both) \in both /\ \A k \in both : Min(both) <= k
    BY <2>1, MinIsLeast
  <2>. QED
    BY <2>1, <2>2 DEF both
<1>3. \A s \in costs : impact[s] \in Int
  <2>1. \A s \in DOMAIN impact : impact[s] = Global(rs, {}) - Global(rs, {s})
    BY DEF Impacts
  <2>2. costs \subseteq DOMAIN impact
    BY DEF Costs
  <2>. SUFFICES ASSUME NEW s \in costs PROVE impact[s] \in Int
    OBVIOUS
  <2>3. impact[s] = Global(rs, {}) - Global(rs, {s})
    <3>. HIDE DEF impact, costs
    <3>. QED
        BY <2>1, <2>2
  <2>4. Global(rs, {}) \in Int /\ Global(rs, {s}) \in Int
    BY GlobalTyped
  <2>. HIDE DEF impact, costs
  <2>. QED
    BY <2>3, <2>4
<1>. HIDE DEF impact, costs, length
<1>4. 0 \in S
  <2>1. PathUpTo(impact, costs, [i \in 1..0 |-> 0], 0)
    BY DEF PathUpTo
  <2>. QED
    BY <2>1
<1>5. ASSUME NEW n \in Nat, n \in S PROVE n + 1 \in S
  <2>1. SUFFICES ASSUME n + 1 <= length PROVE \E path : PathUpTo(impact, costs, path, n + 1)
    OBVIOUS
  <2>2. n <= length /\ n < Cardinality(costs)
    BY <1>1, <1>2, <2>1
  <2>3. PICK path : PathUpTo(impact, costs, path, n)
    BY <1>5, <2>2
  <2>. QED
    BY <1>1, <1>3, <2>2, <2>3, PathGrows
<1>6. S = Nat
  <2>. HIDE DEF S
  <2>1. S \in SUBSET Nat
    BY DEF S
  <2>. QED
    BY <1>4, <1>5, <2>1, SetInduction
<1>. HIDE DEF S
<1>7. length \in S /\ length <= length
    BY <1>2, <1>6
<1>8. PICK path : PathUpTo(impact, costs, path, length)
    BY <1>7 DEF S
<1>9. path \in Paths(impact)
    BY <1>8 DEF Paths, PathUpTo, costs, length
<1>. QED
    BY <1>9 DEF impact

\* A score that reaches the next threshold has another verdict (evaluate.ts verdictFor).
LEMMA VerdictCases ==
    ASSUME NEW rs \in Seq(RunRecord), NEW g \in Int, NEW h \in Int, Verdict(rs, g) \in {"pass", "maybe"},
           h >= IF Verdict(rs, g) = "pass" THEN Maybe ELSE Invite
    PROVE  Verdict(rs, h) # Verdict(rs, g)
<1>1. Maybe \in Nat /\ Invite \in Nat /\ Maybe <= Invite
    BY EvaluationConstants
<1>2. g # NoScore /\ ~(Cardinality(Signals(rs)) < MinRuns)
    BY DEF Verdict
<1>3. h # NoScore
    BY <1>1 DEF NoScore
<1>4. CASE Verdict(rs, g) = "pass"
  <2>1. h >= Maybe
    BY <1>4
  <2>2. Verdict(rs, h) \in {"invite", "maybe"}
    BY <1>2, <1>3, <2>1 DEF Verdict
  <2>. QED
    BY <1>4, <2>2
<1>5. CASE Verdict(rs, g) = "maybe"
  <2>1. h >= Invite
    BY <1>5
  <2>2. Verdict(rs, h) = "invite"
    BY <1>2, <1>3, <2>1 DEF Verdict
  <2>. QED
    BY <1>5, <2>2
<1>. QED
    BY <1>4, <1>5

\* Each step of a path is one cost more at the average, which CostCosts says lowers nothing.
LEMMA PathsClimb == EvaluationTypeOK => PathClimbs
<1>1. SUFFICES ASSUME EvaluationTypeOK, NEW path \in Paths(Impacts(runs)) PROVE ClimbsFrom(PathScores(runs, path))
    BY DEF PathClimbs
<1>2. runs \in Seq(RunRecord)
    BY <1>1, RecordsOfRuns
<1>. DEFINE len == Len(path)
            upTo(n) == {path[i] : i \in 1..n}
            scores == PathScores(runs, path)
            verdict == Verdict(runs, scores[0])
            next == NextVerdict(runs, scores)
<1>3. len \in Nat /\ \A n \in 1..len : path[n] \in Source /\ Global(runs, {}) < Global(runs, {path[n]})
    BY <1>2, PathTyped
<1>4. DOMAIN scores = 0..len /\ \A n \in 0..len : scores[n] = Global(runs, upTo(n)) /\ scores[n] \in Int
    BY <1>2, GlobalTyped DEF PathScores
<1>5. upTo(0) = {} /\ upTo(1) = {path[1]}
    OBVIOUS
<1>6. ASSUME NEW n \in 1..len PROVE scores[n] >= scores[n - 1]
  <2>1. n - 1 \in 0..len /\ n \in 0..len
    BY <1>3
  <2>2. upTo(n) = upTo(n - 1) \union {path[n]}
    <3>1. 1..n = (1..n - 1) \union {n}
        BY <1>3
    <3>. QED
        BY <3>1
  <2>3. path[n] \in Source /\ Global(runs, {}) < Global(runs, {path[n]})
    BY <1>3
  <2>. HIDE DEF upTo, scores
  <2>4. Global(runs, upTo(n - 1)) <= Global(runs, upTo(n - 1) \union {path[n]})
    BY <1>2, <2>3, CostCosts
  <2>. QED
    BY <1>4, <2>1, <2>2, <2>4
<1>7. ASSUME len # 0 PROVE scores[1] > scores[0]
  <2>1. 1 \in 1..len /\ 1 \in 0..len /\ 0 \in 0..len
    BY <1>3, <1>7
  <2>2. scores[0] = Global(runs, {}) /\ scores[1] = Global(runs, {path[1]})
    BY <1>4, <1>5, <2>1
  <2>3. Global(runs, {}) < Global(runs, {path[1]})
    BY <1>3, <2>1
  <2>. QED
    BY <1>4, <2>1, <2>2, <2>3
<1>8. ASSUME verdict \in {"pass", "maybe"}, next.reachable PROVE Verdict(runs, next.score) # verdict
  <2>. DEFINE reached == {n \in DOMAIN scores \ {0} : scores[n] >= NextThreshold(runs)}
              n == Min(reached)
  <2>1. reached # {}
    BY <1>8 DEF NextVerdict
  <2>2. reached \subseteq Nat
    BY <1>3, <1>4
  <2>3. n \in reached
    <3>. HIDE DEF reached
    <3>. QED
        BY <2>1, <2>2, MinIsLeast
  <2>4. next.score = scores[n]
    BY <2>1 DEF NextVerdict
  <2>5. n \in 0..len /\ scores[n] >= NextThreshold(runs)
    BY <1>4, <2>3
  <2>6. scores[0] = Global(runs, {}) /\ scores[0] \in Int /\ scores[n] \in Int
    BY <1>3, <1>4, <1>5, <2>5
  <2>7. NextThreshold(runs) = IF verdict = "pass" THEN Maybe ELSE Invite
    BY <2>6 DEF NextThreshold
  <2>. HIDE DEF n, scores
  <2>8. Verdict(runs, scores[n]) # Verdict(runs, scores[0])
    BY <1>2, <1>8, <2>5, <2>6, <2>7, VerdictCases
  <2>. QED
    BY <2>4, <2>8
<1>9. Climbs(scores, verdict, next)
  <2>1. SUFFICES ASSUME verdict \in {"pass", "maybe"}, DOMAIN scores # {0}
                 PROVE  /\ \A n \in DOMAIN scores \ {0} : scores[n] >= scores[n - 1]
                        /\ scores[1] > scores[0]
                        /\ next.reachable => Verdict(runs, next.score) # verdict
    BY DEF Climbs
  <2>2. len # 0
    BY <1>4, <2>1
  <2>3. \A n \in DOMAIN scores \ {0} : n \in 1..len
    BY <1>3, <1>4
  <2>. QED
    BY <1>6, <1>7, <1>8, <2>1, <2>2, <2>3
<1>. QED
    BY <1>9 DEF ClimbsFrom

\* Theorem: for any runs and any valid configuration, every signal of the path to the next verdict adds to
\* what those before it bring, the first its own impact, and a path said to reach the next verdict
\* reaches it (drivers.ts:1-3, 31-40).
THEOREM PathsAlwaysClimb == EvaluationSpec => []PathClimbs
    BY RunsTyped, PathsClimb, PTL

-----------------------------------------------------------------------------
(* The crowd control.                                                      *)

\* Lists of runs that differ in their crowd control only.
ButControl(rs, rt) ==
    /\ DOMAIN rs = DOMAIN rt /\ Len(rs) = Len(rt)
    /\ \A i \in DOMAIN rs : /\ rs[i].signals = rt[i].signals /\ rs[i].level = rt[i].level /\ rs[i].deaths = rt[i].deaths
                            /\ rs[i].kick = rt[i].kick /\ rs[i].parse = rt[i].parse

\* Such runs have the same other signals, the same scores of the axes and the same number.
LEMMA SameSignals ==
    ASSUME NEW rs, NEW rt, ButControl(rs, rt)
    PROVE  /\ Signals(rs) = Signals(rt) /\ Kicked(rs) = Kicked(rt) /\ Ranked(rs) = Ranked(rt)
           /\ AtTarget(rs) = AtTarget(rt) /\ HasKick(rs) = HasKick(rt)
<1>1. Signals(rs) = Signals(rt) /\ Ranked(rs) = Ranked(rt)
    BY DEF ButControl, Signals, Ranked
<1>2. Kicked(rs) = Kicked(rt) /\ AtTarget(rs) = AtTarget(rt)
    BY <1>1 DEF ButControl, Kicked, AtTarget, Signals, Ranked
<1>3. HasKick(rs) = HasKick(rt)
    BY <1>1 DEF ButControl, HasKick, Signals
<1>. QED
    BY <1>1, <1>2, <1>3

LEMMA SameMeasured ==
    ASSUME NEW rs, NEW rt, ButControl(rs, rt), NEW s \in Source \ PillarOnly
    PROVE  /\ Measured(rs, s) = Measured(rt, s) /\ Value(rs, s) = Value(rt, s)
           /\ Applies(rs, s) = Applies(rt, s) /\ Has(rs, s) = Has(rt, s)
<1>1. s \in {"individualDeaths", "kicksAbsolute", "medianParse", "parseAtTarget"}
    BY SourceNames DEF PillarOnly
<1>2. Measured(rs, s) = Measured(rt, s)
    BY <1>1, SameSignals DEF Measured
<1>3. Applies(rs, s) = Applies(rt, s) /\ Has(rs, s) = Has(rt, s)
    BY <1>2, SameSignals DEF Applies, Has
<1>4. MeanDeaths(rs) = MeanDeaths(rt)
  <2>1. Deaths(rs) = Deaths(rt)
    BY SameSignals DEF Deaths, LevelDeaths, ButControl
  <2>2. Len(rs) = Len(rt)
    BY DEF ButControl
  <2>. QED
    BY <2>1, <2>2, SameSignals DEF MeanDeaths, Deaths
<1>5. [i \in Kicked(rs) |-> rs[i].kick] = [i \in Kicked(rt) |-> rt[i].kick]
    BY SameSignals DEF ButControl, Kicked, Signals
<1>6. [i \in Ranked(rs) |-> rs[i].parse] = [i \in Ranked(rt) |-> rt[i].parse]
    BY SameSignals DEF ButControl, Ranked
<1>7. [i \in AtTarget(rs) |-> rs[i].parse] = [i \in AtTarget(rt) |-> rt[i].parse]
    BY SameSignals DEF ButControl, AtTarget, Ranked
<1>8. Value(rs, s) = Value(rt, s)
    BY <1>1, <1>4, <1>5, <1>6, <1>7 DEF Value
<1>. QED
    BY <1>2, <1>3, <1>8

\* Sources an axis may be scored from.
Scorable(srcs) == srcs \subseteq Source \ PillarOnly

LEMMA SameWeighed ==
    ASSUME NEW rs, NEW rt, ButControl(rs, rt), NEW srcs, Scorable(srcs), NEW as
    PROVE  Weighed(rs, srcs, as) = Weighed(rt, srcs, as)
<1>1. \A s \in srcs : SubScore(rs, s, as) = SubScore(rt, s, as)
  <2>. SUFFICES ASSUME NEW s \in srcs PROVE SubScore(rs, s, as) = SubScore(rt, s, as)
    OBVIOUS
  <2>1. s \in Source \ PillarOnly
    BY DEF Scorable
  <2>. QED
    BY <2>1, SameMeasured DEF SubScore, InputOf
<1>2. Terms(rs, srcs, as) = Terms(rt, srcs, as)
    BY <1>1 DEF Terms
<1>. QED
    BY <1>2 DEF Weighed, TotalOf, Terms

LEMMA SameAxes ==
    ASSUME NEW rs, NEW rt, ButControl(rs, rt), NEW as
    PROVE  /\ \A a \in Axis : AxisScore(rs, a, as) = AxisScore(rt, a, as)
           /\ Global(rs, as) = Global(rt, as)
<1>1. ASSUME NEW a \in Axis PROVE AxisScore(rs, a, as) = AxisScore(rt, a, as)
  <2>1. Scored(rs, a) = Scored(rt, a) /\ Contributing(rs, a) = Contributing(rt, a)
    <3>1. \A s \in SourcesOf[a] \ PillarOnly : s \in Source \ PillarOnly
        BY DEF Source
    <3>2. Scored(rs, a) = Scored(rt, a)
        BY <3>1, SameMeasured DEF Scored
    <3>. QED
        BY <3>1, <3>2, SameMeasured DEF Contributing, Scored
  <2>2. Weighed(rs, Scored(rs, a), as) = Weighed(rt, Scored(rt, a), as)
    <3>. DEFINE S == Scored(rs, a)
    <3>1. \A s \in S : s \in Source \ PillarOnly
        BY ScoredTyped
    <3>. HIDE DEF S
    <3>2. \A s \in S : SubScore(rs, s, as) = SubScore(rt, s, as)
        BY <3>1, SameMeasured DEF SubScore, InputOf
    <3>3. Terms(rs, S, as) = Terms(rt, S, as)
        BY <3>2 DEF Terms
    <3>4. Weighed(rs, S, as) = Weighed(rt, S, as)
        BY <3>3 DEF Weighed, TotalOf, Terms
    <3>. QED
        BY <2>1, <3>4 DEF S
  <2>. QED
    BY <2>1, <2>2 DEF AxisScore, Den
<1>2. SpreadScore(rs) = SpreadScore(rt)
  <2>1. \A i \in DOMAIN rs :
            /\ rs[i].signals = rt[i].signals /\ rs[i].deaths = rt[i].deaths /\ rs[i].parse = rt[i].parse
    BY DEF ButControl
  <2>2. Spreads(rs) = Spreads(rt)
    BY <2>1 DEF Spreads, ButControl
  <2>. QED
    BY <2>2 DEF SpreadScore
<1>3. \A a \in AnyAxis : Score(rs, a, as) = Score(rt, a, as)
    BY <1>1, <1>2 DEF AnyAxis, Score, Axis
<1>4. Global(rs, as) = Global(rt, as)
  <2>1. {a \in AnyAxis : Score(rs, a, as) # NoScore} = {a \in AnyAxis : Score(rt, a, as) # NoScore}
    BY <1>3
  <2>2. \A i \in DOMAIN Axes : Score(rs, Axes[i], as) = Score(rt, Axes[i], as)
    BY <1>3, AxisList
  <2>. QED
    BY <2>1, <2>2 DEF Global, TotalOf
<1>. QED
    BY <1>1, <1>4

\* The crowd control is scored for its pillar only, so taking it away changes nothing else (pillars.ts:1-4).
LEMMA ControlStaysApart == EvaluationTypeOK => ControlApart
<1>1. SUFFICES ASSUME runs \in Seq(RunRecord) PROVE ControlApart
    BY RecordsOfRuns
<1>. DEFINE bare == [i \in DOMAIN runs |-> [runs[i] EXCEPT !.control = NoData]]
<1>2. ButControl(bare, runs)
  <2>1. \A i \in DOMAIN runs : runs[i] \in RunRecord
    BY <1>1, SignalsTyped
  <2>2. \A i \in DOMAIN runs : /\ bare[i].signals = runs[i].signals /\ bare[i].level = runs[i].level
                               /\ bare[i].deaths = runs[i].deaths /\ bare[i].kick = runs[i].kick
                               /\ bare[i].parse = runs[i].parse
    BY <2>1 DEF RunRecord
  <2>3. DOMAIN bare = DOMAIN runs
    OBVIOUS
  <2>4. Len(bare) = Len(runs)
    <3>1. DOMAIN runs = 1..Len(runs) /\ Len(runs) \in Nat
        BY <1>1, SignalsTyped
    <3>2. DOMAIN bare = 1..Len(runs)
        BY <2>3, <3>1
    <3>. QED
        BY <3>1, <3>2
  <2>. HIDE DEF bare
  <2>. QED
    BY <2>2, <2>3, <2>4 DEF ButControl
<1>. HIDE DEF bare
<1>3. \A a \in Axis : AxisScore(bare, a, {}) = AxisScore(runs, a, {})
    BY <1>2, SameAxes
<1>4. ASSUME NEW p \in DOMAIN PillarSources \ {"control"} PROVE PillarScore(bare, p) = PillarScore(runs, p)
  <2>. DEFINE of(rs) == {s \in PillarSources[p] : Has(rs, s) /\ Applies(rs, s)}
  <2>1. PillarSources[p] \subseteq Source \ PillarOnly
    BY SourceNames DEF PillarSources, PillarOnly
  <2>2. of(bare) = of(runs)
    BY <1>2, <2>1, SameMeasured
  <2>3. Scorable(of(runs))
    BY <2>1 DEF Scorable
  <2>4. Weighed(bare, of(runs), {}) = Weighed(runs, of(runs), {})
    <3>. HIDE DEF of
    <3>. QED
        BY <1>2, <2>3, SameWeighed
  <2>. QED
    BY <2>2, <2>4 DEF PillarScore
<1>5. Verdict(bare, Global(bare, {})) = Verdict(runs, Global(runs, {}))
    BY <1>2, SameAxes, SameSignals DEF Verdict
<1>. QED
    BY <1>3, <1>4, <1>5 DEF ControlApart, bare

-----------------------------------------------------------------------------
(* Worse runs.                                                             *)

\* Runs of which none is better, with the same signals measured in each.
Worse(rs, rt) ==
    /\ DOMAIN rs = DOMAIN rt /\ Len(rs) = Len(rt)
    /\ \A i \in DOMAIN rs :
          /\ rt[i].signals = rs[i].signals /\ rt[i].level = rs[i].level
          /\ rt[i].deaths >= rs[i].deaths
          /\ rt[i].kick <= rs[i].kick /\ (rt[i].kick >= 0 <=> rs[i].kick >= 0) /\ (rt[i].kick = NoKick <=> rs[i].kick = NoKick)
          /\ rt[i].parse <= rs[i].parse /\ (rt[i].parse > 0 <=> rs[i].parse > 0)

\* In worse runs the same sources are measured, on the same runs.
LEMMA WorseMeasured ==
    ASSUME NEW rs \in Seq(RunRecord), NEW rt \in Seq(RunRecord), Worse(rs, rt)
    PROVE  /\ Signals(rs) = Signals(rt) /\ Kicked(rs) = Kicked(rt) /\ Ranked(rs) = Ranked(rt) /\ AtTarget(rs) = AtTarget(rt)
           /\ \A s \in Source \ PillarOnly : Measured(rs, s) = Measured(rt, s) /\ Has(rs, s) = Has(rt, s)
           /\ Alike(rt, rs)
<1>1. Signals(rs) = Signals(rt) /\ Ranked(rs) = Ranked(rt)
    BY DEF Worse, Signals, Ranked
<1>2. Kicked(rs) = Kicked(rt) /\ AtTarget(rs) = AtTarget(rt)
    BY <1>1 DEF Worse, Kicked, AtTarget, Signals, Ranked
<1>3. HasKick(rs) = HasKick(rt)
    BY <1>1 DEF Worse, HasKick, Signals
<1>4. ASSUME NEW s \in Source \ PillarOnly
      PROVE  Measured(rs, s) = Measured(rt, s) /\ Has(rs, s) = Has(rt, s) /\ Applies(rs, s) = Applies(rt, s)
  <2>1. s \in {"individualDeaths", "kicksAbsolute", "medianParse", "parseAtTarget"}
    BY SourceNames DEF PillarOnly
  <2>2. Measured(rs, s) = Measured(rt, s)
    BY <1>1, <1>2, <2>1 DEF Measured
  <2>. QED
    BY <1>3, <2>2 DEF Has, Applies
<1>5. Alike(rt, rs)
  <2>1. SUFFICES ASSUME NEW a \in Axis PROVE Scored(rt, a) = Scored(rs, a) /\ Contributing(rt, a) = Contributing(rs, a)
    BY DEF Alike
  <2>2. \A s \in SourcesOf[a] \ PillarOnly : s \in Source \ PillarOnly
    BY DEF Source
  <2>3. Scored(rt, a) = Scored(rs, a)
    BY <1>4, <2>2 DEF Scored
  <2>. QED
    BY <1>4, <2>2, <2>3 DEF Contributing, Scored
<1>. QED
    BY <1>1, <1>2, <1>4, <1>5

\* More deaths of the same runs are no lower a mean.
LEMMA WorseDeaths ==
    ASSUME NEW rs \in Seq(RunRecord), NEW rt \in Seq(RunRecord), Worse(rs, rt), Signals(rs) # {}
    PROVE  AtMost(MeanDeaths(rs), MeanDeaths(rt))
<1>. DEFINE f == Deaths(rs)  g == Deaths(rt)  n == Len(rs)  k == Cardinality(Signals(rs))
<1>1. n \in Nat /\ DOMAIN rs = 1..n /\ DOMAIN rt = 1..n /\ Len(rt) = n /\ Signals(rt) = Signals(rs)
    BY SignalsTyped, WorseMeasured DEF Worse
<1>2. ASSUME NEW i \in 1..n PROVE f[i] \in Rational /\ g[i] \in Rational /\ AtMost(f[i], g[i])
  <2>1. f[i] \in Rational /\ g[i] \in Rational
    BY <1>1, DeathsTyped
  <2>2. CASE i \in Signals(rs)
    <3>. DEFINE c == Curve(Whole(rs[i].level), LevelScale)
    <3>1. rs[i].deaths \in Nat /\ rt[i].deaths \in Nat /\ rs[i].deaths <= rt[i].deaths /\ rt[i].level = rs[i].level /\ rs[i].level \in Int
        BY <1>1, SignalsTyped DEF Worse
    <3>2. f[i] = Scaled(rs[i].deaths, c) /\ g[i] = Scaled(rt[i].deaths, c)
        BY <1>1, <2>2, <3>1 DEF Deaths, LevelDeaths
    <3>3. Whole(rs[i].level) \in Rational
        BY <3>1, WholeTyped
    <3>4. c \in Rational /\ c[1] >= 0
        BY <3>3, ConfigTyped, CurveTyped
    <3>. HIDE DEF c, f, g
    <3>. QED
        BY <2>1, <3>1, <3>2, <3>4, ScaledBy
  <2>3. CASE i \notin Signals(rs)
    <3>1. f[i] = Whole(0) /\ g[i] = Whole(0)
        BY <1>1, <2>3 DEF Deaths
    <3>. QED
        BY <2>1, <3>1, AtMostReflexive
  <2>. QED
    BY <2>2, <2>3
<1>3. AtMost(Total(f, n), Total(g, n))
  <2>. HIDE DEF f, g, n
  <2>. QED
    BY <1>1, <1>2, TotalMonotone
<1>4. Total(f, n) \in Rational /\ Total(g, n) \in Rational
    BY <1>1, DeathsTyped
<1>5. Whole(k) \in Rational /\ Whole(k)[1] > 0
  <2>1. "individualDeaths" \in Source /\ Measured(rs, "individualDeaths") = Signals(rs)
    BY SourceNames DEF Measured
  <2>2. k \in Nat /\ k > 0
    BY <2>1, MeasuredTyped DEF Has
  <2>. QED
    BY <2>2, WholeTyped
<1>6. MeanDeaths(rs) = Divided(Total(f, n), Whole(k)) /\ MeanDeaths(rt) = Divided(Total(g, n), Whole(k))
    BY <1>1, DeathsTyped
<1>. HIDE DEF f, g, n, k
<1>. QED
    BY <1>3, <1>4, <1>5, <1>6, DividedMonotone

\* A median of worse runs is no higher.
LEMMA WorseField ==
    ASSUME NEW rs \in Seq(RunRecord), NEW rt \in Seq(RunRecord), Worse(rs, rt),
           NEW s \in Source \ (PillarOnly \union {"individualDeaths"}), Has(rs, s)
    PROVE  AtMost(Value(rt, s), Value(rs, s))
<1>. DEFINE f == Field(rt, s)  g == Field(rs, s)
<1>1. s \in {"kicksAbsolute", "medianParse", "parseAtTarget"}
    BY SourceNames DEF PillarOnly
<1>2. Measured(rs, s) = Measured(rt, s)
    BY WorseMeasured
<1>3. /\ Naturals(f) /\ Naturals(g) /\ DOMAIN f = DOMAIN g /\ DOMAIN f # {} /\ DOMAIN f = Measured(rs, s)
      /\ Value(rt, s) = Median(f) /\ Value(rs, s) = Median(g)
    BY <1>2, FieldTyped DEF Has
<1>4. ASSUME NEW i \in Measured(rs, s) PROVE f[i] <= g[i]
  <2>1. i \in DOMAIN rs
    BY MeasuredTyped
  <2>2. rt[i].kick <= rs[i].kick /\ rt[i].parse <= rs[i].parse
    BY <2>1 DEF Worse
  <2>3. CASE s = "kicksAbsolute"
    <3>1. f[i] = rt[i].kick /\ g[i] = rs[i].kick
        BY <1>2, <2>3 DEF Field, Measured
    <3>. QED
        BY <2>2, <3>1
  <2>4. CASE s = "medianParse"
    <3>1. f[i] = rt[i].parse /\ g[i] = rs[i].parse
        BY <1>2, <2>4 DEF Field, Measured
    <3>. QED
        BY <2>2, <3>1
  <2>5. CASE s = "parseAtTarget"
    <3>1. f[i] = rt[i].parse /\ g[i] = rs[i].parse
        BY <1>2, <2>5 DEF Field, Measured
    <3>. QED
        BY <2>2, <3>1
  <2>. QED
    BY <1>1, <2>3, <2>4, <2>5
<1>. HIDE DEF f, g
<1>. QED
    BY <1>3, <1>4, MedianMonotone

\* A source of worse runs has no higher sub-score: a mean of deaths that is no lower is read on a curve
\* that falls, a median that is no higher on one that rises.
LEMMA WorseSubScore ==
    ASSUME NEW rs \in Seq(RunRecord), NEW rt \in Seq(RunRecord), Worse(rs, rt), NEW s \in Source \ PillarOnly
    PROVE  AtMost(SubScore(rt, s, {}), SubScore(rs, s, {}))
<1>. DEFINE n == Cardinality(Measured(rs, s))
            up == s # "individualDeaths"
            p == InputOf(rs, s, {})
            q == InputOf(rt, s, {})
<1>1. Measured(rs, s) = Measured(rt, s) /\ Has(rs, s) = Has(rt, s)
    BY WorseMeasured
<1>2. p \in Rational /\ q \in Rational
    BY InputTyped
<1>3. Ordered(up, q, p)
  <2>1. CASE ~Has(rs, s)
    <3>1. p = Whole(Reference[s]) /\ q = Whole(Reference[s])
        BY <1>1, <2>1 DEF InputOf
    <3>. QED
        BY <1>2, <3>1, OrderedReflexive
  <2>2. CASE Has(rs, s)
    <3>. DEFINE v == Value(rs, s)  w == Value(rt, s)
    <3>1. p = Shrunk(v, n, s) /\ q = Shrunk(w, n, s)
        BY <1>1, <2>2 DEF InputOf
    <3>2. v \in Rational /\ w \in Rational /\ n \in Nat \ {0}
      <4>1. Has(rs, s) /\ Has(rt, s) /\ s \in Source
        BY <1>1, <2>2
      <4>2. v \in Rational /\ w \in Rational
        BY <4>1, ValueTyped
      <4>3. n \in Nat /\ n > 0
        BY <4>1, MeasuredTyped
      <4>. QED
        BY <4>2, <4>3
    <3>3. Ordered(up, w, v)
      <4>1. CASE s = "individualDeaths"
        <5>1. v = MeanDeaths(rs) /\ w = MeanDeaths(rt) /\ Signals(rs) # {}
            BY <2>2, <4>1 DEF Value, Has, Measured
        <5>. QED
            BY <4>1, <5>1, WorseDeaths DEF Ordered
      <4>2. CASE s # "individualDeaths"
        <5>1. AtMost(w, v)
            BY <2>2, <4>2, WorseField
        <5>. QED
            BY <4>2, <5>1 DEF Ordered
      <4>. QED
        BY <4>1, <4>2
    <3>. HIDE DEF v, w, n, p, q, up
    <3>. QED
        BY <3>1, <3>2, <3>3, ShrunkMonotone DEF Ordered
  <2>. QED
    BY <2>1, <2>2
<1>4. IsCurve(CurveOf[s]) /\ up \in BOOLEAN
    BY ConfigTyped
<1>5. OneWay(CurveOf[s], up)
    BY CurvesOneWay DEF OneWay
<1>6. SubScore(rs, s, {}) = Curve(p, CurveOf[s]) /\ SubScore(rt, s, {}) = Curve(q, CurveOf[s])
    BY DEF SubScore
<1>. HIDE DEF p, q, up
<1>7. CASE up
  <2>1. Ordered(up, Curve(q, CurveOf[s]), Curve(p, CurveOf[s]))
    BY <1>2, <1>3, <1>4, <1>5, <1>7, CurveOrdered DEF Ordered
  <2>. QED
    BY <1>6, <1>7, <2>1 DEF Ordered
<1>8. CASE ~up
  <2>1. Ordered(up, Curve(p, CurveOf[s]), Curve(q, CurveOf[s]))
    BY <1>2, <1>3, <1>4, <1>5, <1>8, CurveOrdered DEF Ordered
  <2>. QED
    BY <1>6, <1>8, <2>1 DEF Ordered
<1>. QED
    BY <1>4, <1>7, <1>8

\* Worse runs have no higher number, when consistency has no weight.
LEMMA WorseGlobal ==
    ASSUME NEW rs \in Seq(RunRecord), NEW rt \in Seq(RunRecord), Worse(rs, rt), AxisWeight["consistency"] = 0
    PROVE  Global(rt, {}) <= Global(rs, {})
<1>1. NoneLower(rt, rs, {}, {})
    BY WorseSubScore DEF NoneLower
<1>. QED
    BY <1>1, WorseMeasured, GlobalMonotone DEF Steady

\* One death more, a lower parse or a lower kick rate is such a worse run.
LEMMA WorseHelpsNever == EvaluationTypeOK => WorseNeverHelps
<1>1. SUFFICES ASSUME runs \in Seq(RunRecord), AxisWeight["consistency"] = 0, NEW i \in DOMAIN runs,
                      NEW r \in {[runs[i] EXCEPT !.deaths = @ + 1], [runs[i] EXCEPT !.parse = IF @ > 10 THEN 10 ELSE @],
                                 [runs[i] EXCEPT !.kick = IF @ > 0 THEN 0 ELSE @]}
               PROVE  Global([runs EXCEPT ![i] = r], {}) <= Global(runs, {})
    BY RecordsOfRuns DEF WorseNeverHelps
<1>. DEFINE old == runs[i]  rt == [runs EXCEPT ![i] = r]
<1>2. old \in RunRecord
    BY <1>1, SignalsTyped
<1>3. /\ r \in RunRecord /\ r.signals = old.signals /\ r.level = old.level /\ r.deaths >= old.deaths
      /\ r.kick <= old.kick /\ (r.kick >= 0 <=> old.kick >= 0) /\ (r.kick = NoKick <=> old.kick = NoKick)
      /\ r.parse <= old.parse /\ (r.parse > 0 <=> old.parse > 0)
  <2>. HIDE DEF old
  <2>1. CASE r = [old EXCEPT !.deaths = @ + 1]
    BY <1>2, <2>1 DEF RunRecord
  <2>2. CASE r = [old EXCEPT !.parse = IF @ > 10 THEN 10 ELSE @]
    BY <1>2, <2>2 DEF RunRecord
  <2>3. CASE r = [old EXCEPT !.kick = IF @ > 0 THEN 0 ELSE @]
    BY <1>2, <2>3 DEF RunRecord, NoKick
  <2>. QED
    BY <1>1, <2>1, <2>2, <2>3 DEF old
<1>4. rt \in Seq(RunRecord) /\ DOMAIN rt = DOMAIN runs /\ Len(rt) = Len(runs)
    BY <1>1, <1>3
<1>5. Worse(runs, rt)
  <2>1. SUFFICES ASSUME NEW j \in DOMAIN runs
                 PROVE  /\ rt[j].signals = runs[j].signals /\ rt[j].level = runs[j].level
                        /\ rt[j].deaths >= runs[j].deaths
                        /\ rt[j].kick <= runs[j].kick /\ (rt[j].kick >= 0 <=> runs[j].kick >= 0)
                        /\ (rt[j].kick = NoKick <=> runs[j].kick = NoKick)
                        /\ rt[j].parse <= runs[j].parse /\ (rt[j].parse > 0 <=> runs[j].parse > 0)
    BY <1>4 DEF Worse
  <2>2. CASE j = i
    <3>1. rt[j] = r
        BY <2>2
    <3>. QED
        BY <1>3, <2>2, <3>1
  <2>3. CASE j # i
    <3>1. rt[j] = runs[j]
        BY <2>3
    <3>2. runs[j].deaths \in Int /\ runs[j].kick \in Int /\ runs[j].parse \in Int
        BY <1>1, SignalsTyped
    <3>. QED
        BY <3>1, <3>2
  <2>. QED
    BY <2>2, <2>3
<1>. HIDE DEF rt
<1>6. Global(rt, {}) <= Global(runs, {})
    BY <1>1, <1>4, <1>5, WorseGlobal
<1>. QED
    BY <1>6 DEF rt

\* Theorem: for any runs and any configuration whose curves go one way and that gives consistency no
\* weight, no player gains a point by dying once more, by a lower parse or by a lower kick rate in one of
\* his runs (evaluation/).
THEOREM WorseNeverEverHelps == EvaluationSpec => []WorseNeverHelps
    BY RunsTyped, WorseHelpsNever, PTL

-----------------------------------------------------------------------------
(* What the page explains.                                                 *)

\* q is v / e: rationals over one denominator are integers.
Is(q, v, e) == q[1] * e = v * q[2]

\* Over one denominator the operations are those of the integers.
LEMMA IsPlus ==
    ASSUME NEW p \in Rational, NEW q \in Rational, NEW u \in Int, NEW v \in Int, NEW e \in Nat \ {0}, Is(p, u, e), Is(q, v, e)
    PROVE  Plus(p, q) \in Rational /\ Is(Plus(p, q), u + v, e)
<1>. DEFINE a == p[1]  b == p[2]  c == q[1]  d == q[2]
<1>1. a \in Int /\ c \in Int /\ b \in Nat \ {0} /\ d \in Nat \ {0} /\ a * e = u * b /\ c * e = v * d
    BY PartsTyped DEF Is
<1>2. CASE b = d
  <2>1. (a + c) * e = (u + v) * b
    <3>. HIDE DEF a, b, c, d
    <3>1. (a + c) * e = a * e + c * e /\ (u + v) * b = u * b + v * b
        BY <1>1
    <3>. QED
        BY <1>1, <1>2, <3>1
  <2>. QED
    BY <1>2, <2>1, PlusTyped DEF Is, Plus
<1>3. CASE b # d
  <2>1. (a * d + c * b) * e = (u + v) * (b * d)
    <3>. HIDE DEF a, b, c, d
    <3>1. (a * d + c * b) * e = (a * e) * d + (c * e) * b
        BY <1>1
    <3>2. (u + v) * (b * d) = (u * b) * d + (v * d) * b
        BY <1>1
    <3>. QED
        BY <1>1, <3>1, <3>2
  <2>. QED
    BY <1>3, <2>1, PlusTyped DEF Is, Plus
<1>. QED
    BY <1>2, <1>3

LEMMA IsScaled ==
    ASSUME NEW i \in Int, NEW q \in Rational, NEW v \in Int, NEW e \in Nat \ {0}, Is(q, v, e)
    PROVE  Is(Scaled(i, q), i * v, e)
<1>. DEFINE a == q[1]  b == q[2]
<1>1. a \in Int /\ b \in Nat \ {0} /\ a * e = v * b
    BY PartsTyped DEF Is
<1>2. (i * a) * e = (i * v) * b
  <2>. HIDE DEF a, b
  <2>1. (i * a) * e = i * (a * e) /\ (i * v) * b = i * (v * b)
    BY <1>1
  <2>. QED
    BY <1>1, <2>1
<1>. QED
    BY <1>2 DEF Is, Scaled

LEMMA IsWhole == ASSUME NEW k \in Int, NEW e \in Nat \ {0} PROVE Is(Whole(k), k * e, e)
    BY DEF Is, Whole

LEMMA IsDivided ==
    ASSUME NEW q \in Rational, NEW v \in Int, NEW e \in Nat \ {0}, Is(q, v, e), NEW w \in Nat \ {0}
    PROVE  Divided(q, Whole(w)) \in Rational /\ Is(Divided(q, Whole(w)), v, e * w)
<1>. DEFINE a == q[1]  b == q[2]
<1>1. a \in Int /\ b \in Nat \ {0} /\ a * e = v * b
    BY PartsTyped DEF Is
<1>2. (a * 1) * (e * w) = v * (b * w)
  <2>. HIDE DEF a, b
  <2>1. (a * 1) * (e * w) = (a * e) * w /\ v * (b * w) = (v * b) * w
    BY <1>1
  <2>. QED
    BY <1>1, <2>1
<1>3. Is(Divided(q, Whole(w)), v, e * w)
    BY <1>2 DEF Is, Divided, Whole
<1>4. Whole(w) \in Rational /\ Whole(w)[1] > 0
    BY WholeTyped
<1>. QED
    BY <1>3, <1>4, DividedTyped

\* ... and a rounding is off by half the denominator at most: r is v / e, rounded.
Rounds(r, v, e) == 2 * (r * e) - 2 * v <= e /\ -e <= 2 * (r * e) - 2 * v

LEMMA IsRounded ==
    ASSUME NEW q \in Rational, NEW v \in Int, NEW e \in Nat \ {0}, Is(q, v, e)
    PROVE  Rounded(q) \in Int /\ Rounds(Rounded(q), v, e)
<1>. DEFINE a == q[1]  b == q[2]  r == Rounded(q)
<1>1. a \in Int /\ b \in Nat \ {0} /\ a * e = v * b
    BY PartsTyped DEF Is
<1>2. r \in Int /\ 2 * b * r <= 2 * a + b /\ 2 * a + b < 2 * b * r + 2 * b
    BY RoundedBounds
<1>. HIDE DEF a, b, r
<1>3. (2 * b * r) * e <= (2 * a + b) * e
    BY <1>1, <1>2, TimesMonotone
<1>4. (2 * a + b) * e <= (2 * b * r + 2 * b) * e
    BY <1>1, <1>2, TimesMonotone
<1>5. /\ (2 * b * r) * e = (2 * (r * e)) * b
      /\ (2 * a + b) * e = 2 * (a * e) + e * b
      /\ (2 * v + e) * b = 2 * (v * b) + e * b
      /\ (2 * b * r + 2 * b) * e = (2 * (r * e) + 2 * e) * b
    BY <1>1, <1>2
<1>6. (2 * (r * e)) * b <= (2 * v + e) * b /\ (2 * v + e) * b <= (2 * (r * e) + 2 * e) * b
    BY <1>1, <1>3, <1>4, <1>5
<1>7. r * e \in Int
    BY <1>2
<1>8. 2 * (r * e) <= 2 * v + e /\ 2 * v + e <= 2 * (r * e) + 2 * e
  <2>. DEFINE x == 2 * (r * e)  y == 2 * v + e  z == 2 * (r * e) + 2 * e
  <2>1. x \in Int /\ y \in Int /\ z \in Int /\ x * b <= y * b /\ y * b <= z * b
    BY <1>6, <1>7
  <2>. HIDE DEF x, y, z
  <2>2. x <= y /\ y <= z
    BY <1>1, <2>1, TimesCancels
  <2>. QED
    BY <2>2 DEF x, y, z
<1>. DEFINE re == r * e
<1>9. re \in Int /\ 2 * re <= 2 * v + e /\ 2 * v + e <= 2 * re + 2 * e
    BY <1>7, <1>8
<1>. HIDE DEF re
<1>10. 2 * re - 2 * v <= e /\ -e <= 2 * re - 2 * v
    BY <1>9
<1>. QED
    BY <1>2, <1>10 DEF re, r, Rounds

\* A rational within c halves of an integer is at most that far from it.
LEMMA IsDistance ==
    ASSUME NEW p \in Rational, NEW v \in Int, NEW e \in Nat \ {0}, Is(p, v, e), NEW k \in Int, NEW c \in Int,
           2 * (v - k * e) <= c * e, -(c * e) <= 2 * (v - k * e)
    PROVE  AtMost(Distance(p, Whole(k)), <<c, 2>>)
<1>. DEFINE d == Plus(p, Scaled(-1, Whole(k)))  a == d[1]  b == d[2]  x == v - k * e
<1>1. Whole(k) \in Rational /\ Scaled(-1, Whole(k)) \in Rational /\ d \in Rational
    BY WholeTyped, ScaledTyped, PlusTyped
<1>2. k * e \in Int /\ x \in Int /\ v + (-1) * (k * e) = x
    OBVIOUS
<1>3. Is(d, x, e)
  <2>1. Is(Scaled(-1, Whole(k)), (-1) * (k * e), e) /\ (-1) * (k * e) \in Int
    BY <1>1, <1>2, IsWhole, IsScaled
  <2>. QED
    BY <1>1, <1>2, <2>1, IsPlus
<1>4. a \in Int /\ b \in Nat \ {0} /\ a * e = x * b
    BY <1>1, <1>3, PartsTyped DEF Is
<1>5. Distance(p, Whole(k)) = <<IF a < 0 THEN -a ELSE a, b>>
    BY DEF Distance
<1>6. 2 * x <= c * e /\ -(c * e) <= 2 * x
    OBVIOUS
<1>. HIDE DEF d, a, b, x
<1>7. a * 2 <= c * b /\ (-a) * 2 <= c * b
  <2>0. c * e \in Int
    OBVIOUS
  <2>1. (2 * x) * b <= (c * e) * b /\ (-(2 * x)) * b <= (c * e) * b
    <3>1. -(2 * x) <= c * e /\ 2 * x \in Int /\ -(2 * x) \in Int
        BY <1>2, <1>6, <2>0
    <3>. QED
        BY <1>4, <1>6, <2>0, <3>1, TimesMonotone
  <2>2. (2 * x) * b = (a * 2) * e /\ (-(2 * x)) * b = ((-a) * 2) * e /\ (c * e) * b = (c * b) * e
    <3>1. (2 * x) * b = 2 * (x * b) /\ (-(2 * x)) * b = -(2 * (x * b)) /\ (a * 2) * e = 2 * (a * e)
          /\ ((-a) * 2) * e = -(2 * (a * e)) /\ (c * e) * b = (c * b) * e
        BY <1>2, <1>4
    <3>. QED
        BY <1>4, <3>1
  <2>3. (a * 2) * e <= (c * b) * e /\ ((-a) * 2) * e <= (c * b) * e
    BY <2>1, <2>2
  <2>4. a * 2 \in Int /\ (-a) * 2 \in Int /\ c * b \in Int
    BY <1>4
  <2>. QED
    BY <2>3, <2>4, TimesCancels
<1>8. (IF a < 0 THEN -a ELSE a) * 2 <= c * b
    BY <1>7
<1>. QED
    BY <1>5, <1>8 DEF AtMost

\* Some rationals over one denominator.
LEMMA CommonDenominator ==
    ASSUME NEW n \in Nat, NEW f, \A i \in 1..n : f[i] \in Rational
    PROVE  \E e \in Nat \ {0} : \E v \in [1..n -> Int] : \A i \in 1..n : Is(f[i], v[i], e)
<1>. DEFINE S == {m \in Nat : m <= n => \E e \in Nat \ {0} : \E v \in [1..m -> Int] : \A i \in 1..m : Is(f[i], v[i], e)}
<1>1. 0 \in S
  <2>1. 1 \in Nat \ {0} /\ [i \in 1..0 |-> 0] \in [1..0 -> Int] /\ 1..0 = {}
    OBVIOUS
  <2>. QED
    BY <2>1
<1>2. ASSUME NEW m \in Nat, m \in S PROVE m + 1 \in S
  <2>1. SUFFICES ASSUME m + 1 <= n
                 PROVE  \E e \in Nat \ {0} : \E v \in [1..m + 1 -> Int] : \A i \in 1..m + 1 : Is(f[i], v[i], e)
    OBVIOUS
  <2>2. m <= n /\ m + 1 \in 1..n /\ \A i \in 1..m : i \in 1..n
    BY <2>1
  <2>3. PICK e \in Nat \ {0} : \E v \in [1..m -> Int] : \A i \in 1..m : Is(f[i], v[i], e)
    BY <1>2, <2>2
  <2>4. PICK v \in [1..m -> Int] : \A i \in 1..m : Is(f[i], v[i], e)
    BY <2>3
  <2>. DEFINE a == f[m + 1][1]  b == f[m + 1][2]
              w == [i \in 1..m + 1 |-> IF i = m + 1 THEN a * e ELSE v[i] * b]
  <2>5. f[m + 1] \in Rational /\ a \in Int /\ b \in Nat \ {0}
    BY <2>2, PartsTyped
  <2>. HIDE DEF a, b
  <2>6. e * b \in Nat \ {0} /\ a * e \in Int
    BY <2>5, TimesTyped
  <2>7. ASSUME NEW i \in 1..m + 1 PROVE w[i] \in Int /\ Is(f[i], w[i], e * b)
    <3>1. CASE i = m + 1
      <4>1. w[i] = a * e
        BY <3>1
      <4>2. a * (e * b) = (a * e) * b
        BY <2>5
      <4>. QED
        BY <2>6, <3>1, <4>1, <4>2 DEF Is, a, b
    <3>2. CASE i \in 1..m
      <4>. DEFINE c == f[i][1]  d == f[i][2]
      <4>0. i # m + 1
        BY <3>2
      <4>1. w[i] = v[i] * b /\ v[i] \in Int
        BY <3>2, <4>0
      <4>2. c \in Int /\ d \in Nat \ {0} /\ c * e = v[i] * d
        BY <2>2, <2>4, <3>2, PartsTyped DEF Is
      <4>. HIDE DEF c, d, w
      <4>3. c * (e * b) = (c * e) * b /\ (v[i] * b) * d = (v[i] * d) * b /\ v[i] * b \in Int
        BY <2>5, <4>1, <4>2
      <4>. QED
        BY <4>1, <4>2, <4>3 DEF Is, c, d
    <3>. QED
        BY <3>1, <3>2
  <2>8. w \in [1..m + 1 -> Int]
    BY <2>7
  <2>. HIDE DEF w
  <2>. QED
    BY <2>6, <2>7, <2>8
<1>3. S = Nat
  <2>. HIDE DEF S
  <2>1. S \in SUBSET Nat
    BY DEF S
  <2>. QED
    BY <1>1, <1>2, <2>1, SetInduction
<1>. HIDE DEF S
<1>4. n \in S
    BY <1>3
<1>5. n <= n
    OBVIOUS
<1>. QED
    BY <1>4, <1>5 DEF S

\* A sum over one denominator is the sum of the numerators.
LEMMA IsNext ==
    ASSUME NEW e \in Nat \ {0}, NEW n \in Nat, NEW f, NEW u \in Int, NEW v \in Int,
           Total(f, n) \in Rational, Is(Total(f, n), u, e), f[n + 1] \in Rational, Is(f[n + 1], v, e)
    PROVE  Total(f, n + 1) \in Rational /\ Is(Total(f, n + 1), u + v, e)
<1>1. Total(f, n + 1) = Plus(Total(f, n), f[n + 1])
    BY TotalAdds
<1>2. Plus(Total(f, n), f[n + 1]) \in Rational
    BY PlusTyped
<1>3. Is(Plus(Total(f, n), f[n + 1]), u + v, e)
    BY IsPlus
<1>. QED
    BY <1>1, <1>2, <1>3

LEMMA TotalOfFive ==
    ASSUME NEW e \in Nat \ {0}, NEW f, NEW v, \A i \in 1..5 : f[i] \in Rational /\ v[i] \in Int /\ Is(f[i], v[i], e)
    PROVE  Total(f, 5) \in Rational /\ Is(Total(f, 5), v[1] + v[2] + v[3] + v[4] + v[5], e)
<1>1. Total(f, 0) = <<0, 1>>
    BY TotalEmpty DEF Whole
<1>2. Total(f, 0) \in Rational /\ Is(Total(f, 0), 0, e)
    BY <1>1 DEF Rational, Is
<1>3. /\ f[1] \in Rational /\ v[1] \in Int /\ Is(f[1], v[1], e) /\ f[2] \in Rational /\ v[2] \in Int /\ Is(f[2], v[2], e)
      /\ f[3] \in Rational /\ v[3] \in Int /\ Is(f[3], v[3], e) /\ f[4] \in Rational /\ v[4] \in Int /\ Is(f[4], v[4], e)
      /\ f[5] \in Rational /\ v[5] \in Int /\ Is(f[5], v[5], e)
    OBVIOUS
<1>. DEFINE t1 == 0 + v[1]  t2 == t1 + v[2]  t3 == t2 + v[3]  t4 == t3 + v[4]  t5 == t4 + v[5]
<1>4. t1 \in Int /\ t2 \in Int /\ t3 \in Int /\ t4 \in Int /\ t5 = v[1] + v[2] + v[3] + v[4] + v[5]
    BY <1>3
<1>5. Total(f, 1) \in Rational /\ Is(Total(f, 1), t1, e)
  <2>1. 0 + 1 = 1
    OBVIOUS
  <2>2. Total(f, 0 + 1) \in Rational /\ Is(Total(f, 0 + 1), 0 + v[1], e)
    BY <1>2, <1>3, <1>4, <2>1, IsNext
  <2>. QED
    BY <2>1, <2>2
<1>6. Total(f, 2) \in Rational /\ Is(Total(f, 2), t2, e)
  <2>. HIDE DEF t1
  <2>1. 1 + 1 = 2
    OBVIOUS
  <2>2. Total(f, 1 + 1) \in Rational /\ Is(Total(f, 1 + 1), t1 + v[2], e)
    BY <1>5, <1>3, <1>4, <2>1, IsNext
  <2>. QED
    BY <2>1, <2>2
<1>7. Total(f, 3) \in Rational /\ Is(Total(f, 3), t3, e)
  <2>. HIDE DEF t2
  <2>1. 2 + 1 = 3
    OBVIOUS
  <2>2. Total(f, 2 + 1) \in Rational /\ Is(Total(f, 2 + 1), t2 + v[3], e)
    BY <1>6, <1>3, <1>4, <2>1, IsNext
  <2>. QED
    BY <2>1, <2>2
<1>8. Total(f, 4) \in Rational /\ Is(Total(f, 4), t4, e)
  <2>. HIDE DEF t3
  <2>1. 3 + 1 = 4
    OBVIOUS
  <2>2. Total(f, 3 + 1) \in Rational /\ Is(Total(f, 3 + 1), t3 + v[4], e)
    BY <1>7, <1>3, <1>4, <2>1, IsNext
  <2>. QED
    BY <2>1, <2>2
<1>9. Total(f, 5) \in Rational /\ Is(Total(f, 5), t5, e)
  <2>. HIDE DEF t4
  <2>1. 4 + 1 = 5
    OBVIOUS
  <2>2. Total(f, 4 + 1) \in Rational /\ Is(Total(f, 4 + 1), t4 + v[5], e)
    BY <1>8, <1>3, <1>4, <2>1, IsNext
  <2>. QED
    BY <2>1, <2>2
<1>. QED
    BY <1>4, <1>9

\* What x gives for the members of a set of sources, summed.
Of(T, x, i) == IF Sources[i] \in T THEN x[i] ELSE 0
Over(T, x) == Of(T, x, 1) + Of(T, x, 2) + Of(T, x, 3) + Of(T, x, 4) + Of(T, x, 5)

LEMMA OfTyped ==
    ASSUME NEW T, NEW x, \A i \in 1..5 : x[i] \in Int
    PROVE  /\ \A i \in 1..5 : Of(T, x, i) \in Int
           /\ Over(T, x) \in Int
<1>1. \A i \in 1..5 : Of(T, x, i) \in Int
    BY DEF Of
<1>2. Of(T, x, 1) \in Int /\ Of(T, x, 2) \in Int /\ Of(T, x, 3) \in Int /\ Of(T, x, 4) \in Int /\ Of(T, x, 5) \in Int
    BY <1>1
<1>. QED
    BY <1>1, <1>2 DEF Over

\* A sum over a set of sources, of rationals that are x / e.
LEMMA TotalOver ==
    ASSUME NEW e \in Nat \ {0}, NEW T, NEW f, NEW x, NEW g,
           \A i \in 1..5 : f[i] \in Rational /\ x[i] \in Int /\ Is(f[i], x[i], e),
           \A i \in 1..5 : g[i] = IF Sources[i] \in T THEN f[i] ELSE Whole(0)
    PROVE  Total(g, 5) \in Rational /\ Is(Total(g, 5), Over(T, x), e)
<1>. DEFINE v == [i \in 1..5 |-> Of(T, x, i)]
<1>1. ASSUME NEW i \in 1..5 PROVE g[i] \in Rational /\ v[i] \in Int /\ Is(g[i], v[i], e)
  <2>1. CASE Sources[i] \in T
    BY <2>1 DEF Of
  <2>2. CASE Sources[i] \notin T
    <3>1. g[i] = <<0, 1>> /\ v[i] = 0
        BY <2>2 DEF Of, Whole
    <3>. QED
        BY <3>1 DEF Rational, Is
  <2>. QED
    BY <2>1, <2>2
<1>2. v[1] + v[2] + v[3] + v[4] + v[5] = Over(T, x)
    BY DEF Over
<1>. HIDE DEF v
<1>3. Total(g, 5) \in Rational /\ Is(Total(g, 5), v[1] + v[2] + v[3] + v[4] + v[5], e)
    BY <1>1, TotalOfFive
<1>. QED
    BY <1>2, <1>3

\* The number of some sources is a sum of ones.
LEMMA CardinalityOver ==
    ASSUME NEW T \in SUBSET Source
    PROVE  IsFiniteSet(T) /\ Cardinality(T) = Over(T, [i \in 1..5 |-> 1])
<1>. DEFINE one == [i \in 1..5 |-> 1]
            Upto(n) == {Sources[i] : i \in {j \in 1..n : Sources[j] \in T}}
            Added(n) == Of(T, one, n)
<1>1. IsFiniteSet(Upto(0)) /\ Cardinality(Upto(0)) = 0
  <2>1. Upto(0) = {}
    OBVIOUS
  <2>. QED
    BY <2>1, FS_EmptySet
<1>2. ASSUME NEW n \in 0..4, NEW c \in Int, IsFiniteSet(Upto(n)), Cardinality(Upto(n)) = c
      PROVE  IsFiniteSet(Upto(n + 1)) /\ Cardinality(Upto(n + 1)) = c + Added(n + 1) /\ c + Added(n + 1) \in Int
  <2>1. n + 1 \in 1..5 /\ 1..n + 1 = (1..n) \union {n + 1}
    BY <1>2
  <2>2. \A i \in 1..n : Sources[i] # Sources[n + 1]
    <3>1. n = 0 \/ n = 1 \/ n = 2 \/ n = 3 \/ n = 4
        BY <1>2
    <3>. QED
        BY <3>1, SourceList
  <2>3. Sources[n + 1] \notin Upto(n)
    BY <2>2
  <2>4. CASE Sources[n + 1] \in T
    <3>1. Upto(n + 1) = Upto(n) \union {Sources[n + 1]}
        BY <2>1, <2>4
    <3>2. Added(n + 1) = 1
        BY <2>1, <2>4 DEF Of
    <3>. HIDE DEF Upto, Added
    <3>. QED
        BY <1>2, <2>3, <3>1, <3>2, FS_AddElement
  <2>5. CASE Sources[n + 1] \notin T
    <3>1. Upto(n + 1) = Upto(n)
        BY <2>1, <2>5
    <3>2. Added(n + 1) = 0
        BY <2>5 DEF Of
    <3>. HIDE DEF Upto, Added
    <3>. QED
        BY <1>2, <3>1, <3>2
  <2>. QED
    BY <2>4, <2>5
<1>3. Upto(5) = T
  <2>1. \A s \in T : \E i \in 1..5 : s = Sources[i]
    BY SourceList, SourceNames
  <2>. QED
    BY <2>1
<1>4. Over(T, one) = 0 + Added(1) + Added(2) + Added(3) + Added(4) + Added(5)
  <2>1. \A i \in 1..5 : one[i] \in Int
    OBVIOUS
  <2>2. Added(1) \in Int
    BY <2>1, OfTyped
  <2>. HIDE DEF one
  <2>3. Of(T, one, 1) = 0 + Of(T, one, 1)
    BY <2>2
  <2>. QED
    BY <2>3 DEF Over
<1>. HIDE DEF Upto, Added
<1>. DEFINE c1 == 0 + Added(1)  c2 == c1 + Added(2)  c3 == c2 + Added(3)  c4 == c3 + Added(4)  c5 == c4 + Added(5)
<1>5. IsFiniteSet(Upto(1)) /\ Cardinality(Upto(1)) = c1 /\ c1 \in Int
  <2>1. 0 \in 0..4 /\ 0 \in Int /\ 0 + 1 = 1
    OBVIOUS
  <2>2. IsFiniteSet(Upto(0 + 1)) /\ Cardinality(Upto(0 + 1)) = 0 + Added(0 + 1) /\ 0 + Added(0 + 1) \in Int
    BY <1>1, <1>2, <2>1
  <2>. QED
    BY <2>1, <2>2
<1>6. IsFiniteSet(Upto(2)) /\ Cardinality(Upto(2)) = c2 /\ c2 \in Int
  <2>. HIDE DEF c1
  <2>1. 1 \in 0..4 /\ 1 + 1 = 2
    OBVIOUS
  <2>2. IsFiniteSet(Upto(1 + 1)) /\ Cardinality(Upto(1 + 1)) = c1 + Added(1 + 1) /\ c1 + Added(1 + 1) \in Int
    BY <1>2, <1>5, <2>1
  <2>. QED
    BY <2>1, <2>2
<1>7. IsFiniteSet(Upto(3)) /\ Cardinality(Upto(3)) = c3 /\ c3 \in Int
  <2>. HIDE DEF c2
  <2>1. 2 \in 0..4 /\ 2 + 1 = 3
    OBVIOUS
  <2>2. IsFiniteSet(Upto(2 + 1)) /\ Cardinality(Upto(2 + 1)) = c2 + Added(2 + 1) /\ c2 + Added(2 + 1) \in Int
    BY <1>2, <1>6, <2>1
  <2>. QED
    BY <2>1, <2>2
<1>8. IsFiniteSet(Upto(4)) /\ Cardinality(Upto(4)) = c4 /\ c4 \in Int
  <2>. HIDE DEF c3
  <2>1. 3 \in 0..4 /\ 3 + 1 = 4
    OBVIOUS
  <2>2. IsFiniteSet(Upto(3 + 1)) /\ Cardinality(Upto(3 + 1)) = c3 + Added(3 + 1) /\ c3 + Added(3 + 1) \in Int
    BY <1>2, <1>7, <2>1
  <2>. QED
    BY <2>1, <2>2
<1>9. IsFiniteSet(Upto(5)) /\ Cardinality(Upto(5)) = c5
  <2>. HIDE DEF c4
  <2>1. 4 \in 0..4 /\ 4 + 1 = 5
    OBVIOUS
  <2>2. IsFiniteSet(Upto(4 + 1)) /\ Cardinality(Upto(4 + 1)) = c4 + Added(4 + 1)
    BY <1>2, <1>8, <2>1
  <2>. QED
    BY <2>1, <2>2
<1>. QED
    BY <1>3, <1>4, <1>9

\* The weighed sub-scores and the weights over the denominator e of the sub-scores.
LEMMA WeighedIs ==
    ASSUME NEW rs \in Seq(RunRecord), NEW e \in Nat \ {0}, NEW A,
           \A i \in 1..5 : A[i] \in Int /\ Is(SubScore(rs, Sources[i], {}), A[i], e), NEW T
    PROVE  /\ Weighed(rs, T, {}) \in Rational
           /\ Is(Weighed(rs, T, {}), Over(T, [i \in 1..5 |-> Weight[Sources[i]] * A[i]]), e)
<1>. DEFINE f == [i \in 1..5 |-> Scaled(Weight[Sources[i]], SubScore(rs, Sources[i], {}))]
            x == [i \in 1..5 |-> Weight[Sources[i]] * A[i]]
            g == Terms(rs, T, {})
<1>1. ASSUME NEW i \in 1..5 PROVE f[i] \in Rational /\ x[i] \in Int /\ Is(f[i], x[i], e)
  <2>. DEFINE w == Weight[Sources[i]]  q == SubScore(rs, Sources[i], {})
  <2>1. w \in Int /\ q \in Rational /\ A[i] \in Int /\ Is(q, A[i], e)
    <3>1. Sources[i] \in Source
        BY SourceList
    <3>2. q \in Rational
        BY <3>1, SubScoreTyped
    <3>3. w \in Int
        BY <3>1, ConfigTyped
    <3>. QED
        BY <3>2, <3>3
  <2>2. f[i] = Scaled(w, q) /\ x[i] = w * A[i]
    OBVIOUS
  <2>. HIDE DEF f, x, w, q
  <2>3. w * A[i] \in Int
    BY <2>1
  <2>. QED
    BY <2>1, <2>2, <2>3, ScaledTyped, IsScaled
<1>2. \A i \in 1..5 : g[i] = IF Sources[i] \in T THEN f[i] ELSE Whole(0)
    BY SourceList DEF Terms
<1>3. Weighed(rs, T, {}) = Total(g, 5)
    BY TermsTyped
<1>. HIDE DEF f, g
<1>4. Total(g, 5) \in Rational /\ Is(Total(g, 5), Over(T, x), e)
  <2>. HIDE DEF x
  <2>. QED
    BY <1>1, <1>2, TotalOver
<1>. QED
    BY <1>3, <1>4

LEMMA WeightIs ==
    ASSUME NEW e \in Nat \ {0}, NEW T
    PROVE  /\ WeightOf(T) \in Rational
           /\ Is(WeightOf(T), Over(T, [i \in 1..5 |-> Weight[Sources[i]] * e]), e)
<1>. DEFINE f == [i \in 1..5 |-> Whole(Weight[Sources[i]])]
            x == [i \in 1..5 |-> Weight[Sources[i]] * e]
            g == [i \in DOMAIN Sources |-> IF Sources[i] \in T THEN Whole(Weight[Sources[i]]) ELSE Whole(0)]
<1>1. ASSUME NEW i \in 1..5 PROVE f[i] \in Rational /\ x[i] \in Int /\ Is(f[i], x[i], e)
  <2>. DEFINE w == Weight[Sources[i]]
  <2>1. w \in Int
    BY SourceList, ConfigTyped
  <2>2. f[i] = Whole(w) /\ x[i] = w * e
    OBVIOUS
  <2>. HIDE DEF f, x, w
  <2>3. w * e \in Int
    BY <2>1
  <2>. QED
    BY <2>1, <2>2, <2>3, WholeTyped, IsWhole
<1>2. \A i \in 1..5 : g[i] = IF Sources[i] \in T THEN f[i] ELSE Whole(0)
    BY SourceList
<1>3. WeightOf(T) = Total(g, 5)
    BY SourceList DEF WeightOf, TotalOf
<1>. HIDE DEF f, g
<1>4. Total(g, 5) \in Rational /\ Is(Total(g, 5), Over(T, x), e)
  <2>. HIDE DEF x
  <2>. QED
    BY <1>1, <1>2, TotalOver
<1>. QED
    BY <1>3, <1>4

\* A factor of every term is a factor of the sum.
LEMMA OverTimes ==
    ASSUME NEW T, NEW x, NEW y, NEW e \in Int, \A i \in 1..5 : x[i] \in Int /\ y[i] = x[i] * e
    PROVE  Over(T, y) = Over(T, x) * e
<1>1. ASSUME NEW i \in 1..5 PROVE Of(T, x, i) \in Int /\ Of(T, y, i) = Of(T, x, i) * e
  <2>1. CASE Sources[i] \in T
    BY <2>1 DEF Of
  <2>2. CASE Sources[i] \notin T
    BY <2>2 DEF Of
  <2>. QED
    BY <2>1, <2>2
<1>. DEFINE a == Of(T, x, 1)  b == Of(T, x, 2)  c == Of(T, x, 3)  d == Of(T, x, 4)  f == Of(T, x, 5)
<1>2. a \in Int /\ b \in Int /\ c \in Int /\ d \in Int /\ f \in Int
    BY <1>1
<1>3. Over(T, x) = a + b + c + d + f /\ Over(T, y) = a * e + b * e + c * e + d * e + f * e
    BY <1>1 DEF Over
<1>. HIDE DEF a, b, c, d, f
<1>4. (a + b + c + d + f) * e = a * e + b * e + c * e + d * e + f * e
    BY <1>2
<1>. QED
    BY <1>3, <1>4

\* A sum of equal terms is so many of them.
LEMMA OverSame ==
    ASSUME NEW T \in SUBSET Source, NEW e \in Int, NEW y, \A i \in 1..5 : y[i] = e
    PROVE  Cardinality(T) \in Nat /\ Over(T, y) = Cardinality(T) * e
<1>. DEFINE one == [i \in 1..5 |-> 1]
<1>1. IsFiniteSet(T) /\ Cardinality(T) = Over(T, one)
    BY CardinalityOver
<1>2. \A i \in 1..5 : one[i] = 1
    OBVIOUS
<1>. HIDE DEF one
<1>3. 1 * e = e
    OBVIOUS
<1>4. \A i \in 1..5 : one[i] \in Int /\ y[i] = one[i] * e
    BY <1>2, <1>3
<1>5. Over(T, y) = Over(T, one) * e
    BY <1>4, OverTimes
<1>. QED
    BY <1>1, <1>5, FS_CardinalityType

\* A term that is rounded: its share of the axis, but for a half.
Near(de, wa, we, e, i) ==
    2 * de[i] - 2 * (10 * wa[i] - 500 * we[i]) <= e /\ -e <= 2 * de[i] - 2 * (10 * wa[i] - 500 * we[i])

\* How far the rounded terms of C, with those of the rest of S as they are, are from the whole of S.
Off(S, C, de, wa, we) ==
    Over(C, de) + 10 * Over(S \ C, wa) - 500 * Over(S \ C, we) - 10 * Over(S, wa) + 500 * Over(S, we)

\* A sum of rounded terms, with the terms of the absent ones as they are.
LEMMA RoundedTerms ==
    ASSUME NEW S, NEW C \in SUBSET S, NEW E \in Nat, NEW de, NEW wa, NEW we, NEW ee,
           \A i \in 1..5 : de[i] \in Int /\ wa[i] \in Int /\ we[i] \in Int /\ ee[i] = E /\ Near(de, wa, we, E, i)
    PROVE  2 * Off(S, C, de, wa, we) <= Over(C, ee) /\ -Over(C, ee) <= 2 * Off(S, C, de, wa, we)
<1>. DEFINE off(i) == Of(C, de, i) + 10 * Of(S \ C, wa, i) - 500 * Of(S \ C, we, i) - 10 * Of(S, wa, i) + 500 * Of(S, we, i)
<1>1. ASSUME NEW i \in 1..5 PROVE 2 * off(i) <= Of(C, ee, i) /\ -Of(C, ee, i) <= 2 * off(i)
  <2>1. CASE Sources[i] \in C
    <3>1. /\ Of(C, de, i) = de[i] /\ Of(S \ C, wa, i) = 0 /\ Of(S \ C, we, i) = 0
          /\ Of(S, wa, i) = wa[i] /\ Of(S, we, i) = we[i] /\ Of(C, ee, i) = E
        BY <2>1 DEF Of
    <3>. QED
        BY <3>1 DEF Near
  <2>2. CASE Sources[i] \in S \ C
    <3>1. /\ Of(C, de, i) = 0 /\ Of(S \ C, wa, i) = wa[i] /\ Of(S \ C, we, i) = we[i]
          /\ Of(S, wa, i) = wa[i] /\ Of(S, we, i) = we[i] /\ Of(C, ee, i) = 0
        BY <2>2 DEF Of
    <3>. QED
        BY <3>1
  <2>3. CASE Sources[i] \notin S
    <3>1. /\ Of(C, de, i) = 0 /\ Of(S \ C, wa, i) = 0 /\ Of(S \ C, we, i) = 0
          /\ Of(S, wa, i) = 0 /\ Of(S, we, i) = 0 /\ Of(C, ee, i) = 0
        BY <2>3 DEF Of
    <3>. QED
        BY <3>1
  <2>. QED
    BY <2>1, <2>2, <2>3
<1>2. \A i \in 1..5 : /\ Of(C, de, i) \in Int /\ Of(S \ C, wa, i) \in Int /\ Of(S \ C, we, i) \in Int
                      /\ Of(S, wa, i) \in Int /\ Of(S, we, i) \in Int /\ Of(C, ee, i) \in Int
    BY DEF Of
<1>. QED
    BY <1>1, <1>2 DEF Over, Off

\* What one axis explains.
LEMMA AxisExplained ==
    ASSUME NEW rs \in Seq(RunRecord), NEW a \in Axis, Contributing(rs, a) # {}
    PROVE  LET deltas == TotalOf(Sources, Contributing(rs, a), LAMBDA s : Whole(Delta(rs, a, s)))
               absent == Scored(rs, a) \ Contributing(rs, a)
               imputed == Divided(Plus(Scaled(10, Weighed(rs, absent, {})), Scaled(-500, WeightOf(absent))), Den(rs, a))
               rounding == <<10 + Cardinality(Contributing(rs, a)), 2>>
           IN  AtMost(Distance(Plus(deltas, imputed), Whole(10 * (AxisScore(rs, a, {}) - 50))), rounding)
<1>. DEFINE S == Scored(rs, a)
            C == Contributing(rs, a)
            D == S \ C
            W(i) == Weight[Sources[i]]
            X(i) == SubScore(rs, Sources[i], {})
            R == AxisScore(rs, a, {})
            dl(i) == Delta(rs, a, Sources[i])
            deltas == TotalOf(Sources, C, LAMBDA s : Whole(Delta(rs, a, s)))
            imputed == Divided(Plus(Scaled(10, Weighed(rs, D, {})), Scaled(-500, WeightOf(D))), Den(rs, a))
<1>1. C \in SUBSET S /\ C \in SUBSET Source
    BY ScoredTyped
<1>2. PICK w \in Nat \ {0} : Den(rs, a) = Whole(w)
    BY DenTyped
<1>3. \A i \in 1..5 : W(i) \in Nat /\ X(i) \in Rational
    BY SourceList, ConfigTyped, SubScoreTyped
\* One denominator for every sub-score, and one for every share of the axis.
<1>4. PICK e \in Nat \ {0} : \E A \in [1..5 -> Int] : \A i \in 1..5 : Is(X(i), A[i], e)
  <2>. DEFINE f == [i \in 1..5 |-> X(i)]
  <2>1. \A i \in 1..5 : f[i] = X(i) /\ f[i] \in Rational
    BY <1>3
  <2>. HIDE DEF f
  <2>2. \E e \in Nat \ {0} : \E A \in [1..5 -> Int] : \A i \in 1..5 : Is(f[i], A[i], e)
    BY <2>1, CommonDenominator
  <2>. QED
    BY <2>1, <2>2
<1>5. PICK A \in [1..5 -> Int] : \A i \in 1..5 : Is(X(i), A[i], e)
    BY <1>4
<1>. DEFINE E == e * w
            wa == [i \in 1..5 |-> W(i) * A[i]]
            we == [i \in 1..5 |-> W(i) * e]
            de == [i \in 1..5 |-> dl(i) * E]
            ee == [i \in 1..5 |-> E]
<1>6. E \in Nat \ {0}
    BY TimesTyped
<1>7. \A i \in 1..5 : A[i] \in Int /\ wa[i] \in Int /\ we[i] \in Int
  <2>1. SUFFICES ASSUME NEW i \in 1..5 PROVE A[i] \in Int /\ wa[i] \in Int /\ we[i] \in Int
    OBVIOUS
  <2>. DEFINE k == W(i)
  <2>2. k \in Nat /\ A[i] \in Int /\ wa[i] = k * A[i] /\ we[i] = k * e
    BY <1>3
  <2>. HIDE DEF k, wa, we
  <2>. QED
    BY <2>2
\* The delta of a source is its share of the axis, rounded.
<1>8. ASSUME NEW i \in 1..5
      PROVE  dl(i) \in Int /\ de[i] \in Int /\ Near(de, wa, we, E, i)
  <2>. DEFINE k == W(i)  q == X(i)  p == Plus(q, Whole(-50))  v == (10 * k) * (A[i] + (-50) * e)
              r == Divided(Scaled(10 * k, p), Whole(w))
  <2>1. k \in Nat /\ q \in Rational /\ Is(q, A[i], e) /\ A[i] \in Int /\ wa[i] = k * A[i] /\ we[i] = k * e
    BY <1>3, <1>5, <1>7
  <2>2. Delta(rs, a, Sources[i]) = Rounded(r)
    BY <1>2 DEF Delta, DeltaDen
  <2>. HIDE DEF k, q
  <2>3. /\ Whole(-50) \in Rational /\ Is(Whole(-50), (-50) * e, e) /\ (-50) * e \in Int /\ A[i] + (-50) * e \in Int
        /\ 10 * k \in Int
    <3>1. -50 \in Int /\ w \in Int /\ w > 0 /\ (-50) * e \in Int
        OBVIOUS
    <3>2. Whole(-50) \in Rational /\ Is(Whole(-50), (-50) * e, e)
      <4>. DEFINE m == -50
      <4>1. m \in Int
        BY <3>1
      <4>. HIDE DEF m
      <4>2. Whole(m) \in Rational /\ Is(Whole(m), m * e, e)
        BY <4>1, WholeTyped, IsWhole
      <4>. QED
        BY <4>2 DEF m
    <3>3. A[i] + (-50) * e \in Int /\ 10 * k \in Int
      <4>. DEFINE b == A[i]  h == (-50) * e
      <4>1. b \in Int /\ h \in Int /\ k \in Int
        BY <2>1, <3>1
      <4>. HIDE DEF b, h
      <4>2. b + h \in Int /\ 10 * k \in Int
        BY <4>1
      <4>. QED
        BY <4>2 DEF b, h
    <3>. QED
        BY <3>1, <3>2, <3>3, Zenon
  <2>4. p \in Rational /\ Is(p, A[i] + (-50) * e, e)
    BY <2>1, <2>3, PlusTyped, IsPlus
  <2>. HIDE DEF p
  <2>5. v \in Int /\ v = 10 * wa[i] - 500 * we[i]
    <3>. DEFINE b == A[i]  y == b + (-50) * e
    <3>. HIDE DEF wa, we
    <3>1. b \in Int /\ k \in Nat /\ wa[i] = k * b /\ we[i] = k * e
        BY <2>1
    <3>. HIDE DEF b
    <3>2. k * y = k * b - 50 * (k * e) /\ y \in Int
        BY <3>1
    <3>. HIDE DEF y
    <3>3. (10 * k) * y = 10 * (k * y) /\ (10 * k) * y \in Int
        BY <3>1, <3>2
    <3>4. k * b \in Int /\ k * e \in Int
        BY <3>1
    <3>5. (10 * k) * y = 10 * (k * b) - 500 * (k * e)
      <4>. DEFINE ky == k * y  kb == k * b  ke == k * e
      <4>1. (10 * k) * y = 10 * ky /\ ky = kb - 50 * ke /\ kb \in Int /\ ke \in Int
        BY <3>2, <3>3, <3>4
      <4>. HIDE DEF ky, kb, ke
      <4>2. 10 * ky = 10 * kb - 500 * ke
        BY <4>1
      <4>. QED
        BY <4>1, <4>2 DEF kb, ke
    <3>. QED
        BY <3>1, <3>3, <3>5 DEF y, b
  <2>6. Scaled(10 * k, p) \in Rational /\ Is(Scaled(10 * k, p), v, e)
    BY <2>3, <2>4, ScaledTyped, IsScaled
  <2>. HIDE DEF v
  <2>7. r \in Rational /\ Is(r, v, E)
    <3>. DEFINE ew == e * w  s == Scaled(10 * k, p)
    <3>1. r = Divided(s, Whole(w)) /\ s \in Rational /\ Is(s, v, e) /\ v \in Int
        BY <2>5, <2>6
    <3>. HIDE DEF r, s
    <3>. QED
        BY <3>1, IsDivided
  <2>. HIDE DEF r, E
  <2>8. Rounded(r) \in Int /\ 2 * (Rounded(r) * E) - 2 * v <= E /\ -E <= 2 * (Rounded(r) * E) - 2 * v
    <3>1. Rounded(r) \in Int /\ Rounds(Rounded(r), v, E)
        BY <1>6, <2>5, <2>7, IsRounded
    <3>. QED
        BY <3>1 DEF Rounds
  <2>9. dl(i) = Rounded(r) /\ de[i] = Rounded(r) * E
    BY <2>2
  <2>10. Rounded(r) * E \in Int
    BY <1>6, <2>8
  <2>. HIDE DEF wa, we, de, dl
  <2>. QED
    BY <2>5, <2>8, <2>9, <2>10 DEF Near
<1>20. \A i \in 1..5 : ee[i] = E /\ ee[i] \in Int /\ de[i] \in Int /\ wa[i] \in Int /\ we[i] \in Int
  <2>1. \A i \in 1..5 : ee[i] = E
    OBVIOUS
  <2>2. \A i \in 1..5 : de[i] \in Int
    BY <1>8
  <2>. HIDE DEF ee, de, wa, we, E
  <2>3. E \in Int
    BY <1>6
  <2>4. \A i \in 1..5 : ee[i] \in Int
    BY <2>1, <2>3
  <2>5. \A i \in 1..5 : wa[i] \in Int /\ we[i] \in Int
    BY <1>7
  <2>. QED
    BY <2>1, <2>2, <2>4, <2>5
\* The deltas and what is imputed, over the common denominator.
<1>9. deltas \in Rational /\ Is(deltas, Over(C, de), E)
  <2>. DEFINE f == [i \in 1..5 |-> Whole(dl(i))]
              g == [i \in DOMAIN Sources |-> IF Sources[i] \in C THEN Whole(dl(i)) ELSE Whole(0)]
  <2>1. ASSUME NEW i \in 1..5 PROVE f[i] \in Rational /\ de[i] \in Int /\ Is(f[i], de[i], E)
    <3>1. dl(i) \in Int /\ de[i] \in Int /\ f[i] = Whole(dl(i)) /\ de[i] = dl(i) * E
        BY <1>8
    <3>. HIDE DEF f, de, dl, E
    <3>. QED
        BY <1>6, <3>1, WholeTyped, IsWhole
  <2>2. \A i \in 1..5 : g[i] = IF Sources[i] \in C THEN f[i] ELSE Whole(0)
    BY SourceList
  <2>3. deltas = Total(g, 5)
    BY SourceList DEF TotalOf
  <2>. HIDE DEF f, g, de, E, C
  <2>4. Total(g, 5) \in Rational /\ Is(Total(g, 5), Over(C, de), E)
    BY <1>6, <2>1, <2>2, TotalOver
  <2>. QED
    BY <2>3, <2>4
<1>10. /\ Over(C, de) \in Int /\ Over(D, wa) \in Int /\ Over(D, we) \in Int /\ Over(S, wa) \in Int
       /\ Over(S, we) \in Int /\ Over(C, ee) \in Int
  <2>. HIDE DEF ee, de, wa, we, S, C, D
  <2>. QED
    BY <1>20, OfTyped
<1>11. imputed \in Rational /\ Is(imputed, 10 * Over(D, wa) + (-500) * Over(D, we), E)
  <2>. DEFINE p == Weighed(rs, D, {})  q == WeightOf(D)  u == Over(D, wa)  v == Over(D, we)
  <2>1. p \in Rational /\ Is(p, u, e)
    BY <1>5, <1>7, WeighedIs
  <2>2. q \in Rational /\ Is(q, v, e)
    BY WeightIs
  <2>3. u \in Int /\ v \in Int
    BY <1>10
  <2>4. imputed = Divided(Plus(Scaled(10, p), Scaled(-500, q)), Whole(w))
    BY <1>2
  <2>. HIDE DEF p, q, u, v
  <2>. DEFINE n == Plus(Scaled(10, p), Scaled(-500, q))  t == 10 * u + (-500) * v
  <2>20. 10 * u \in Int /\ (-500) * v \in Int /\ t \in Int /\ -500 \in Int
    BY <2>3
  <2>5. /\ Scaled(10, p) \in Rational /\ Is(Scaled(10, p), 10 * u, e)
        /\ Scaled(-500, q) \in Rational /\ Is(Scaled(-500, q), (-500) * v, e)
    <3>. DEFINE l == 10  m == -500
    <3>1. l \in Int /\ m \in Int
        BY <2>20
    <3>. HIDE DEF l, m
    <3>2. Scaled(l, p) \in Rational /\ Is(Scaled(l, p), l * u, e)
        BY <2>1, <2>3, <3>1, ScaledTyped, IsScaled
    <3>3. Scaled(m, q) \in Rational /\ Is(Scaled(m, q), m * v, e)
        BY <2>2, <2>3, <3>1, ScaledTyped, IsScaled
    <3>. QED
        BY <3>2, <3>3 DEF l, m
  <2>6. n \in Rational /\ Is(n, t, e)
    <3>. DEFINE x == Scaled(10, p)  y == Scaled(-500, q)  g == 10 * u  h == (-500) * v
    <3>1. /\ x \in Rational /\ y \in Rational /\ g \in Int /\ h \in Int
          /\ Is(x, g, e) /\ Is(y, h, e) /\ n = Plus(x, y) /\ t = g + h
        BY <2>20, <2>5
    <3>. HIDE DEF x, y, g, h, n, t
    <3>. QED
        BY <3>1, IsPlus
  <2>7. imputed = Divided(n, Whole(w))
    BY <2>4 DEF n
  <2>. HIDE DEF n, t, imputed
  <2>8. imputed \in Rational /\ Is(imputed, t, e * w)
    BY <2>20, <2>6, <2>7, IsDivided
  <2>. QED
    BY <2>8 DEF t, u, v
\* The score, and the whole weight of the axis.
<1>12. R \in Int /\ 2 * (R * E) - 2 * Over(S, wa) <= E /\ -E <= 2 * (R * E) - 2 * Over(S, wa)
  <2>. DEFINE p == Weighed(rs, S, {})  u == Over(S, wa)  q == Divided(p, Whole(w))
  <2>1. p \in Rational /\ Is(p, u, e)
    BY <1>5, <1>7, WeighedIs
  <2>2. R = Rounded(q)
    BY <1>2 DEF AxisScore
  <2>3. u \in Int
    BY <1>10
  <2>. HIDE DEF p, u
  <2>4. q \in Rational /\ Is(q, u, E)
    BY <2>1, <2>3, IsDivided
  <2>. HIDE DEF q, E, R
  <2>5. Rounded(q) \in Int /\ Rounds(Rounded(q), u, E)
    BY <1>6, <2>3, <2>4, IsRounded
  <2>. QED
    BY <2>2, <2>5 DEF u, Rounds
<1>13. Over(S, we) = E
  <2>. DEFINE u == Over(S, we)
  <2>1. Is(WeightOf(S), u, e)
    BY WeightIs
  <2>2. WeightOf(S) = Whole(w)
    BY <1>2 DEF Den
  <2>3. w * e = u * 1
    BY <2>1, <2>2 DEF Is, Whole
  <2>4. u \in Int
    BY <1>10
  <2>. HIDE DEF u
  <2>5. u = e * w
    BY <2>3, <2>4
  <2>. QED
    BY <2>5 DEF u
<1>14. Cardinality(C) \in Nat /\ Over(C, ee) = Cardinality(C) * E
  <2>1. E \in Int /\ \A i \in 1..5 : ee[i] = E
    BY <1>6, <1>20
  <2>. HIDE DEF ee, C, E
  <2>. QED
    BY <1>1, <2>1, OverSame
<1>. DEFINE c == Cardinality(C)
            k == 10 * (R - 50)
            v == Over(C, de) + (10 * Over(D, wa) + (-500) * Over(D, we))
            off == Over(C, de) + 10 * Over(D, wa) - 500 * Over(D, we) - 10 * Over(S, wa) + 500 * Over(S, we)
<1>15. 2 * off <= Over(C, ee) /\ -Over(C, ee) <= 2 * off
  <2>1. \A i \in 1..5 : de[i] \in Int /\ wa[i] \in Int /\ we[i] \in Int /\ ee[i] = E /\ Near(de, wa, we, E, i)
    BY <1>8, <1>20
  <2>. HIDE DEF de, wa, we, ee, E, S, C
  <2>2. E \in Nat
    BY <1>6
  <2>3. 2 * Off(S, C, de, wa, we) <= Over(C, ee) /\ -Over(C, ee) <= 2 * Off(S, C, de, wa, we)
    BY <1>1, <2>1, <2>2, RoundedTerms, Zenon
  <2>. QED
    BY <2>3 DEF Off
<1>16. k \in Int /\ v \in Int /\ 2 * (v - k * E) <= (10 + c) * E /\ -((10 + c) * E) <= 2 * (v - k * E)
  <2>. DEFINE RE == R * E  cE == c * E
  <2>1. RE \in Int /\ cE \in Int /\ R \in Int /\ c \in Nat
    <3>1. R \in Int /\ c \in Nat /\ E \in Int
        BY <1>6, <1>12, <1>14
    <3>. HIDE DEF R, c, E
    <3>. QED
        BY <3>1
  <2>2. k * E = 10 * RE - 500 * E /\ (10 + c) * E = 10 * E + cE
    <3>. HIDE DEF R, E, c
    <3>. QED
        BY <1>6, <2>1
  <2>3. 2 * RE - 2 * Over(S, wa) <= E /\ -E <= 2 * RE - 2 * Over(S, wa)
    BY <1>12
  <2>4. Over(C, ee) = cE /\ Over(S, we) = E
    BY <1>13, <1>14
  <2>. DEFINE cde == Over(C, de)  dwa == Over(D, wa)  dwe == Over(D, we)  swa == Over(S, wa)  swe == Over(S, we)  cee == Over(C, ee)
              kE == k * E  tE == (10 + c) * E
  <2>5. /\ cde \in Int /\ dwa \in Int /\ dwe \in Int /\ swa \in Int /\ swe \in Int /\ cee \in Int
        /\ 2 * (cde + 10 * dwa - 500 * dwe - 10 * swa + 500 * swe) <= cee
        /\ -cee <= 2 * (cde + 10 * dwa - 500 * dwe - 10 * swa + 500 * swe)
    BY <1>10, <1>15
  <2>6. v = cde + (10 * dwa + (-500) * dwe) /\ kE = 10 * RE - 500 * E /\ tE = 10 * E + cE /\ cee = cE /\ swe = E
        /\ 2 * RE - 2 * swa <= E /\ -E <= 2 * RE - 2 * swa
    BY <2>2, <2>3, <2>4
  <2>7. k \in Int
    <3>. HIDE DEF R
    <3>. QED
        BY <2>1
  <2>8. E \in Int
    BY <1>6
  <2>. HIDE DEF cde, dwa, dwe, swa, swe, cee, kE, tE, RE, cE, E, v, k, c
  <2>9. v \in Int /\ 2 * (v - kE) <= tE /\ -tE <= 2 * (v - kE)
    BY <2>1, <2>5, <2>6, <2>8
  <2>. QED
    BY <2>7, <2>9 DEF kE, tE
<1>17. Plus(deltas, imputed) \in Rational /\ Is(Plus(deltas, imputed), v, E)
  <2>. DEFINE cde == Over(C, de)  rest == 10 * Over(D, wa) + (-500) * Over(D, we)
  <2>. DEFINE dwa == Over(D, wa)  dwe == Over(D, we)
  <2>1. cde \in Int /\ rest \in Int
    <3>1. cde \in Int /\ dwa \in Int /\ dwe \in Int /\ rest = 10 * dwa + (-500) * dwe
        BY <1>10
    <3>. HIDE DEF cde, dwa, dwe, rest
    <3>. QED
        BY <3>1
  <2>2. E \in Nat \ {0}
    BY <1>6
  <2>3. deltas \in Rational /\ Is(deltas, cde, E) /\ imputed \in Rational /\ Is(imputed, rest, E)
    BY <1>9, <1>11
  <2>. HIDE DEF deltas, imputed, E, cde, rest
  <2>4. Plus(deltas, imputed) \in Rational /\ Is(Plus(deltas, imputed), cde + rest, E)
    BY <2>1, <2>2, <2>3, IsPlus
  <2>. QED
    BY <2>4 DEF cde, rest
<1>18. 10 + c \in Int
    BY <1>14
<1>. HIDE DEF deltas, imputed, E, v, k, c
<1>19. AtMost(Distance(Plus(deltas, imputed), Whole(k)), <<10 + c, 2>>)
    BY <1>6, <1>16, <1>17, <1>18, IsDistance
<1>. QED
    BY <1>19 DEF deltas, imputed, k, c

\* ... and so every axis that has a score.
LEMMA ScoresExplained == EvaluationTypeOK => Explained
<1>1. SUFFICES ASSUME EvaluationTypeOK, NEW a \in Axis, AxisScore(runs, a, {}) # NoScore
               PROVE  LET deltas == TotalOf(Sources, Contributing(runs, a), LAMBDA s : Whole(Delta(runs, a, s)))
                          absent == Scored(runs, a) \ Contributing(runs, a)
                          imputed == Divided(Plus(Scaled(10, Weighed(runs, absent, {})), Scaled(-500, WeightOf(absent))), Den(runs, a))
                          rounding == <<10 + Cardinality(Contributing(runs, a)), 2>>
                      IN  AtMost(Distance(Plus(deltas, imputed), Whole(10 * (AxisScore(runs, a, {}) - 50))), rounding)
    BY DEF Explained
<1>2. runs \in Seq(RunRecord)
    BY <1>1, RecordsOfRuns
<1>3. Contributing(runs, a) # {}
    BY <1>1, <1>2, AxisScoreTyped
<1>. QED
    BY <1>2, <1>3, AxisExplained

\* Theorem: for any runs and any valid configuration, the deltas the page shows and the share of what was
\* never measured add up to the score of each axis but for the rounding of each of them (axis.ts:38-41),
\* and nothing of the crowd control reaches a score or the verdict (pillars.ts:1-4).
THEOREM ScoresAlwaysHonest == EvaluationSpec => []ScoreHonest
<1>1. EvaluationTypeOK => ScoreHonest
    BY ScoresExplained, ControlStaysApart DEF ScoreHonest
<1>. QED
    BY <1>1, RunsTyped, PTL
=============================================================================
