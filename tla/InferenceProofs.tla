--------------------------- MODULE InferenceProofs --------------------------
(***************************************************************************)
(* Theorems about the driver and the object it drives.  First, what the    *)
(* reward of a step says about the step, for every baseline and every      *)
(* duration, and the score of an episode about its rewards, for every      *)
(* sequence of them.  Then the driver itself, for every number of episodes,*)
(* every limit of steps and attempts and every set of durations.           *)
(***************************************************************************)
EXTENDS Inference, SequenceTheorems, WellFoundedInduction, TLAPS

\* A product with a positive number grows with the other factor.
LEMMA ProductOrder ==
  ASSUME NEW p \in Int, NEW q \in Int, NEW d \in Int, d > 0, p <= q
  PROVE  p * d <= q * d
BY SMT

\* An integer nearest to n/d is above k if n/d is at least k + 1/2.
LEMMA NearestAbove ==
  ASSUME NEW n \in Int, NEW d \in Int, d > 0, NEW k \in Int,
         NEW q \in Nearest(n, d), 2 * n > 2 * (k * d) + d
  PROVE  q > k
<1>1. q \in Int /\ 2 * q * d - 2 * n \in -d .. d
  BY DEF Nearest
<1>2. 2 * n - d <= 2 * (q * d)
  BY <1>1
<1>3. ASSUME q <= k PROVE FALSE
  <2>1. q * d <= k * d
    BY <1>1, <1>3, ProductOrder
  <2>. DEFINE x == q * d  y == k * d
  <2>2. x \in Int /\ y \in Int
    BY <1>1
  <2>3. 2 * n - d <= 2 * x /\ x <= y /\ 2 * n > 2 * y + d
    BY <1>2, <2>1
  <2>. HIDE DEF x, y
  <2>. QED BY <2>2, <2>3
<1>. QED BY <1>1, <1>3

\* An integer nearest to n/d is below k if n/d is at most k - 1/2.
LEMMA NearestBelow ==
  ASSUME NEW n \in Int, NEW d \in Int, d > 0, NEW k \in Int,
         NEW q \in Nearest(n, d), 2 * n < 2 * (k * d) - d
  PROVE  q < k
<1>1. q \in Int /\ 2 * q * d - 2 * n \in -d .. d
  BY DEF Nearest
<1>2. 2 * (q * d) <= 2 * n + d
  BY <1>1
<1>3. ASSUME q >= k PROVE FALSE
  <2>1. k * d <= q * d
    BY <1>1, <1>3, ProductOrder
  <2>. DEFINE x == q * d  y == k * d
  <2>2. x \in Int /\ y \in Int
    BY <1>1
  <2>3. 2 * x <= 2 * n + d /\ y <= x /\ 2 * n < 2 * y - d
    BY <1>2, <2>1
  <2>. HIDE DEF x, y
  <2>. QED BY <2>2, <2>3
<1>. QED BY <1>1, <1>3

\* A quotient between two integers is rounded to an integer between them.
LEMMA NearestWithin ==
  ASSUME NEW n \in Int, NEW d \in Int, d > 0, NEW low \in Int, NEW high \in Int,
         low * d <= n, n <= high * d, NEW q \in Nearest(n, d)
  PROVE  q \in low .. high
<1>1. q \in Int
  BY DEF Nearest
<1>2. q > low - 1
  <2>1. (low - 1) * d = low * d - d
    OBVIOUS
  <2>2. 2 * n > 2 * ((low - 1) * d) + d
    <3>. DEFINE x == low * d
    <3>1. x \in Int /\ x <= n /\ (low - 1) * d = x - d
      BY <2>1
    <3>. HIDE DEF x
    <3>. QED BY <3>1
  <2>3. low - 1 \in Int
    OBVIOUS
  <2>. QED BY <2>2, <2>3, NearestAbove
<1>3. q < high + 1
  <2>1. (high + 1) * d = high * d + d
    OBVIOUS
  <2>2. 2 * n < 2 * ((high + 1) * d) - d
    <3>. DEFINE x == high * d
    <3>1. x \in Int /\ n <= x /\ (high + 1) * d = x + d
      BY <2>1
    <3>. HIDE DEF x
    <3>. QED BY <3>1
  <2>3. high + 1 \in Int
    OBVIOUS
  <2>. QED BY <2>2, <2>3, NearestBelow
<1>. QED BY <1>1, <1>2, <1>3

\* Rounding keeps the order.
LEMMA NearestOrder ==
  ASSUME NEW m \in Int, NEW n \in Int, NEW d \in Int, d > 0, m > n,
         NEW p \in Nearest(m, d), NEW q \in Nearest(n, d)
  PROVE  p >= q
<1>1. p \in Int /\ q \in Int /\ 2 * p * d - 2 * m \in -d .. d
      /\ 2 * q * d - 2 * n \in -d .. d
  BY DEF Nearest
<1>2. 2 * m - d <= 2 * (p * d) /\ 2 * (q * d) <= 2 * n + d
  BY <1>1
<1>3. ASSUME p < q PROVE FALSE
  <2>1. (p + 1) * d <= q * d
    BY <1>1, <1>3, ProductOrder
  <2>2. (p + 1) * d = p * d + d
    BY <1>1
  <2>. DEFINE x == p * d  y == q * d
  <2>3. x \in Int /\ y \in Int
    BY <1>1
  <2>4. 2 * m - d <= 2 * x /\ 2 * y <= 2 * n + d /\ x + d <= y
    BY <1>2, <2>1, <2>2
  <2>. HIDE DEF x, y
  <2>. QED BY <2>3, <2>4
<1>. QED BY <1>1, <1>3

\* The reward of a step is the rounded quotient of this number and the baseline.
Twice(base, duration) ==
  Clamp(200 * (base - duration), base, 99 * base)

LEMMA RewardsOfMeasured ==
  ASSUME NEW base \in Nat, NEW duration \in Nat,
         Comparable(base, duration)
  PROVE  /\ base > 0 /\ duration > 0
         /\ Twice(base, duration) \in base .. 99 * base
         /\ Rewards(base, duration) =
              Nearest(Twice(base, duration), base)
BY DEF Rewards, Comparable, Twice, Clamp

\* A reward is one of 0.01, ..., 0.99, whatever was measured or not
\* (socket_tuner_environment.py:217).
THEOREM RewardInRange ==
  ASSUME NEW base \in Nat, NEW duration \in Nat,
         NEW r \in Rewards(base, duration)
  PROVE  r \in 1 .. 99
<1>1. CASE Comparable(base, duration)
  <2>. DEFINE n == Twice(base, duration)
  <2>1. base > 0 /\ n \in base .. 99 * base /\ r \in Nearest(n, base)
    BY <1>1, RewardsOfMeasured
  <2>2. n \in Int /\ r \in Int
    BY <2>1 DEF Nearest
  <2>. HIDE DEF n
  <2>3. r > 0
    <3>1. 2 * n > 2 * (0 * base) + base
      BY <2>1, <2>2
    <3>. QED BY <3>1, <2>1, <2>2, NearestAbove
  <2>4. r < 100
    <3>1. 2 * n < 2 * (100 * base) - base
      BY <2>1, <2>2
    <3>. QED BY <3>1, <2>1, <2>2, NearestBelow
  <2>. QED BY <2>2, <2>3, <2>4
<1>2. CASE ~Comparable(base, duration)
  BY <1>2 DEF Rewards
<1>. QED BY <1>1, <1>2

\* "Any step which reduced time by >=25% gets >=0.5"
\* (socket_tuner_environment.py:212).
THEOREM GoodStepReward ==
  ASSUME NEW base \in Nat, NEW duration \in Nat,
         Comparable(base, duration),
         AtMost(duration, base, 3, 4),
         NEW r \in Rewards(base, duration)
  PROVE  r >= 50
<1>. DEFINE n == Twice(base, duration)
<1>1. base > 0 /\ n \in base .. 99 * base /\ r \in Nearest(n, base)
  BY RewardsOfMeasured
<1>2. n >= 50 * base
  BY <1>1 DEF AtMost, Twice, Clamp
<1>3. n \in Int /\ r \in Int
  BY <1>1 DEF Nearest
<1>. HIDE DEF n
<1>4. 2 * n > 2 * (49 * base) + base
  BY <1>1, <1>2, <1>3
<1>5. r > 49
  BY <1>1, <1>3, <1>4, NearestAbove
<1>. QED BY <1>3, <1>5

\* "If it achieves better performance than 50%, we stop early"
\* (socket_tuner_environment.py:219): the step that ends an episode early has the
\* largest reward, 0.99.
THEOREM EarlyStepReward ==
  ASSUME NEW base \in Nat, NEW duration \in Nat,
         DoneEarly(base, duration),
         NEW r \in Rewards(base, duration)
  PROVE  r = 99
<1>. DEFINE n == Twice(base, duration)
<1>0. Comparable(base, duration) /\ AtMost(duration, base, 1, 2)
  BY DEF DoneEarly
<1>1. base > 0 /\ r \in Nearest(n, base)
  BY <1>0, RewardsOfMeasured
<1>2. n = 99 * base
  BY <1>0, <1>1 DEF AtMost, Twice, Clamp
<1>3. n \in Int
  BY <1>2
<1>. HIDE DEF n
<1>4. 2 * n > 2 * (98 * base) + base
  BY <1>1, <1>2
<1>5. r > 98
  BY <1>1, <1>3, <1>4, NearestAbove
<1>6. r \in 1 .. 99
  BY RewardInRange
<1>. QED BY <1>5, <1>6

\* The reward orders the steps of an episode: of two measured steps the faster
\* one never gets less, in spite of the rounding
\* (socket_tuner_environment.py:208-217).
THEOREM FasterNeverGetsLess ==
  ASSUME NEW base \in Nat, NEW fast \in Nat, NEW slow \in Nat,
         Comparable(base, fast), fast < slow,
         NEW p \in Rewards(base, fast), NEW q \in Rewards(base, slow)
  PROVE  p >= q
<1>. DEFINE m == Twice(base, fast)  n == Twice(base, slow)
<1>1. Comparable(base, slow)
  BY DEF Comparable
<1>2. /\ base > 0
      /\ m \in base .. 99 * base /\ p \in Nearest(m, base)
      /\ n \in base .. 99 * base /\ q \in Nearest(n, base)
  BY <1>1, RewardsOfMeasured
<1>3. m > n \/ n = base \/ m = 99 * base
  BY <1>2 DEF Twice, Clamp
<1>4. m \in Int /\ n \in Int /\ p \in 1 .. 99 /\ q \in 1 .. 99
  BY <1>2, RewardInRange
<1>. HIDE DEF m, n
<1>5. CASE m > n
  BY <1>2, <1>4, <1>5, NearestOrder
<1>6. CASE n = base
  <2>1. 2 * n < 2 * (2 * base) - base
    BY <1>2, <1>4, <1>6
  <2>2. q < 2
    BY <1>2, <1>4, <2>1, NearestBelow
  <2>. QED BY <1>4, <2>2
<1>7. CASE m = 99 * base
  <2>1. 2 * m > 2 * (98 * base) + base
    BY <1>2, <1>4, <1>7
  <2>2. p > 98
    BY <1>2, <1>4, <2>1, NearestAbove
  <2>. QED BY <1>4, <2>2
<1>. QED BY <1>3, <1>5, <1>6, <1>7

\* A step that was not measured, or not faster than the baseline, gets 0.01
\* (socket_tuner_environment.py:204-217).
THEOREM SlowStepReward ==
  ASSUME NEW base \in Nat, NEW duration \in Nat,
         ~(Comparable(base, duration) /\ duration < base),
         NEW r \in Rewards(base, duration)
  PROVE  r = 1
<1>1. CASE Comparable(base, duration)
  <2>. DEFINE n == Twice(base, duration)
  <2>1. base > 0 /\ r \in Nearest(n, base)
    BY <1>1, RewardsOfMeasured
  <2>2. n = base
    BY <1>1, <2>1 DEF Twice, Clamp
  <2>3. 2 * n < 2 * (2 * base) - base /\ n \in Int
    BY <2>1, <2>2
  <2>. HIDE DEF n
  <2>4. r < 2
    BY <2>1, <2>3, NearestBelow
  <2>5. r \in 1 .. 99
    BY RewardInRange
  <2>. QED BY <2>4, <2>5
<1>2. CASE ~Comparable(base, duration)
  BY <1>2 DEF Rewards
<1>. QED BY <1>1, <1>2

-----------------------------------------------------------------------------
(* Sums.                                                                   *)

\* Induction on the natural numbers, for a set: a number outside of it would have
\* a least one with it.
LEMMA Induction ==
  ASSUME NEW S \in SUBSET Nat, 0 \in S, \A n \in S : n + 1 \in S
  PROVE  S = Nat
<1>1. SUFFICES ASSUME Nat \ S # {} PROVE FALSE
  OBVIOUS
<1>. DEFINE R == OpToRel(<, Nat)
<1>2. IsWellFoundedOn(R, Nat)
  BY NatLessThanWellFounded
<1>3. \A p, q \in Nat : p < q => <<p, q>> \in R
  BY DEF OpToRel
<1>. HIDE DEF R
<1>4. Nat \ S \subseteq Nat
  OBVIOUS
<1>5. PICK x \in Nat \ S : \A y \in Nat \ S : ~(<<y, x>> \in R)
  BY <1>1, <1>2, <1>4, WFMin
<1>6. x - 1 \in Nat \ S /\ x - 1 < x
  BY <1>5
<1>7. <<x - 1, x>> \in R
  BY <1>3, <1>6
<1>. QED BY <1>5, <1>6, <1>7

\* s holds the sums of the first 0, ..., n rewards.
IsPartial(s, r, n) ==
  s = [i \in 0 .. n |-> IF i = 0 THEN 0 ELSE s[i - 1] + r[i]]

\* Partial sums exist: longer ones extend shorter ones.
LEMMA PartialExists ==
  ASSUME NEW r \in Seq(Int)
  PROVE  \E s : IsPartial(s, r, Len(r))
<1>. DEFINE S == {n \in Nat : n <= Len(r) => \E s : IsPartial(s, r, n)}
<1>1. 0 \in S
  <2>. DEFINE s == [i \in 0 .. 0 |-> 0]
  <2>1. IsPartial(s, r, 0)
    BY DEF IsPartial
  <2>. QED BY <2>1
<1>2. ASSUME NEW n \in S PROVE n + 1 \in S
  <2>. SUFFICES ASSUME n + 1 <= Len(r) PROVE \E t : IsPartial(t, r, n + 1)
    OBVIOUS
  <2>1. n \in Nat /\ Len(r) \in Nat
    OBVIOUS
  <2>2. PICK s : IsPartial(s, r, n)
    BY <2>1
  <2>. DEFINE t == [i \in 0 .. n + 1 |-> IF i = n + 1 THEN s[n] + r[n + 1] ELSE s[i]]
  <2>3. \A i \in 0 .. n : t[i] = s[i]
    BY <2>1
  <2>4. \A i \in 0 .. n + 1 : t[i] = IF i = 0 THEN 0 ELSE t[i - 1] + r[i]
    <3>1. ASSUME NEW i \in 0 .. n PROVE t[i] = IF i = 0 THEN 0 ELSE t[i - 1] + r[i]
      <4>1. s[i] = IF i = 0 THEN 0 ELSE s[i - 1] + r[i]
        BY <2>1, <2>2 DEF IsPartial
      <4>. QED BY <2>1, <2>3, <4>1
    <3>2. t[n + 1] = t[n] + r[n + 1]
      BY <2>1, <2>3
    <3>. HIDE DEF t
    <3>3. ASSUME NEW i \in 0 .. n + 1
          PROVE  t[i] = IF i = 0 THEN 0 ELSE t[i - 1] + r[i]
      <4>1. CASE i \in 0 .. n
        BY <3>1, <4>1
      <4>2. CASE i = n + 1
        BY <2>1, <3>2, <4>2
      <4>. QED BY <2>1, <4>1, <4>2
    <3>. QED BY <3>3
  <2>5. t = [i \in 0 .. n + 1 |-> IF i = 0 THEN 0 ELSE t[i - 1] + r[i]]
    <3>1. t = [i \in 0 .. n + 1 |-> t[i]]
      OBVIOUS
    <3>. HIDE DEF t
    <3>. QED BY <2>4, <3>1
  <2>. QED BY <2>5 DEF IsPartial
<1>3. S = Nat
  <2>. HIDE DEF S
  <2>1. S \in SUBSET Nat
    BY DEF S
  <2>. QED BY <1>1, <1>2, <2>1, Induction
<1>4. Len(r) \in S
  <2>. HIDE DEF S
  <2>1. Len(r) \in Nat
    OBVIOUS
  <2>. QED BY <1>3, <2>1
<1>. QED BY <1>4

\* What the recursive definition of Sum computes.
LEMMA SumIs ==
  ASSUME NEW r \in Seq(Int)
  PROVE  \E s \in [0 .. Len(r) -> Int] :
           /\ s[0] = 0
           /\ \A i \in 1 .. Len(r) : s[i] = s[i - 1] + r[i]
           /\ Sum(r) = s[Len(r)]
<1>. DEFINE s == CHOOSE s : IsPartial(s, r, Len(r))
<1>1. Sum(r) = s[Len(r)]
  BY DEF Sum, IsPartial
<1>2. IsPartial(s, r, Len(r))
  BY PartialExists
<1>. HIDE DEF s
<1>3. Len(r) \in Nat
  OBVIOUS
<1>4. s[0] = 0
  BY <1>2, <1>3 DEF IsPartial
<1>5. \A i \in 1 .. Len(r) : s[i] = s[i - 1] + r[i]
  BY <1>2, <1>3 DEF IsPartial
<1>6. s \in [0 .. Len(r) -> Int]
  <2>. DEFINE S == {n \in Nat : n <= Len(r) => s[n] \in Int}
  <2>1. 0 \in S
    BY <1>4
  <2>2. ASSUME NEW n \in S PROVE n + 1 \in S
    BY <1>3, <1>5
  <2>3. S = Nat
    <3>. HIDE DEF S
    <3>1. S \in SUBSET Nat
      BY DEF S
    <3>. QED BY <2>1, <2>2, <3>1, Induction
  <2>4. \A n \in 0 .. Len(r) : s[n] \in Int
    BY <1>3, <2>3
  <2>5. s = [i \in 0 .. Len(r) |-> s[i]]
    BY <1>2 DEF IsPartial
  <2>. QED BY <2>4, <2>5
<1>. QED BY <1>1, <1>4, <1>5, <1>6

\* A sum of natural numbers is at least each of them.
LEMMA SumAtLeast ==
  ASSUME NEW r \in Seq(Nat), NEW k \in 1 .. Len(r)
  PROVE  Sum(r) >= r[k]
<1>1. r \in Seq(Int) /\ Len(r) \in Nat
  OBVIOUS
<1>2. PICK s \in [0 .. Len(r) -> Int] :
        /\ s[0] = 0
        /\ \A i \in 1 .. Len(r) : s[i] = s[i - 1] + r[i]
        /\ Sum(r) = s[Len(r)]
  BY <1>1, SumIs
<1>. DEFINE S == {n \in Nat : n <= Len(r) => s[n] >= 0 /\ (n >= k => s[n] >= r[k])}
<1>3. 0 \in S
  BY <1>2
<1>4. ASSUME NEW n \in S PROVE n + 1 \in S
  <2>. SUFFICES ASSUME n + 1 <= Len(r)
                PROVE  s[n + 1] >= 0 /\ (n + 1 >= k => s[n + 1] >= r[k])
    OBVIOUS
  <2>1. n \in Nat /\ s[n] >= 0 /\ (n >= k => s[n] >= r[k])
    BY <1>1
  <2>. HIDE DEF S
  <2>2. n + 1 \in 1 .. Len(r) /\ n \in 0 .. Len(r) /\ (n + 1) - 1 = n
    BY <1>1, <2>1
  <2>3. r[n + 1] \in Nat /\ r[k] \in Nat
    BY <2>2
  <2>4. s[n] \in Int
    BY <1>2, <2>2
  <2>5. s[n + 1] = s[n] + r[n + 1]
    BY <1>2, <2>2
  <2>6. CASE n + 1 = k
    BY <2>1, <2>3, <2>4, <2>5, <2>6
  <2>7. CASE n + 1 # k
    BY <2>1, <2>3, <2>4, <2>5, <2>7
  <2>. QED BY <2>6, <2>7
<1>5. S = Nat
  <2>. HIDE DEF S
  <2>1. S \in SUBSET Nat
    BY DEF S
  <2>. QED BY <1>3, <1>4, <2>1, Induction
<1>. QED BY <1>1, <1>2, <1>5

\* A sum of ones is their number.
LEMMA SumOfOnes ==
  ASSUME NEW r \in Seq(Int), \A i \in 1 .. Len(r) : r[i] = 1
  PROVE  Sum(r) = Len(r)
<1>1. Len(r) \in Nat
  OBVIOUS
<1>2. PICK s \in [0 .. Len(r) -> Int] :
        /\ s[0] = 0
        /\ \A i \in 1 .. Len(r) : s[i] = s[i - 1] + r[i]
        /\ Sum(r) = s[Len(r)]
  BY <1>1, SumIs
<1>. DEFINE S == {n \in Nat : n <= Len(r) => s[n] = n}
<1>3. 0 \in S
  BY <1>2
<1>4. ASSUME NEW n \in S PROVE n + 1 \in S
  BY <1>1, <1>2
<1>5. S = Nat
  <2>. HIDE DEF S
  <2>1. S \in SUBSET Nat
    BY DEF S
  <2>. QED BY <1>3, <1>4, <2>1, Induction
<1>. QED BY <1>1, <1>2, <1>5

-----------------------------------------------------------------------------
(* Scores.                                                                 *)

\* The score is the rounded quotient of this number and the number of steps.
Total(rewards, maxSteps) ==
  Clamp(10 * Sum(rewards), 10 * maxSteps, 990 * maxSteps)

LEMMA ScoresOfTotal ==
  ASSUME NEW rewards \in Seq(Int), NEW maxSteps \in Nat \ {0}
  PROVE  /\ Sum(rewards) \in Int
         /\ Total(rewards, maxSteps) \in 10 * maxSteps .. 990 * maxSteps
         /\ Scores(rewards, maxSteps) = Nearest(Total(rewards, maxSteps), maxSteps)
<1>1. Sum(rewards) \in Int
  <2>1. PICK s \in [0 .. Len(rewards) -> Int] : Sum(rewards) = s[Len(rewards)]
    BY SumIs
  <2>2. Len(rewards) \in 0 .. Len(rewards)
    OBVIOUS
  <2>. QED BY <2>1, <2>2
<1>. QED BY <1>1 DEF Total, Clamp, Scores

ScoreRange == 10 .. 990

\* A score is one of 0.010, ..., 0.990, also of an episode that took no step
\* (inference.py:274).
THEOREM ScoreInRange ==
  ASSUME NEW rewards \in Seq(Int), NEW maxSteps \in Nat \ {0},
         NEW s \in Scores(rewards, maxSteps)
  PROVE  s \in ScoreRange
<1>. DEFINE n == Total(rewards, maxSteps)
<1>1. n \in 10 * maxSteps .. 990 * maxSteps /\ s \in Nearest(n, maxSteps)
  BY ScoresOfTotal
<1>. HIDE DEF n
<1>2. n \in Int /\ s \in Int /\ maxSteps > 0 /\ maxSteps \in Int
  BY <1>1 DEF Nearest
<1>3. 10 * maxSteps <= n /\ n <= 990 * maxSteps
  BY <1>1, <1>2
<1>. QED BY <1>1, <1>2, <1>3, NearestWithin DEF ScoreRange

LEMMA RewardsAreInts ==
  ASSUME NEW rewards \in Seq(1 .. 99)
  PROVE  rewards \in Seq(Int)
<1>1. 1 .. 99 \subseteq Int
  OBVIOUS
<1>. QED BY <1>1, SeqMonotonic

\* One step with a reward of at least 0.50 lifts the score to 0.50 over the
\* number of steps, whatever the other rewards are (inference.py:273-275).
THEOREM GoodStepScore ==
  ASSUME NEW rewards \in Seq(1 .. 99), NEW maxSteps \in Nat \ {0},
         NEW i \in 1 .. Len(rewards), rewards[i] >= 50,
         NEW threshold \in Nat, threshold * maxSteps <= 500,
         NEW s \in Scores(rewards, maxSteps)
  PROVE  s >= threshold
<1>1. rewards \in Seq(Int) /\ rewards \in Seq(Nat)
  <2>1. 1 .. 99 \subseteq Int /\ 1 .. 99 \subseteq Nat
    OBVIOUS
  <2>. QED BY <2>1, SeqMonotonic
<1>. DEFINE n == Total(rewards, maxSteps)
<1>2. n \in 10 * maxSteps .. 990 * maxSteps /\ s \in Nearest(n, maxSteps)
  BY <1>1, ScoresOfTotal
<1>3. Sum(rewards) \in Int /\ Sum(rewards) >= 50
  <2>1. Sum(rewards) >= rewards[i]
    BY <1>1, SumAtLeast
  <2>2. rewards[i] \in Nat
    BY <1>1
  <2>3. Sum(rewards) \in Int
    BY <1>1, ScoresOfTotal
  <2>. QED BY <2>1, <2>2, <2>3
<1>. DEFINE m == threshold * maxSteps
<1>4. m \in Int /\ m <= 500 /\ m <= 990 * maxSteps
  <2>1. m \in Int /\ m <= 500 /\ maxSteps \in Int /\ maxSteps >= 1
    OBVIOUS
  <2>. HIDE DEF m
  <2>. QED BY <2>1
<1>. HIDE DEF m
<1>5. n \in Int /\ n >= m
  BY <1>2, <1>3, <1>4 DEF Total, Clamp
<1>. HIDE DEF n
<1>6. s \in Int /\ maxSteps > 0 /\ maxSteps \in Int
  BY <1>2 DEF Nearest
<1>7. n <= 990 * maxSteps
  BY <1>2, <1>5, <1>6
<1>8. s \in threshold .. 990
  BY <1>2, <1>5, <1>6, <1>7, NearestWithin DEF m
<1>. QED BY <1>6, <1>8

\* Rewards of 0.01 do not add up: the score of an episode with no other has the
\* least value (inference.py:273-274).
THEOREM UnearnedScore ==
  ASSUME NEW rewards \in Seq(Int), NEW maxSteps \in Nat \ {0},
         Len(rewards) <= maxSteps,
         \A i \in 1 .. Len(rewards) : rewards[i] = 1,
         NEW s \in Scores(rewards, maxSteps)
  PROVE  s = 10
<1>. DEFINE n == Total(rewards, maxSteps)
<1>1. n \in 10 * maxSteps .. 990 * maxSteps /\ s \in Nearest(n, maxSteps)
  BY ScoresOfTotal
<1>2. Sum(rewards) = Len(rewards) /\ Len(rewards) \in Nat
  BY SumOfOnes
<1>3. n = 10 * maxSteps
  BY <1>2 DEF Total, Clamp
<1>. HIDE DEF n
<1>4. n \in Int /\ s \in Int /\ maxSteps > 0 /\ maxSteps \in Int
  BY <1>3, <1>1 DEF Nearest
<1>5. s \in 10 .. 10
  BY <1>1, <1>3, <1>4, NearestWithin
<1>. QED BY <1>5

-----------------------------------------------------------------------------
(* The driver.                                                             *)

Entry == [duration : Durations, reward : 1 .. 99]

\* An episode starts with nothing behind it.
FreshEpisode == dpc \in {"reset", "reset_again"} => history = <<>> /\ ~raised

\* There is room for a step, and the object has counted every step the driver
\* has: failed attempts count for the object only.
StepRoom ==
  dpc = "step" =>
    Len(history) < MAX_STEPS /\ Len(history) <= step_count /\ ~raised

\* Every reward of the episode compares its step with the present baseline.
RewardsOfBaseline ==
  \A i \in 1 .. Len(history) :
    history[i].reward \in Rewards(baseline, history[i].duration)

\* The score is that of the episode.
ScoreOfEpisode ==
  dpc = "end" => score \in Scores(RewardsOf(history), MAX_STEPS)

\* EndReleasesAgent, from the last step on.
LastStepReleases ==
  EnvMaxSteps <= MAX_STEPS /\ dpc \in {"score", "end"} /\ ~raised =>
    session \notin locked \ undelivered

\* The inductive invariant.
InferenceInv ==
  /\ TypeOK
  /\ StepsInOwnSession
  /\ FreshEpisode
  /\ StepRoom
  /\ RewardsOfBaseline
  /\ ScoreOfEpisode
  /\ LastStepReleases

-----------------------------------------------------------------------------

LEMMA ConstantTypes ==
  /\ NumTasks \in Nat /\ NumTasks >= 1
  /\ MAX_STEPS \in Nat /\ MAX_STEPS >= 1
  /\ EnvMaxSteps \in Nat /\ EnvMaxSteps >= 1
  /\ MaxRetries \in Nat /\ MaxRetries >= 1
BY InferenceAssumption

LEMMA InitInference == Init => InferenceInv
<1> SUFFICES ASSUME Init
             PROVE  InferenceInv
  OBVIOUS
<1>1. history \in Seq(Entry) /\ Len(history) = 0
  BY DEF Init
<1>2. raised \in BOOLEAN /\ target \in BOOLEAN /\ ~raised
  BY DEF Init
<1>3. TypeOK
  BY <1>1, <1>2, ConstantTypes, InferenceAssumption DEF Init, TypeOK, Entry
<1>4. QED
  BY <1>1, <1>2, <1>3
  DEF Init, InferenceInv, StepsInOwnSession, FreshEpisode, StepRoom,
      RewardsOfBaseline, ScoreOfEpisode, LastStepReleases

\* Resets.  The session that the object takes over is one of the episode.
LEMMA ObjectResetInv ==
  ASSUME InferenceInv, NEW t \in BOOLEAN, NEW b \in Durations, NEW k \in {1, 2},
         dpc \in {"reset", "reset_again"}, ObjectReset(<<episode, k>>, t, b),
         dpc' \in {"reset_again", "step"}, attempt' \in {0, attempt},
         UNCHANGED <<episode, history, raised, score>>
  PROVE  InferenceInv'
<1>1. <<episode, k>> \in Session
  BY DEF InferenceInv, TypeOK, Session
<1>2. history = <<>> /\ ~raised
  BY DEF InferenceInv, FreshEpisode
<1>3. Len(history) = 0
  BY <1>2
<1>4. /\ session' = <<episode, k>> /\ baseline' = b /\ step_count' = 0
      /\ locked' = locked \union {<<episode, k>>} /\ UNCHANGED undelivered
  BY DEF ObjectReset
<1>5. target' \in BOOLEAN /\ raised' \in BOOLEAN /\ ~raised'
  BY <1>2 DEF ObjectReset, InferenceInv, TypeOK
<1>6. TypeOK'
  BY <1>1, <1>4, <1>5, ConstantTypes DEF InferenceInv, TypeOK
<1>7. StepsInOwnSession'
  BY <1>4 DEF StepsInOwnSession
<1>8. FreshEpisode' /\ StepRoom' /\ RewardsOfBaseline'
  BY <1>2, <1>3, <1>4, <1>5, ConstantTypes
  DEF FreshEpisode, StepRoom, RewardsOfBaseline
<1>9. ScoreOfEpisode' /\ LastStepReleases'
  BY DEF ScoreOfEpisode, LastStepReleases
<1>10. QED
  BY <1>6, <1>7, <1>8, <1>9 DEF InferenceInv

\* An exception leaves the session as it is; the steps taken keep their rewards.
LEMMA RaiseInv ==
  ASSUME InferenceInv, Raise, step_count' \in 0 .. EnvMaxSteps,
         UNCHANGED <<session, target, baseline, locked, undelivered>>
  PROVE  InferenceInv'
<1>1. /\ dpc' = "score" /\ attempt' = 0
      /\ UNCHANGED <<episode, history, score>>
  BY DEF Raise
<1>2. raised' \in BOOLEAN /\ raised'
  BY DEF Raise
<1>3. TypeOK'
  BY <1>1, <1>2, ConstantTypes DEF InferenceInv, TypeOK
<1>4. StepsInOwnSession' /\ FreshEpisode' /\ StepRoom' /\ ScoreOfEpisode'
  BY <1>1 DEF StepsInOwnSession, FreshEpisode, StepRoom, ScoreOfEpisode
<1>5. RewardsOfBaseline'
  BY <1>1 DEF InferenceInv, RewardsOfBaseline
<1>6. LastStepReleases'
  BY <1>2 DEF LastStepReleases
<1>7. QED
  BY <1>3, <1>4, <1>5, <1>6 DEF InferenceInv

\* A failed attempt moves the count of the object only.
LEMMA RetryOrRaiseInv ==
  ASSUME InferenceInv, RetryOrRaise, step_count' \in step_count .. EnvMaxSteps,
         UNCHANGED <<session, target, baseline, locked, undelivered>>
  PROVE  InferenceInv'
<1>1. step_count' \in 0 .. EnvMaxSteps
  BY ConstantTypes DEF InferenceInv, TypeOK
<1>2. CASE attempt < MaxRetries - 1
  <2>1. attempt' = attempt + 1 /\ UNCHANGED <<dpc, episode, history, raised, score>>
    BY <1>2 DEF RetryOrRaise
  <2>2. attempt' \in 0 .. MaxRetries - 1
    BY <1>2, <2>1, ConstantTypes DEF InferenceInv, TypeOK
  <2>3. TypeOK'
    BY <1>1, <2>1, <2>2 DEF InferenceInv, TypeOK
  <2>4. StepsInOwnSession' /\ FreshEpisode' /\ ScoreOfEpisode' /\ LastStepReleases'
    BY <2>1
    DEF InferenceInv, StepsInOwnSession, FreshEpisode, ScoreOfEpisode, LastStepReleases
  <2>5. StepRoom'
    <3> SUFFICES ASSUME dpc' = "step"
                 PROVE  /\ Len(history') < MAX_STEPS
                        /\ Len(history') <= step_count' /\ ~raised'
      BY DEF StepRoom
    <3>1. Len(history) < MAX_STEPS /\ Len(history) <= step_count /\ ~raised
      BY <2>1 DEF InferenceInv, StepRoom
    <3>2. Len(history) \in Nat /\ step_count \in Nat
      BY DEF InferenceInv, TypeOK
    <3>3. Len(history) <= step_count'
      BY <1>1, <3>1, <3>2
    <3>4. QED
      BY <2>1, <3>1, <3>3
  <2>6. RewardsOfBaseline'
    BY <2>1 DEF InferenceInv, RewardsOfBaseline
  <2>7. QED
    BY <2>3, <2>4, <2>5, <2>6 DEF InferenceInv
<1>3. CASE ~(attempt < MaxRetries - 1)
  BY <1>1, <1>3, RaiseInv DEF RetryOrRaise
<1>4. QED
  BY <1>2, <1>3

\* What Close does to the sets, whether it is delivered or not.
LEMMA CloseSessionSets ==
  ASSUME InferenceInv, CloseSession
  PROVE  /\ locked' \subseteq Session
         /\ undelivered' \subseteq locked'
         /\ session \notin locked' \ undelivered'
BY DEF InferenceInv, TypeOK, CloseSession

LEMMA CountedType ==
  ASSUME InferenceInv
  PROVE  /\ Counted \in step_count .. EnvMaxSteps
         /\ Counted \in 0 .. EnvMaxSteps
         /\ Counted < EnvMaxSteps => Counted = step_count + 1
BY ConstantTypes DEF InferenceInv, TypeOK, Counted

\* The step appends to the history; the step that is the driver's last one is
\* the last of the object too.
LEMMA StepSucceedsInv ==
  ASSUME InferenceInv, NEW d \in Durations, NEW r \in Rewards(baseline, d),
         StepSucceeds(d, r)
  PROVE  InferenceInv'
<1>. DEFINE e == [duration |-> d, reward |-> r]
<1>1. d \in Nat /\ baseline \in Nat /\ r \in 1 .. 99
  <2>1. d \in Nat /\ baseline \in Nat
    BY InferenceAssumption DEF InferenceInv, TypeOK
  <2>2. QED
    BY <2>1, RewardInRange
<1>2. e \in Entry
  BY <1>1 DEF Entry
<1>3. /\ e.duration = d /\ e.reward = r
  OBVIOUS
<1>. HIDE DEF e
<1>4. /\ dpc = "step"
      /\ history' = Append(history, e)
      /\ step_count' = Counted
      /\ dpc' = IF Done(d) \/ Len(history') = MAX_STEPS THEN "score" ELSE "step"
      /\ attempt' = 0
      /\ UNCHANGED <<episode, score, session, baseline>>
  BY DEF StepSucceeds, ObjectStep, e
<1>5. UNCHANGED <<raised, target>> /\ raised \in BOOLEAN /\ target \in BOOLEAN
  BY DEF StepSucceeds, ObjectStep, InferenceInv, TypeOK
<1>6. /\ history \in Seq(Entry) /\ Len(history) \in Nat
      /\ Len(history) < MAX_STEPS /\ Len(history) <= step_count /\ ~raised
  BY <1>4 DEF InferenceInv, TypeOK, Entry, StepRoom
<1>7. /\ history' \in Seq(Entry)
      /\ Len(history') = Len(history) + 1
      /\ history'[Len(history) + 1] = e
      /\ \A i \in 1 .. Len(history) : history'[i] = history[i]
  BY <1>2, <1>4, <1>6, AppendProperties
<1>8. /\ Counted \in 0 .. EnvMaxSteps
      /\ Counted < EnvMaxSteps => Counted = step_count + 1
  BY CountedType
<1>9. /\ Done(d) => CloseSession
      /\ ~Done(d) => UNCHANGED <<locked, undelivered>>
  BY DEF StepSucceeds, ObjectStep
<1>10. /\ locked' \subseteq Session /\ undelivered' \subseteq locked'
       /\ Done(d) => session \notin locked' \ undelivered'
  BY <1>9, CloseSessionSets DEF InferenceInv, TypeOK
<1>11. TypeOK'
  BY <1>4, <1>5, <1>6, <1>7, <1>8, <1>10, ConstantTypes DEF InferenceInv, TypeOK, Entry
<1>12. StepsInOwnSession' /\ FreshEpisode' /\ ScoreOfEpisode'
  BY <1>4, <1>9
  DEF InferenceInv, StepsInOwnSession, FreshEpisode, ScoreOfEpisode
<1>13. RewardsOfBaseline'
  <2> SUFFICES ASSUME NEW i \in 1 .. Len(history) + 1
               PROVE  history'[i].reward \in Rewards(baseline, history'[i].duration)
    BY <1>4, <1>7 DEF RewardsOfBaseline
  <2>1. CASE i = Len(history) + 1
    BY <1>3, <1>7, <2>1
  <2>2. CASE i \in 1 .. Len(history)
    BY <1>7, <2>2 DEF InferenceInv, RewardsOfBaseline
  <2>3. QED
    BY <1>6, <2>1, <2>2
<1>14. StepRoom'
  <2> SUFFICES ASSUME dpc' = "step"
               PROVE  /\ Len(history') < MAX_STEPS
                      /\ Len(history') <= step_count' /\ ~raised'
    BY DEF StepRoom
  <2>1. ~Done(d) /\ Len(history') # MAX_STEPS
    BY <1>4
  <2>2. ~(Counted >= EnvMaxSteps)
    BY <2>1 DEF Done
  <2>3. Counted = step_count + 1 /\ step_count \in Nat
    BY <1>8, <2>2, ConstantTypes DEF InferenceInv, TypeOK
  <2>4. QED
    BY <1>4, <1>5, <1>6, <1>7, <2>1, <2>3, ConstantTypes
<1>15. LastStepReleases'
  <2> SUFFICES ASSUME EnvMaxSteps <= MAX_STEPS, dpc' \in {"score", "end"}
               PROVE  Done(d)
    BY <1>4, <1>10 DEF LastStepReleases
  <2> SUFFICES ASSUME Len(history) + 1 = MAX_STEPS
               PROVE  Counted >= EnvMaxSteps
    BY <1>4, <1>7 DEF Done
  <2>1. step_count \in Nat
    BY DEF InferenceInv, TypeOK
  <2>2. QED
    BY <1>6, <1>8, <2>1, ConstantTypes
<1>16. QED
  BY <1>11, <1>12, <1>13, <1>14, <1>15 DEF InferenceInv

\* The numbers of a step can be compared.
LEMMA EntryNumbers ==
  ASSUME InferenceInv, NEW i \in 1 .. Len(history)
  PROVE  history[i].duration \in Nat /\ baseline \in Nat
<1>1. history \in Seq(Entry) /\ baseline \in Durations
  BY DEF InferenceInv, TypeOK, Entry
<1>2. history[i] \in Entry
  BY <1>1, ElementOfSeq, Zenon
<1>3. history[i].duration \in Durations
  BY <1>2 DEF Entry
<1>4. QED
  BY <1>1, <1>3, InferenceAssumption

\* The rewards of an episode, as a sequence.
LEMMA RewardsOfType ==
  ASSUME InferenceInv
  PROVE  /\ RewardsOf(history) \in Seq(1 .. 99)
         /\ Len(RewardsOf(history)) = Len(history)
         /\ \A i \in 1 .. Len(history) : RewardsOf(history)[i] = history[i].reward
<1>1. history \in Seq(Entry) /\ Len(history) \in Nat
  BY DEF InferenceInv, TypeOK, Entry
<1>2. ASSUME NEW i \in 1 .. Len(history)
      PROVE  history[i].reward \in 1 .. 99
  <2>1. history[i] \in Entry
    BY <1>1, ElementOfSeq
  <2>2. QED
    BY <2>1 DEF Entry
<1>3. RewardsOf(history) \in [1 .. Len(history) -> 1 .. 99]
  BY <1>2 DEF RewardsOf
<1>4. RewardsOf(history) \in Seq(1 .. 99)
  <2>. DEFINE S == 1 .. 99
  <2>1. RewardsOf(history) \in [1 .. Len(history) -> S]
    BY <1>3
  <2>. HIDE DEF S
  <2>2. RewardsOf(history) \in UNION {[1 .. n -> S] : n \in Nat}
    BY <1>1, <2>1
  <2>3. RewardsOf(history) \in Seq(S)
    BY <2>2, SeqDef
  <2>4. QED
    BY <2>3 DEF S
<1>5. Len(RewardsOf(history)) = Len(history)
  BY <1>1, <1>3, <1>4
<1>6. QED
  BY <1>4, <1>5 DEF RewardsOf

LEMMA ComputeScoreInv ==
  ASSUME InferenceInv, NEW s \in Scores(RewardsOf(history), MAX_STEPS), ComputeScore(s)
  PROVE  InferenceInv'
<1>1. /\ dpc = "score" /\ dpc' = "end" /\ score' = s
      /\ UNCHANGED <<episode, attempt, history, session, baseline, step_count,
                     locked, undelivered>>
  BY DEF ComputeScore, objectVars
<1>2. UNCHANGED <<raised, target>>
  BY DEF ComputeScore, objectVars
<1>3. s \in 10 .. 990
  <2>1. RewardsOf(history) \in Seq(1 .. 99) /\ MAX_STEPS \in Nat \ {0}
    BY RewardsOfType, ConstantTypes
  <2>2. RewardsOf(history) \in Seq(Int)
    BY <2>1, RewardsAreInts, Zenon
  <2>3. s \in ScoreRange
    BY <2>1, <2>2, ScoreInRange, Zenon
  <2>4. QED
    BY <2>3 DEF ScoreRange
<1>4. TypeOK'
  BY <1>1, <1>2, <1>3 DEF InferenceInv, TypeOK
<1>5. StepsInOwnSession' /\ FreshEpisode' /\ StepRoom'
  BY <1>1 DEF StepsInOwnSession, FreshEpisode, StepRoom
<1>6. RewardsOfBaseline' /\ ScoreOfEpisode'
  BY <1>1 DEF InferenceInv, RewardsOfBaseline, ScoreOfEpisode, RewardsOf
<1>7. LastStepReleases'
  BY <1>1, <1>2 DEF InferenceInv, LastStepReleases
<1>8. QED
  BY <1>4, <1>5, <1>6, <1>7 DEF InferenceInv

LEMMA LogEndInv ==
  ASSUME InferenceInv, LogEnd
  PROVE  InferenceInv'
<1>1. /\ dpc' \in {"reset", "exit"} /\ history' = <<>> /\ score' = 0
      /\ UNCHANGED <<attempt, session, baseline, step_count, locked, undelivered>>
  BY DEF LogEnd, objectVars
<1>2. raised' \in BOOLEAN /\ ~raised' /\ UNCHANGED target
  BY DEF LogEnd, objectVars
<1>3. episode' \in 1 .. NumTasks
  BY ConstantTypes DEF LogEnd, InferenceInv, TypeOK
<1>4. history' \in Seq(Entry) /\ Len(history') = 0
  BY <1>1
<1>5. TypeOK'
  BY <1>1, <1>2, <1>3, <1>4, ConstantTypes DEF InferenceInv, TypeOK, Entry
<1>6. QED
  BY <1>1, <1>2, <1>4, <1>5
  DEF InferenceInv, StepsInOwnSession, FreshEpisode, StepRoom, RewardsOfBaseline,
      ScoreOfEpisode, LastStepReleases

LEMMA ExitInv ==
  ASSUME InferenceInv, Exit
  PROVE  InferenceInv'
<1>1. /\ dpc' = "finished" /\ session' = NoSession
      /\ UNCHANGED <<episode, attempt, history, score, baseline, step_count>>
  BY DEF Exit
<1>2. UNCHANGED <<raised, target>>
  BY DEF Exit
<1>3. locked' \subseteq Session /\ undelivered' \subseteq locked'
  BY CloseSessionSets DEF Exit, InferenceInv, TypeOK
<1>4. TypeOK'
  BY <1>1, <1>2, <1>3 DEF InferenceInv, TypeOK
<1>5. QED
  BY <1>1, <1>4
  DEF InferenceInv, StepsInOwnSession, FreshEpisode, StepRoom, RewardsOfBaseline,
      ScoreOfEpisode, LastStepReleases

LEMMA NextInference == InferenceInv /\ [Next]_vars => InferenceInv'
<1> SUFFICES ASSUME InferenceInv, [Next]_vars
             PROVE  InferenceInv'
  OBVIOUS
<1>1. ASSUME NEW t \in BOOLEAN, NEW b \in Durations, ResetSucceeds(t, b)
      PROVE  InferenceInv'
  BY <1>1, ObjectResetInv DEF ResetSucceeds
<1>2. ASSUME NEW t \in BOOLEAN, NEW b \in Durations, ResetAgainSucceeds(t, b)
      PROVE  InferenceInv'
  BY <1>2, ObjectResetInv DEF ResetAgainSucceeds
<1>3. step_count \in step_count .. EnvMaxSteps /\ step_count \in 0 .. EnvMaxSteps
  BY ConstantTypes DEF InferenceInv, TypeOK
<1>4. CASE ResetBusy
  BY <1>3, <1>4, RetryOrRaiseInv DEF ResetBusy, objectVars
<1>5. CASE ResetFails \/ ResetAgainFails
  BY <1>3, <1>5, RaiseInv DEF ResetFails, ResetAgainFails, objectVars
<1>6. ASSUME NEW d \in Durations, NEW r \in Rewards(baseline, d), StepSucceeds(d, r)
      PROVE  InferenceInv'
  BY <1>6, StepSucceedsInv
<1>7. CASE StepTransient
  BY <1>7, CountedType, RetryOrRaiseInv DEF StepTransient, ObjectStepFails
<1>8. CASE StepFails
  BY <1>8, CountedType, RaiseInv DEF StepFails, ObjectStepFails
<1>9. CASE \E s \in Scores(RewardsOf(history), MAX_STEPS) : ComputeScore(s)
  BY <1>9, ComputeScoreInv
<1>10. CASE LogEnd
  BY <1>10, LogEndInv
<1>11. CASE Exit
  BY <1>11, ExitInv
<1>12. CASE UNCHANGED vars
  BY <1>12
  DEF vars, driverVars, objectVars, InferenceInv, TypeOK, StepsInOwnSession,
      FreshEpisode, StepRoom, RewardsOfBaseline, ScoreOfEpisode, LastStepReleases
<1>13. QED
  BY <1>1, <1>2, <1>4, <1>5, <1>6, <1>7, <1>8, <1>9, <1>10, <1>11, <1>12 DEF Next

-----------------------------------------------------------------------------
(* Theorems.                                                               *)

\* The variables keep their types: no call is tried more often than max_retries,
\* and every reward and every score is within its limits (inference.py:198, 244,
\* 274).
THEOREM InferenceTypeCorrect == Spec => []TypeOK
<1>1. InferenceInv => TypeOK
  BY DEF InferenceInv
<1>2. QED
  BY <1>1, InitInference, NextInference, PTL DEF Spec

\* No step is taken in a session of an earlier episode or in one that has been
\* closed (inference.py:198-206, 230, 270; socket_tuner_environment.py:227-232).
THEOREM InferenceStepsInOwnSession == Spec => []StepsInOwnSession
<1>1. InferenceInv => StepsInOwnSession
  BY DEF InferenceInv
<1>2. QED
  BY <1>1, InitInference, NextInference, PTL DEF Spec

\* An episode that ends without an exception gives its agent back, if the limit
\* of the driver is not below that of the object; both are 5 in the code
\* (inference.py:229; socket_tuner_environment.py:225).
THEOREM InferenceEndReleasesAgent ==
  ASSUME EnvMaxSteps <= MAX_STEPS
  PROVE  Spec => []EndReleasesAgent
<1>1. InferenceInv => EndReleasesAgent
  BY DEF InferenceInv, LastStepReleases, EndReleasesAgent
<1>2. QED
  BY <1>1, InitInference, NextInference, PTL DEF Spec

\* One step that took a quarter of the time less makes the episode a success, if
\* 0.50 over the number of steps reaches the threshold; in the code 0.50 / 5 is
\* exactly 0.1 (socket_tuner_environment.py:212; inference.py:273-284).
THEOREM InferenceGoodStepSucceeds ==
  ASSUME Threshold * MAX_STEPS <= 500
  PROVE  Spec => []GoodStepSucceeds
<1>1. InferenceInv => GoodStepSucceeds
  <2> SUFFICES ASSUME InferenceInv, NEW i \in 1 .. Len(history), dpc = "end",
                      Comparable(baseline, history[i].duration),
                      AtMost(history[i].duration, baseline, 3, 4)
               PROVE  score >= Threshold
    BY DEF GoodStepSucceeds, Success
  <2>1. history[i].duration \in Nat /\ baseline \in Nat
    BY EntryNumbers
  <2>3. history[i].reward \in Rewards(baseline, history[i].duration)
    BY DEF InferenceInv, RewardsOfBaseline
  <2>4. history[i].reward >= 50
    BY <2>1, <2>3, GoodStepReward
  <2>. DEFINE rewards == RewardsOf(history)
  <2>5. rewards \in Seq(1 .. 99) /\ i \in 1 .. Len(rewards) /\ rewards[i] >= 50
    BY <2>4, RewardsOfType
  <2>6. score \in Scores(rewards, MAX_STEPS)
    BY DEF InferenceInv, ScoreOfEpisode
  <2>. HIDE DEF rewards
  <2>7. MAX_STEPS \in Nat \ {0} /\ Threshold \in Nat
    BY InferenceAssumption
  <2>8. QED
    BY <2>5, <2>6, <2>7, GoodStepScore
<1>2. QED
  BY <1>1, InitInference, NextInference, PTL DEF Spec

\* A success is earned by a step that was measured and faster than the baseline:
\* the 0.01 of the other steps do not add up to it, if the threshold is above the
\* least score; it is 0.1 in the code (socket_tuner_environment.py:204-218;
\* inference.py:273-275).
THEOREM InferenceSuccessIsEarned ==
  ASSUME Threshold > 10
  PROVE  Spec => []SuccessIsEarned
<1>1. InferenceInv => SuccessIsEarned
  <2> SUFFICES ASSUME InferenceInv, dpc = "end",
                      \A i \in 1 .. Len(history) :
                        ~(/\ Comparable(baseline, history[i].duration)
                          /\ history[i].duration < baseline)
               PROVE  ~Success
    BY DEF SuccessIsEarned
  <2>1. ASSUME NEW i \in 1 .. Len(history)
        PROVE  history[i].reward = 1
    <3>2. history[i].duration \in Nat /\ baseline \in Nat
      BY EntryNumbers
    <3>3. history[i].reward \in Rewards(baseline, history[i].duration)
      BY DEF InferenceInv, RewardsOfBaseline
    <3>4. QED
      BY <3>2, <3>3, SlowStepReward
  <2>. DEFINE rewards == RewardsOf(history)
  <2>2. rewards \in Seq(1 .. 99) /\ Len(rewards) = Len(history)
    BY RewardsOfType
  <2>3. \A i \in 1 .. Len(rewards) : rewards[i] = 1
    BY <2>1, <2>2, RewardsOfType
  <2>4. score \in Scores(rewards, MAX_STEPS)
    BY DEF InferenceInv, ScoreOfEpisode
  <2>5. Len(rewards) <= MAX_STEPS
    BY <2>2 DEF InferenceInv, TypeOK
  <2>. HIDE DEF rewards
  <2>6. rewards \in Seq(Int)
    <3>1. 1 .. 99 \subseteq Int
      OBVIOUS
    <3>2. QED
      BY <2>2, <3>1, SeqMonotonic
  <2>7. MAX_STEPS \in Nat \ {0} /\ Threshold \in Nat
    BY InferenceAssumption
  <2>8. score = 10
    BY <2>3, <2>4, <2>5, <2>6, <2>7, UnearnedScore
  <2>9. QED
    BY <2>7, <2>8 DEF Success
<1>2. QED
  BY <1>1, InitInference, NextInference, PTL DEF Spec
=============================================================================
