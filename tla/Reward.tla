------------------------------- MODULE Reward -------------------------------
(***************************************************************************)
(* The numbers of an episode: the reward of a step                         *)
(* (server/socket_tuner_environment.py) and the score of an episode        *)
(* (inference.py).                                                         *)
(*                                                                         *)
(* Rewards are in hundredths, scores in thousandths.  The quotient of two  *)
(* durations is not computed: n/d is compared by cross-multiplication, and *)
(* round(n/d) is any integer nearest to n/d.  There are two of them in the *)
(* middle between two integers, where it depends on the binary fraction    *)
(* which one Python takes.                                                 *)
(***************************************************************************)
EXTENDS Integers, Sequences

\* The integers nearest to n/d.
Nearest(n, d) ==
  {q \in n \div d .. n \div d + 1 : 2 * q * d - 2 * n \in -d .. d}

\* n, but at least low and at most high.
Clamp(n, low, high) ==
  IF n < low THEN low ELSE IF n > high THEN high ELSE n

\* The run took at most num/den of the time of the baseline.
AtMost(duration, baseline, num, den) == den * duration <= num * baseline

\* Both durations are known.
Comparable(baseline, duration) == baseline > 0 /\ duration > 0

\* Faulty Rewards: the reduction itself, not twice the reduction.
RewardsHalved(baseline, duration) ==
  IF Comparable(baseline, duration)
  THEN Nearest(Clamp(100 * (baseline - duration), baseline, 99 * baseline),
               baseline)
  ELSE {1}

\* Faulty Rewards: a run that was not measured passes for one that took no time.
RewardsUnmeasured(baseline, duration) ==
  IF baseline > 0
  THEN Nearest(Clamp(200 * (baseline - duration), baseline, 99 * baseline),
               baseline)
  ELSE {1}

\* What the reward of a step may be: twice the reduction, 0.01 to 0.99.
Rewards(baseline, duration) ==
  IF Comparable(baseline, duration)
  THEN Nearest(Clamp(200 * (baseline - duration), baseline, 99 * baseline),
               baseline)
  ELSE {1}

\* reduction >= 0.5
DoneEarly(baseline, duration) ==
  Comparable(baseline, duration) /\ AtMost(duration, baseline, 1, 2)

Sum(rewards) ==
  LET partial[i \in 0 .. Len(rewards)] ==
        IF i = 0 THEN 0 ELSE partial[i - 1] + rewards[i]
  IN  partial[Len(rewards)]

\* The score of an episode of at most maxSteps steps: the sum of its rewards
\* over the largest one, 0.010 to 0.990, rounded.
Scores(rewards, maxSteps) ==
  Nearest(Clamp(10 * Sum(rewards), 10 * maxSteps, 990 * maxSteps), maxSteps)
=============================================================================
