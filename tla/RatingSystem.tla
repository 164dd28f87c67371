---------------------------- MODULE RatingSystem ----------------------------
(***************************************************************************)
(* The Elo arithmetic of utils/eloRating/RatingSystem.service.ts.          *)
(*                                                                         *)
(* Ratings and probabilities are fixed-point integers, in units of         *)
(* 1/Precision: the code rounds both with toFixed(3), i.e. Precision =     *)
(* 1000, and its later operations (a product by an integer K, a sum) are   *)
(* exact at that precision.  The logistic 1/(1+10^(gap/400)), rounded, is  *)
(* a step function of the rating gap; Curve gives the places of its steps. *)
(***************************************************************************)
EXTENDS Integers, FiniteSets

CONSTANTS
  Precision,         \* units per rating point and per probability 1
  Curve,             \* Curve[i]: the least gap whose probability is i or more
  ProvisionalVotes,  \* THRESHOLD_1: comparisons before the rating settles
  MasterRating       \* THRESHOLD_2, in units

ASSUME RatingAssumption ==
  /\ Precision \in Nat \ {0}
  /\ Curve \in [1..Precision -> Int]
  /\ ProvisionalVotes \in Nat
  /\ MasterRating \in Int

\* Equal ratings have an equal chance, toFixed(3) of 0.5, and a half is never
\* rounded across.
ASSUME CurveAssumption ==
  /\ Precision % 2 = 0
  /\ \A i \in 1..Precision : Curve[i] <= 0 <=> 2 * i <= Precision

\* The values calculateKFactor returns; K is the set of them.
Factors == {10, 20, 40}

CalculateProbabilityOfWinning(self, opponent) ==
  Cardinality({i \in 1..Precision : Curve[i] <= self - opponent})

CalculateNextRating(rating, probability, score, k) ==
  rating + k * (score * Precision - probability)

CalculateKFactor(totalComparison, rating) ==
  IF totalComparison < ProvisionalVotes THEN 40
  ELSE IF rating < MasterRating THEN 20 ELSE 10

\* Variant: the contestant is rated by its chance of losing.
ContestantNextSwapped(b, contestant, opponent, comparisons) ==
  CalculateNextRating(contestant,
    CalculateProbabilityOfWinning(opponent, contestant),
    IF b.winner = b.contestant THEN 1 ELSE 0,
    CalculateKFactor(comparisons, contestant))

\* How updateVoting uses the three: both sides move by the contestant's K and
\* the opponent by the complement of the contestant's probability.
ContestantNext(b, contestant, opponent, comparisons) ==
  CalculateNextRating(contestant,
    CalculateProbabilityOfWinning(contestant, opponent),
    IF b.winner = b.contestant THEN 1 ELSE 0,
    CalculateKFactor(comparisons, contestant))

\* Variant: the opponent moves by its own K.
OpponentNextOwnK(b, contestant, opponent, comparisons) ==
  CalculateNextRating(opponent,
    Precision - CalculateProbabilityOfWinning(contestant, opponent),
    IF b.winner = b.opponent THEN 1 ELSE 0,
    CalculateKFactor(comparisons, opponent))

OpponentNext(b, contestant, opponent, comparisons) ==
  CalculateNextRating(opponent,
    Precision - CalculateProbabilityOfWinning(contestant, opponent),
    IF b.winner = b.opponent THEN 1 ELSE 0,
    CalculateKFactor(comparisons, contestant))
=============================================================================
