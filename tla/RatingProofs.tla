---------------------------- MODULE RatingProofs ----------------------------
(***************************************************************************)
(* Facts about the Elo arithmetic, for every curve and every precision.    *)
(***************************************************************************)
EXTENDS RatingSystem, FiniteSetTheorems, NaturalsInduction, WellFoundedInduction, TLAPS

\* A number that no smaller one of a set precedes.
LEMMA LeastNumber ==
  ASSUME NEW T, T \subseteq Nat, T # {}
  PROVE  \E n \in T : \A m \in T : n <= m
<1> DEFINE R == OpToRel(<, Nat)
<1>1. IsWellFoundedOn(R, Nat)
  BY NatLessThanWellFounded
<1>2. ASSUME NEW m \in Nat, NEW n \in Nat, m < n PROVE <<m, n>> \in R
  BY <1>2 DEF OpToRel
<1> HIDE DEF R
<1>3. PICK n \in T : \A m \in T : ~(<<m, n>> \in R)
  BY <1>1, WFMin
<1>4. ASSUME NEW i \in Nat, NEW j \in Nat, ~(<<j, i>> \in R) PROVE i <= j
  <2>1. ~(j < i)
    BY <1>2, <1>4
  <2>2. QED
    BY <2>1
<1>5. n \in Nat /\ \A m \in T : m \in Nat
  OBVIOUS
<1>6. \A m \in T : n <= m
  BY <1>3, <1>4, <1>5, Zenon
<1>7. QED
  BY <1>6

\* The probability calculateProbabilityOfWinning returns lies between 0 and 1,
\* in units of 1/Precision.
LEMMA ProbabilityRange ==
  ASSUME NEW self \in Int, NEW opponent \in Int
  PROVE  CalculateProbabilityOfWinning(self, opponent) \in 0..Precision
<1> DEFINE S == {i \in 1..Precision : Curve[i] <= self - opponent}
<1>1. /\ IsFiniteSet(1..Precision)
      /\ Cardinality(1..Precision) = Precision
  BY FS_Interval, RatingAssumption
<1>2. /\ IsFiniteSet(S)
      /\ Cardinality(S) <= Precision
  BY <1>1, FS_Subset
<1>3. Cardinality(S) \in Nat
  BY <1>2, FS_CardinalityType
<1>4. QED
  BY <1>2, <1>3, RatingAssumption DEF CalculateProbabilityOfWinning

\* calculateKFactor returns one of its three constants.
LEMMA KFactorRange ==
  ASSUME NEW total, NEW rating
  PROVE  CalculateKFactor(total, rating) \in Factors
BY DEF CalculateKFactor, Factors

\* calculateNextRating returns a number of units.
LEMMA NextRatingType ==
  ASSUME NEW rating \in Int, NEW p \in Int, NEW score \in {0, 1}, NEW k \in Factors
  PROVE  CalculateNextRating(rating, p, score, k) \in Int
BY RatingAssumption DEF CalculateNextRating, Factors

\* updateVoting's two new ratings are numbers of units.
LEMMA NextRatingsType ==
  ASSUME NEW b, NEW contestant \in Int, NEW opponent \in Int, NEW total \in Nat
  PROVE  /\ ContestantNext(b, contestant, opponent, total) \in Int
         /\ OpponentNext(b, contestant, opponent, total) \in Int
<1> DEFINE p == CalculateProbabilityOfWinning(contestant, opponent)
           k == CalculateKFactor(total, contestant)
<1>0. p \in 0..Precision
  BY ProbabilityRange
<1> HIDE DEF p
<1>1. p \in Int /\ Precision - p \in Int
  BY <1>0, RatingAssumption
<1>2. k \in Factors
  BY KFactorRange
<1> HIDE DEF k
<1>3. QED
  BY <1>1, <1>2, NextRatingType DEF ContestantNext, OpponentNext, p, k

\* The two new ratings of a ballot between two different items: a decided vote
\* moves as much down as up, a vote for neither side costs K points in all.
LEMMA NextRatingsSum ==
  ASSUME NEW b, b.contestant # b.opponent,
         NEW contestant \in Int, NEW opponent \in Int, NEW total \in Nat
  PROVE  LET change == ContestantNext(b, contestant, opponent, total) - contestant
                       + OpponentNext(b, contestant, opponent, total) - opponent
         IN IF b.winner \in {b.contestant, b.opponent} THEN change = 0
            ELSE change \in {-k * Precision : k \in Factors}
<1> DEFINE p == CalculateProbabilityOfWinning(contestant, opponent)
           K == CalculateKFactor(total, contestant)
           cWin == IF b.winner = b.contestant THEN 1 ELSE 0
           oWin == IF b.winner = b.opponent THEN 1 ELSE 0
           cNext == contestant + K * (cWin * Precision - p)
           oNext == opponent + K * (oWin * Precision - (Precision - p))
<1>1. p \in Int /\ Precision \in Int
  BY ProbabilityRange, RatingAssumption
<1>2. K \in {10, 20, 40}
  BY KFactorRange DEF Factors
<1>3. /\ ContestantNext(b, contestant, opponent, total) = cNext
      /\ OpponentNext(b, contestant, opponent, total) = oNext
  BY DEF ContestantNext, OpponentNext, CalculateNextRating
<1> HIDE DEF p, K
<1>4. CASE b.winner \in {b.contestant, b.opponent}
  <2>1. \/ cWin = 1 /\ oWin = 0
        \/ cWin = 0 /\ oWin = 1
    BY <1>4
  <2>2. cNext - contestant + oNext - opponent = 0
    BY <2>1, <1>1, <1>2
  <2>3. QED
    BY <2>2, <1>3, <1>4
<1>5. CASE b.winner \notin {b.contestant, b.opponent}
  <2>1. cWin = 0 /\ oWin = 0
    BY <1>5
  <2>2. cNext - contestant + oNext - opponent = -K * Precision
    BY <2>1, <1>1, <1>2
  <2>3. cNext - contestant + oNext - opponent \in {-k * Precision : k \in Factors}
    BY <2>2, <1>2 DEF Factors
  <2>4. QED
    BY <2>3, <1>3, <1>5
<1>6. QED
  BY <1>4, <1>5
=============================================================================
