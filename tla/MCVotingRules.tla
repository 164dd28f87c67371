--------------------------- MODULE MCVotingRules ----------------------------
(* Three colleges in one category; ratings in hundredths, with the true     *)
(* Elo curve at that precision.                                             *)
EXTENDS VotingRules

Half == <<348, 1043, 1739, 2437, 3136, 3838, 4543, 5252, 5965, 6683, 7407,
  8137, 8874, 9620, 10374, 11137, 11912, 12697, 13496, 14308, 15135, 15979,
  16841, 17722, 18625, 19552, 20504, 21485, 22498, 23545, 24631, 25760, 26937,
  28169, 29462, 30824, 32268, 33804, 35450, 37226, 39157, 41281, 43644, 46316,
  49403, 53072, 57619, 63643, 72694, 91955>>

\* 400 * log10(p / (1 - p)) at p = 0.005, 0.015, ... 0.995, rounded up.
MCCurve == [i \in 1..100 |-> IF i > 50 THEN Half[i - 50] ELSE 1 - Half[51 - i]]

MCMaster == 240000
MCInitialRatings ==
  [e \in Entries |-> CASE e[1] = "hill" -> 150000
                       [] e[1] = "lake" -> 239500
                       [] e[1] = "park" -> 239500]

MCBallots ==
  {b \in Ballot : /\ b.contestant # b.opponent
                  /\ b.voter \in Users \/ b.winner = b.contestant}

\* A vote for the contestant, for the opponent, and one whose winner is neither.
MCBallotsSeen == [contestant : {"hill"}, opponent : {"lake"},
                  winner : {"hill", "lake", "park"}]

\* The expectations of RatingSystem.service.spec.ts, in hundredths.
ASSUME SpecTestValues ==
  /\ CalculateProbabilityOfWinning(150000, 130000) = 76
  /\ CalculateProbabilityOfWinning(110000, 160000) = 5
  /\ CalculateNextRating(150000, 76, 1, 32) = 150768
  /\ CalculateNextRating(150000, 76, 0, 32) = 147568
  /\ CalculateKFactor(0, 10000) = 40
  /\ CalculateKFactor(ProvisionalVotes, 10000) = 20
  /\ CalculateKFactor(ProvisionalVotes, 240000) = 10
=============================================================================
