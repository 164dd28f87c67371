--------------------------- MODULE MCScoreSnapshot ---------------------------
EXTENDS ScoreSnapshot, TLC

\* Two scores that a vote may make equal, a score of 0, and an item without one.
MCScores == [i \in Items |-> CASE i = "hill" -> 2 [] i = "lake" -> 1
                               [] i = "park" -> 0 [] OTHER -> Unscored]
MCScoreValues == 0..3
MCUnscored == -1
MCActive == {"hill", "lake"} \cap Items
=============================================================================
