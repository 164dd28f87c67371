---------------------------- MODULE RatingLedger ----------------------------
(***************************************************************************)
(* What voting promises, without its database round trips: each vote is    *)
(* one step that takes the existing ratings of the two colleges and moves  *)
(* both (RatingSystem.service.ts, "on existing score and ranking of these  *)
(* colleges, system update the score for the winner & loser").             *)
(* Voting implements it when votes do not overlap (property LedgerSpec of  *)
(* that module).                                                           *)
(***************************************************************************)
EXTENDS RatingSystem

CONSTANTS
  Items,           \* the colleges
  Categories,
  Users,           \* signed-in voters, by user id
  Addresses,       \* anonymous voters, by IP address
  Requests,        \* the vote requests of a behaviour, each sent once
  Ballots,         \* the request contents considered
  InitialRatings   \* the ratings when the behaviour starts

Voters == Users \cup Addresses
Entries == Items \X Categories

Ballot == [voter : Voters, category : Categories,
           contestant : Items, opponent : Items, winner : Items]

\* getComparisonItem offers two different items, and an IP is not a user id.
ASSUME BallotsAssumption ==
  /\ Ballots \subseteq Ballot
  /\ \A b \in Ballots : b.contestant # b.opponent
  /\ Users \cap Addresses = {}

ASSUME InitialRatingsAssumption == InitialRatings \in [Entries -> Int]

Scores == [contestantPrevious : Int, contestantCurrent : Int,
           opponentPrevious : Int, opponentCurrent : Int]

VARIABLES
  rating,  \* [Entries -> Int], the current rating of an item in a category
  votes,   \* the votes on record: id, ballot, and the ratings before and after
  cast     \* the requests whose vote was cast, discarded since or not

ledgerVars == <<rating, votes, cast>>

LedgerInit ==
  /\ rating = InitialRatings
  /\ votes = {}
  /\ cast = {}

Decisive(b) == b.winner \in {b.contestant, b.opponent}

Comparisons(item, category) ==
  Cardinality({v \in votes : /\ v.ballot.category = category
                             /\ item \in {v.ballot.contestant, v.ballot.opponent}})

Cast(id, b) ==
  LET contestant == <<b.contestant, b.category>>
      opponent == <<b.opponent, b.category>>
      total == Comparisons(b.contestant, b.category)
      scores == [contestantPrevious |-> rating[contestant],
                 contestantCurrent |->
                   ContestantNext(b, rating[contestant], rating[opponent], total),
                 opponentPrevious |-> rating[opponent],
                 opponentCurrent |->
                   OpponentNext(b, rating[contestant], rating[opponent], total)]
  IN /\ id \notin cast
     /\ cast' = cast \cup {id}
     /\ votes' = votes \cup {[id |-> id, ballot |-> b, scores |-> scores]}
     /\ rating' = [rating EXCEPT ![contestant] = scores.contestantCurrent,
                                 ![opponent] = scores.opponentCurrent]

\* Discarding votes of a user removes the records and keeps their effect.
Discard(u) ==
  /\ \E S \in SUBSET {v \in votes : v.ballot.voter = u} : votes' = votes \ S
  /\ UNCHANGED <<rating, cast>>

LedgerNext ==
  \/ \E id \in Requests, b \in Ballots : Cast(id, b)
  \/ \E u \in Users : Discard(u)

LedgerSpec == LedgerInit /\ [][LedgerNext]_ledgerVars
-----------------------------------------------------------------------------
\* The winner's gain depends on who was expected to win: an upset (the winner
\* was not ahead) pays at least half of the smallest K, an expected win at most
\* half of the largest.
WinnerGain(v) ==
  IF v.ballot.winner = v.ballot.contestant
  THEN v.scores.contestantCurrent - v.scores.contestantPrevious
  ELSE v.scores.opponentCurrent - v.scores.opponentPrevious

WinnerLead(v) ==
  IF v.ballot.winner = v.ballot.contestant
  THEN v.scores.contestantPrevious - v.scores.opponentPrevious
  ELSE v.scores.opponentPrevious - v.scores.contestantPrevious

UpsetPaysMore ==
  \A v \in votes : Decisive(v.ballot) =>
    /\ WinnerLead(v) <= 0 => 2 * WinnerGain(v) >= 10 * Precision
    /\ WinnerLead(v) >= 0 => 2 * WinnerGain(v) <= 40 * Precision
    /\ WinnerGain(v) \in 0..40 * Precision
=============================================================================
