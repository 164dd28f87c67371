------------------------------ MODULE VoteRuns ------------------------------
(***************************************************************************)
(* Runs of votes for the same side of the pair, which is what              *)
(* isVotingAbused looks for among a user's votes of the day.  A vote here  *)
(* is a record with a ballot and its creation time at, unique per vote.    *)
(***************************************************************************)
EXTENDS Integers, FiniteSets

CONSTANT AbuseRun   \* votes in a row that count as abuse: 5 in the code

ASSUME AbuseRunAssumption == AbuseRun \in Nat \ {0}

Decisive(b) == b.winner \in {b.contestant, b.opponent}

Side(b) == IF b.winner = b.contestant THEN "contestant" ELSE "opponent"

\* Some n decisive votes of S, consecutive among its decisive votes, all chose
\* the same side; votes for neither side are passed over.
InARow(S, n) ==
  LET decided == {v \in S : Decisive(v.ballot)}
      Between(v, w) == {x \in decided : v.at <= x.at /\ x.at <= w.at}
  IN \E v, w \in decided :
       /\ \A x \in Between(v, w) : Side(x.ballot) = Side(v.ballot)
       /\ Cardinality(Between(v, w)) >= n
=============================================================================
