---------------------------- MODULE VotingAbuse -----------------------------
(***************************************************************************)
(* The loop of isConsecutiveVotesFound over one user's votes, newest first *)
(* as isVotingAbused sorts them, against the definition of a run.  The     *)
(* behaviour enumerates the lists of votes, one vote at a time.            *)
(***************************************************************************)
EXTENDS VoteRuns, Sequences, Functions

CONSTANTS
  BallotsSeen, \* the ballots a vote may hold
  MaxVotes   \* bound: the longest list enumerated

VARIABLE userVotes   \* newest first

\* Variant: a vote for neither side ends the run.
CountStrictly(counts, vote) ==
  IF counts.found THEN counts
  ELSE IF ~Decisive(vote.ballot)
  THEN [side |-> "none", run |-> 0, found |-> FALSE]
  ELSE LET side == Side(vote.ballot)
           run == 1 + IF counts.side = side THEN counts.run ELSE 0
       IN [side |-> side, run |-> run, found |-> run = AbuseRun]

\* One iteration of the for loop; found is its early return.
Count(counts, vote) ==
  IF counts.found \/ ~Decisive(vote.ballot) THEN counts
  ELSE LET side == Side(vote.ballot)
           run == 1 + IF counts.side = side THEN counts.run ELSE 0
       IN [side |-> side, run |-> run, found |-> run = AbuseRun]

\* The counts after each vote.
Counts(votes) ==
  LET counts[n \in 0..Len(votes)] ==
        IF n = 0 THEN [side |-> "none", run |-> 0, found |-> FALSE]
        ELSE Count(counts[n - 1], votes[n])
  IN counts

IsConsecutiveVotesFound(votes) == Counts(votes)[Len(votes)].found

IsVotingAbused(votes) ==
  Len(votes) > AbuseRun - 1 /\ IsConsecutiveVotesFound(votes)

Init == userVotes = <<>>

Next == /\ Len(userVotes) < MaxVotes
        /\ \E b \in BallotsSeen :
             userVotes' = <<[ballot |-> b, at |-> Len(userVotes)]>> \o userVotes

Spec == Init /\ [][Next]_userVotes
-----------------------------------------------------------------------------
\* The loop returns true exactly for the lists that hold a run of AbuseRun
\* votes for one side: a vote for neither side must not end a run, a vote for
\* the other side must, and the length test must exclude no list with a run.
LoopFindsRuns == IsVotingAbused(userVotes) <=> InARow(Range(userVotes), AbuseRun)
=============================================================================
