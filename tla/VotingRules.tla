------------------------------ MODULE VotingRules ------------------------------
(***************************************************************************)
(* The two calculations of voting: what votes do to ratings (RatingLedger) *)
(* and what a list of votes says of its voter (VotingAbuse).  A behaviour  *)
(* exercises one of them.                                                  *)
(***************************************************************************)
EXTENDS RatingLedger

CONSTANTS AbuseRun, BallotsSeen, MaxVotes

ASSUME RunAssumption == AbuseRun \in Nat \ {0}

VARIABLE userVotes

Abuse == INSTANCE VotingAbuse

Init == LedgerInit /\ Abuse!Init

Next ==
  \/ userVotes = <<>> /\ LedgerNext /\ UNCHANGED userVotes
  \/ cast = {} /\ Abuse!Next /\ UNCHANGED ledgerVars

Spec == Init /\ [][Next]_<<ledgerVars, userVotes>>
-----------------------------------------------------------------------------
\* The loop of isConsecutiveVotesFound returns true exactly for the lists that hold
\* a run: a vote for neither side must not end a run, a vote for the other side
\* must, and the length test must exclude no list with a run.
LoopFindsRuns == Abuse!LoopFindsRuns
=============================================================================
