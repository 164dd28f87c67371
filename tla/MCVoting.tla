------------------------------ MODULE MCVoting ------------------------------
(* Instances of Voting for the model checker: ratings in tenths with the    *)
(* true Elo curve at that precision, two colleges, small limits.            *)
EXTENDS VotingInvariants, TLC

\* 400 * log10(p / (1 - p)) at p = 0.05, 0.15, ... 0.95, in tenths, rounded up.
MCCurve == <<-5115, -3013, -1908, -1075, -348, 349, 1076, 1909, 3014, 5116>>

MCInitialRatings == [e \in Entries |-> IF e[1] = "hill" THEN 15000 ELSE 16200]

\* So far apart that the favorite's win moves neither rating.
MCFarRatings == [e \in Entries |-> IF e[1] = "hill" THEN 22000 ELSE 10000]

\* The pair hill, lake, offered in this order.
Pair == {b \in Ballot : b.contestant = "hill" /\ b.opponent = "lake"}

\* Both sides can win.
MCDecided == {b \in Pair : b.winner \in {"hill", "lake"}}

\* The contestant, the opponent, or neither wins, and the pair may be offered
\* in either order.
MCAnyWinner == {b \in Ballot : /\ {b.contestant, b.opponent} = {"hill", "lake"}
                               /\ b.contestant # b.opponent}

\* Every vote is for the contestant: enough where only admission matters.
MCOneSided == {b \in Pair : b.winner = "hill"}

\* What decides admission and abuse: scores, and the listener that stores them,
\* have no influence on it, so states that differ in them alone are one state.
AdmissionView ==
  <<pc, [r \in Requests |-> IF pc[r] \in Finished THEN ballot[r].voter ELSE ballot[r]],
    [r \in Requests |-> IF pc[r] = "put" THEN local[r] ELSE Unread],
    votingLimits, {<<v.id, v.ballot, v.at>> : v \in votings},
    clock, dayStart, midnights, clearDue, faults, admitted>>

\* What decides whether a request is served, for instances with one ballot:
\* which limit document of today is the newest, what the pending writes will
\* change in which document, and how many votes of today a deletion would take
\* or leave.  Scores, earlier votes, ids and the order of the other documents
\* have no influence on that, and admitted is a history: states that differ in
\* those alone have the same steps, so both safety and liveness may take them
\* for one.
Writers(d) == {r \in Requests : pc[r] = "put" /\ local[r].limit = d.id}

ServiceView ==
  <<pc, [r \in Requests |-> IF pc[r] = "put" THEN local[r].count ELSE 0],
    {<<d.count, IsNewest(d, Today(votingLimits)), Writers(d)>> : d \in votingLimits},
    Cardinality(Today(votings)),
    Cardinality({v \in votings : v.at > dayStart}),
    listener, clock > dayStart, midnights, clearDue, faults>>

RequestSymmetry == Permutations(Requests)
=============================================================================
