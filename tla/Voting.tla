------------------------------- MODULE Voting -------------------------------
(***************************************************************************)
(* POST /vote (VotingV1Service.updateVoting), the listener that stores the *)
(* new scores (ItemScoreListener), the daily limit with the cron job that  *)
(* clears it, and the clock that turns the day.                            *)
(*                                                                         *)
(* Every await of updateVoting is a step of its own: Node runs one step at *)
(* a time, and any number of requests may be between two awaits.  A        *)
(* request is a member of Requests; pc says which database call it makes   *)
(* next, local holds the local variables it has assigned so far.           *)
(*                                                                         *)
(* createdAt is the value of clock, which each stored document advances;   *)
(* the current UTC day began at dayStart, so "created today" is            *)
(* createdAt >= dayStart.  (Ties of createdAt are not modelled.)           *)
(***************************************************************************)
EXTENDS RatingSystem, VoteRuns

CONSTANTS
  Items, Categories, Users, Addresses, Requests, Ballots, InitialRatings,
  DailyLimit,    \* votes a user has per day: 10 in the code
  NoLimit,       \* no VotingLimit document (null)
  MaxMidnights,  \* bound: how often the UTC day turns
  MaxFaults      \* bound: database errors and process crashes

Voters == Users \cup Addresses
Entries == Items \X Categories

Ballot == [voter : Voters, category : Categories,
           contestant : Items, opponent : Items, winner : Items]

\* The client sends back the two items getComparisonItem offered it; the
\* winner is not validated and may be neither (VotingItem.dto.ts).
ASSUME VotingAssumption ==
  /\ Ballots \subseteq Ballot /\ Ballots # {}
  /\ \A b \in Ballots : b.contestant # b.opponent
  /\ Users \cap Addresses = {}
  /\ InitialRatings \in [Entries -> Int]
  /\ DailyLimit \in Nat \ {0}
  /\ NoLimit \notin Requests
  /\ MaxMidnights \in Nat
  /\ MaxFaults \in Nat

VARIABLES
  pc,            \* [Requests -> Step], the next step of each request
  ballot,        \* [Requests -> Ballots], what the request asks for, once it
                 \* is received
  local,         \* [Requests -> Local], what it has read so far
  votingLimits,  \* the VotingLimit collection; a document's id is the request
                 \* that created it
  votings,       \* the Voting collection, ids likewise
  itemScores,    \* [Entries -> Int], the newest ItemScore of each entry; an
                 \* entry without one counts 0 (?.score ?? 0)
  listener,      \* [Requests -> ListenerStep], the Voting.Created listener
  clock,         \* createdAt of the next document
  dayStart,      \* the time the current UTC day began
  midnights,     \* how often the day has turned
  clearDue,      \* the cron job of the current day has not run yet
  faults,        \* how many faults have happened
  admitted       \* history: admissions of a voter since the last midnight or
                 \* clean-up, [Voters -> Nat]

timeVars == <<dayStart, midnights, clearDue>>
vars == <<pc, ballot, local, votingLimits, votings, itemScores, listener,
          clock, dayStart, midnights, clearDue, faults, admitted>>

Step == {"idle", "limit", "put", "create", "abuse", "discard",
         "contestant", "comparisons", "opponent", "vote",
         "done", "rejected", "failed"}

Finished == {"done", "rejected", "failed"}

ListenerStep == {"none", "contestant", "opponent", "done", "lost"}

Local == [limit : Requests \cup {NoLimit}, count : Nat, contestant : Int,
          comparisons : Nat, opponent : Int]

Limit == [id : Requests, voter : Voters, count : Nat, at : Nat]

Scores == [contestantPrevious : Int, contestantCurrent : Int,
           opponentPrevious : Int, opponentCurrent : Int]

Vote == [id : Requests, ballot : Ballots, scores : Scores, at : Nat]

TypeOK ==
  /\ pc \in [Requests -> Step]
  /\ ballot \in [Requests -> Ballots]
  /\ local \in [Requests -> Local]
  /\ votingLimits \subseteq Limit
  /\ votings \subseteq Vote
  /\ itemScores \in [Entries -> Int]
  /\ listener \in [Requests -> ListenerStep]
  /\ clock \in Nat
  /\ dayStart \in Nat
  /\ midnights \in 0..MaxMidnights
  /\ clearDue \in BOOLEAN
  /\ faults \in 0..MaxFaults
  /\ admitted \in [Voters -> Nat]

Unread == [limit |-> NoLimit, count |-> 0, contestant |-> 0,
           comparisons |-> 0, opponent |-> 0]

Init ==
  /\ pc = [r \in Requests |-> "idle"]
  /\ ballot = [r \in Requests |-> CHOOSE b \in Ballots : TRUE]
  /\ local = [r \in Requests |-> Unread]
  /\ votingLimits = {}
  /\ votings = {}
  /\ itemScores = InitialRatings
  /\ listener = [r \in Requests |-> "none"]
  /\ clock = 0
  /\ dayStart = 0
  /\ midnights = 0
  /\ clearDue = TRUE
  /\ faults = 0
  /\ admitted = [v \in Voters |-> 0]
-----------------------------------------------------------------------------
voter(r) == ballot[r].voter
Contestant(r) == <<ballot[r].contestant, ballot[r].category>>
Opponent(r) == <<ballot[r].opponent, ballot[r].category>>

Today(S) == {d \in S : d.at >= dayStart}

Goto(r, step) == pc' = [pc EXCEPT ![r] = step]

\* A request arrives and its handler runs up to its first await.
Receive(r) ==
  /\ pc[r] = "idle"
  /\ \E b \in Ballots : ballot' = [ballot EXCEPT ![r] = b]
  /\ Goto(r, "limit")
  /\ UNCHANGED <<local, votingLimits, votings, itemScores, listener,
                 clock, timeVars, faults, admitted>>
-----------------------------------------------------------------------------
\* getUserVoting: the voter's limit documents of today; it takes the newest.
LimitsToday(v) == {d \in Today(votingLimits) : d.voter = v}

IsNewest(d, S) == d \in S /\ \A e \in S : e.at <= d.at

\* A user may vote below the daily limit; an address with a document may not.
RejectVote(r) ==
  /\ pc[r] = "limit"
  /\ \E d \in LimitsToday(voter(r)) :
       /\ IsNewest(d, LimitsToday(voter(r)))
       /\ voter(r) \in Addresses \/ d.count >= DailyLimit
  /\ Goto(r, "rejected")
  /\ UNCHANGED <<ballot, local, votingLimits, votings, itemScores, listener,
                 clock, timeVars, faults, admitted>>

Admit(r) == admitted' = [admitted EXCEPT ![voter(r)] = @ + 1]

\* Variant: the document is written back without counting the vote.
FindLimitUncounted(r) ==
  /\ pc[r] = "limit"
  /\ voter(r) \in Users
  /\ \E d \in LimitsToday(voter(r)) :
       /\ IsNewest(d, LimitsToday(voter(r)))
       /\ d.count < DailyLimit
       /\ local' = [local EXCEPT ![r] =
                       [@ EXCEPT !.limit = d.id, !.count = d.count]]
  /\ Goto(r, "put")
  /\ Admit(r)
  /\ UNCHANGED <<ballot, votingLimits, votings, itemScores, listener,
                 clock, timeVars, faults>>

\* Variant: the comparison with the limit is one off.
FindLimitLate(r) ==
  /\ pc[r] = "limit"
  /\ voter(r) \in Users
  /\ \E d \in LimitsToday(voter(r)) :
       /\ IsNewest(d, LimitsToday(voter(r)))
       /\ d.count <= DailyLimit
       /\ local' = [local EXCEPT ![r] =
                       [@ EXCEPT !.limit = d.id, !.count = d.count + 1]]
  /\ Goto(r, "put")
  /\ Admit(r)
  /\ UNCHANGED <<ballot, votingLimits, votings, itemScores, listener,
                 clock, timeVars, faults>>

\* A user below the limit: the document and its next count, written later.
FindLimit(r) ==
  /\ pc[r] = "limit"
  /\ voter(r) \in Users
  /\ \E d \in LimitsToday(voter(r)) :
       /\ IsNewest(d, LimitsToday(voter(r)))
       /\ d.count < DailyLimit
       /\ local' = [local EXCEPT ![r] =
                       [@ EXCEPT !.limit = d.id, !.count = d.count + 1]]
  /\ Goto(r, "put")
  /\ Admit(r)
  /\ UNCHANGED <<ballot, votingLimits, votings, itemScores, listener,
                 clock, timeVars, faults>>

\* No document of today; or the query failed, which getUserVoting reports as
\* null, the same answer.
FindNoLimit(r) ==
  /\ pc[r] = "limit"
  /\ \/ /\ LimitsToday(voter(r)) = {}
        /\ UNCHANGED faults
     \/ /\ faults < MaxFaults
        /\ faults' = faults + 1
  /\ Goto(r, "create")
  /\ Admit(r)
  /\ UNCHANGED <<ballot, local, votingLimits, votings, itemScores, listener,
                 clock, timeVars>>

\* Variant: the write is repeated until it finds the document.
PutLimitRetried(r) ==
  /\ pc[r] = "put"
  /\ \E d \in votingLimits : d.id = local[r].limit
  /\ votingLimits' = {IF d.id = local[r].limit
                      THEN [d EXCEPT !.count = local[r].count] ELSE d
                        : d \in votingLimits}
  /\ Goto(r, "abuse")
  /\ UNCHANGED <<ballot, local, votings, itemScores, listener,
                 clock, timeVars, faults, admitted>>

\* findByIdAndUpdate writes the document read before, count increased; it
\* finds nothing and changes nothing when the document is gone.
PutLimit(r) ==
  /\ pc[r] = "put"
  /\ votingLimits' = {IF d.id = local[r].limit
                      THEN [d EXCEPT !.count = local[r].count] ELSE d
                        : d \in votingLimits}
  /\ Goto(r, "abuse")
  /\ UNCHANGED <<ballot, local, votings, itemScores, listener,
                 clock, timeVars, faults, admitted>>

CreateLimit(r) ==
  /\ pc[r] = "create"
  /\ votingLimits' = votingLimits \cup
       {[id |-> r, voter |-> voter(r), count |-> 1, at |-> clock]}
  /\ clock' = clock + 1
  /\ Goto(r, IF voter(r) \in Users THEN "abuse" ELSE "contestant")
  /\ UNCHANGED <<ballot, local, votings, itemScores, listener,
                 timeVars, faults, admitted>>
-----------------------------------------------------------------------------
VotesToday(u) == {v \in Today(votings) : v.ballot.voter = u}

\* Variant: the loop returns one vote too late.
CheckAbuseLate(r) ==
  /\ pc[r] = "abuse"
  /\ Goto(r, IF InARow(VotesToday(voter(r)), AbuseRun + 1)
             THEN "discard" ELSE "contestant")
  /\ UNCHANGED <<ballot, local, votingLimits, votings, itemScores, listener,
                 clock, timeVars, faults, admitted>>

\* isVotingAbused and the branch on its answer.
CheckAbuse(r) ==
  /\ pc[r] = "abuse"
  /\ Goto(r, IF InARow(VotesToday(voter(r)), AbuseRun)
             THEN "discard" ELSE "contestant")
  /\ UNCHANGED <<ballot, local, votingLimits, votings, itemScores, listener,
                 clock, timeVars, faults, admitted>>

\* Variant: the deletion is not restricted to the day.
DiscardAllVotes(r) ==
  /\ pc[r] = "discard"
  /\ votings' = votings \ {v \in votings : v.ballot.voter = voter(r)}
  /\ Goto(r, "contestant")
  /\ UNCHANGED <<ballot, local, votingLimits, itemScores, listener,
                 clock, timeVars, faults, admitted>>

\* discardUserTodayVotes: createdAt > start of day, where the other queries of
\* the day have >=.  The scores the votes gave remain.
DiscardVotes(r) ==
  /\ pc[r] = "discard"
  /\ votings' = votings \ {v \in VotesToday(voter(r)) : v.at > dayStart}
  /\ Goto(r, "contestant")
  /\ UNCHANGED <<ballot, local, votingLimits, itemScores, listener,
                 clock, timeVars, faults, admitted>>
-----------------------------------------------------------------------------
\* Variant: the score is looked up by item alone (findByItemId).
ReadAnyScore(r) ==
  /\ pc[r] = "contestant"
  /\ \E c \in Categories :
       local' = [local EXCEPT ![r].contestant =
                   itemScores[<<ballot[r].contestant, c>>]]
  /\ Goto(r, "comparisons")
  /\ UNCHANGED <<ballot, votingLimits, votings, itemScores, listener,
                 clock, timeVars, faults, admitted>>

\* The three reads the ratings are computed from, in the order of the code.
ReadContestant(r) ==
  /\ pc[r] = "contestant"
  /\ local' = [local EXCEPT ![r].contestant = itemScores[Contestant(r)]]
  /\ Goto(r, "comparisons")
  /\ UNCHANGED <<ballot, votingLimits, votings, itemScores, listener,
                 clock, timeVars, faults, admitted>>

FindNumberOfComparison(item, category) ==
  Cardinality({v \in votings : /\ v.ballot.category = category
                               /\ item \in {v.ballot.contestant, v.ballot.opponent}})

CountComparisons(r) ==
  /\ pc[r] = "comparisons"
  /\ local' = [local EXCEPT ![r].comparisons =
                 FindNumberOfComparison(ballot[r].contestant, ballot[r].category)]
  /\ Goto(r, "opponent")
  /\ UNCHANGED <<ballot, votingLimits, votings, itemScores, listener,
                 clock, timeVars, faults, admitted>>

ReadOpponent(r) ==
  /\ pc[r] = "opponent"
  /\ local' = [local EXCEPT ![r].opponent = itemScores[Opponent(r)]]
  /\ Goto(r, "vote")
  /\ UNCHANGED <<ballot, votingLimits, votings, itemScores, listener,
                 clock, timeVars, faults, admitted>>

\* The rating of both sides, from what request r has read.
NewScores(r) ==
  [contestantPrevious |-> local[r].contestant,
   contestantCurrent |-> ContestantNext(ballot[r], local[r].contestant,
                            local[r].opponent, local[r].comparisons),
   opponentPrevious |-> local[r].opponent,
   opponentCurrent |-> OpponentNext(ballot[r], local[r].contestant,
                            local[r].opponent, local[r].comparisons)]

\* Variant: no event for a vote that moves no rating.
CreateVoteQuietly(r) ==
  /\ pc[r] = "vote"
  /\ votings' = votings \cup
       {[id |-> r, ballot |-> ballot[r], scores |-> NewScores(r), at |-> clock]}
  /\ clock' = clock + 1
  /\ listener' = IF NewScores(r).contestantCurrent = local[r].contestant
                 THEN listener ELSE [listener EXCEPT ![r] = "contestant"]
  /\ Goto(r, "done")
  /\ UNCHANGED <<ballot, local, votingLimits, itemScores,
                 timeVars, faults, admitted>>

\* votingModel.create, and Voting.Created emitted in the same step: emit calls
\* the listener, which starts its first insert; the response is then sent.
CreateVote(r) ==
  /\ pc[r] = "vote"
  /\ votings' = votings \cup
       {[id |-> r, ballot |-> ballot[r], scores |-> NewScores(r), at |-> clock]}
  /\ clock' = clock + 1
  /\ listener' = [listener EXCEPT ![r] = "contestant"]
  /\ Goto(r, "done")
  /\ UNCHANGED <<ballot, local, votingLimits, itemScores,
                 timeVars, faults, admitted>>

\* handleVotingItemCreatedEvent: two inserts, each of which becomes the newest
\* score of its item.
ScoreContestant(r) ==
  /\ listener[r] = "contestant"
  /\ itemScores' = [itemScores EXCEPT
                      ![Contestant(r)] = NewScores(r).contestantCurrent]
  /\ listener' = [listener EXCEPT ![r] = "opponent"]
  /\ UNCHANGED <<pc, ballot, local, votingLimits, votings,
                 clock, timeVars, faults, admitted>>

\* Variant: the second insert stores the first one's score.
ScoreOpponentSwapped(r) ==
  /\ listener[r] = "opponent"
  /\ itemScores' = [itemScores EXCEPT
                      ![Opponent(r)] = NewScores(r).contestantCurrent]
  /\ listener' = [listener EXCEPT ![r] = "done"]
  /\ UNCHANGED <<pc, ballot, local, votingLimits, votings,
                 clock, timeVars, faults, admitted>>

ScoreOpponent(r) ==
  /\ listener[r] = "opponent"
  /\ itemScores' = [itemScores EXCEPT
                      ![Opponent(r)] = NewScores(r).opponentCurrent]
  /\ listener' = [listener EXCEPT ![r] = "done"]
  /\ UNCHANGED <<pc, ballot, local, votingLimits, votings,
                 clock, timeVars, faults, admitted>>
-----------------------------------------------------------------------------
\* The UTC day turns.  The next document may be created at the very
\* millisecond the day begins, or later.
Midnight ==
  /\ midnights < MaxMidnights
  /\ midnights' = midnights + 1
  /\ dayStart' = clock
  /\ clock' \in {clock, clock + 1}
  /\ clearDue' = TRUE
  /\ admitted' = [v \in Voters |-> 0]
  /\ UNCHANGED <<pc, ballot, local, votingLimits, votings, itemScores,
                 listener, faults>>

\* The cron job deletes every limit document, once a day, at midnight of the
\* server's own time zone: at any time of the UTC day.
ClearVotingLimitRecords ==
  /\ clearDue
  /\ clearDue' = FALSE
  /\ votingLimits' = {}
  /\ admitted' = [v \in Voters |-> 0]
  /\ UNCHANGED <<pc, ballot, local, votings, itemScores, listener,
                 clock, dayStart, midnights, faults>>
-----------------------------------------------------------------------------
Fault == faults < MaxFaults /\ faults' = faults + 1

\* A query of isVotingAbused or discardUserTodayVotes fails: both catch the
\* error and return null, and the request goes on.
MissAbuse(r) ==
  /\ pc[r] \in {"abuse", "discard"}
  /\ Fault
  /\ Goto(r, "contestant")
  /\ UNCHANGED <<ballot, local, votingLimits, votings, itemScores, listener,
                 clock, timeVars, admitted>>

\* Any other query of the handler fails: the request ends with an error.
FailRequest(r) ==
  /\ pc[r] \in {"put", "create", "contestant", "comparisons", "opponent", "vote"}
  /\ Fault
  /\ Goto(r, "failed")
  /\ UNCHANGED <<ballot, local, votingLimits, votings, itemScores, listener,
                 clock, timeVars, admitted>>

Scoring(r) == listener[r] \in {"contestant", "opponent"}

\* An insert of the listener fails: nothing awaits its promise, so the rest of
\* it never runs.
FailListener(r) ==
  /\ Scoring(r)
  /\ Fault
  /\ listener' = [listener EXCEPT ![r] = "lost"]
  /\ UNCHANGED <<pc, ballot, local, votingLimits, votings, itemScores,
                 clock, timeVars, admitted>>

Active(r) == pc[r] \notin Finished \cup {"idle"}

\* The process stops and is started again: requests and listeners under way
\* exist only in its memory.
Crash ==
  /\ Fault
  /\ \E r \in Requests : Active(r) \/ Scoring(r)
  /\ pc' = [r \in Requests |-> IF Active(r) THEN "failed" ELSE pc[r]]
  /\ listener' = [r \in Requests |-> IF Scoring(r) THEN "lost" ELSE listener[r]]
  /\ UNCHANGED <<ballot, local, votingLimits, votings, itemScores,
                 clock, timeVars, admitted>>
-----------------------------------------------------------------------------
Handle(r) ==
  \/ RejectVote(r) \/ FindLimit(r) \/ FindNoLimit(r)
  \/ PutLimit(r) \/ CreateLimit(r)
  \/ CheckAbuse(r) \/ DiscardVotes(r)
  \/ ReadContestant(r) \/ CountComparisons(r) \/ ReadOpponent(r)
  \/ CreateVote(r)

Listen(r) == ScoreContestant(r) \/ ScoreOpponent(r)

Next ==
  \/ \E r \in Requests : \/ Receive(r) \/ Handle(r) \/ Listen(r)
                         \/ MissAbuse(r) \/ FailRequest(r) \/ FailListener(r)
  \/ Midnight \/ ClearVotingLimitRecords \/ Crash

\* Requests overlap in any way.
Spec == Init /\ [][Next]_vars

\* The event loop serves every request and listener that waits.
Fairness == \A r \in Requests : WF_vars(Handle(r)) /\ WF_vars(Listen(r))

FairSpec == Spec /\ Fairness

\* No voter sends a vote before the answer to the previous one.
OnePerVoter ==
  \A r, s \in Requests : Active(r) /\ Active(s) /\ voter(r) = voter(s) => r = s

PatientSpec == Init /\ [][Next /\ OnePerVoter']_vars

\* No request is received while another, or a listener, is under way.
OneAtATime ==
  \A r, s \in Requests :
    (Active(r) \/ Scoring(r)) /\ (Active(s) \/ Scoring(s)) => r = s

SerialSpec == Init /\ [][Next /\ OneAtATime']_vars
-----------------------------------------------------------------------------
\* However requests overlap and whatever fails, no limit document ever counts
\* more than the daily limit: the count written is the count read plus one,
\* and the guard looked at the same read.
CountWithinLimit == \A d \in votingLimits : d.count \in 1..DailyLimit

\* However requests overlap, a decided vote takes from one side what it gives
\* the other; a vote for neither costs the two sides K rating points.
VotesZeroSum ==
  \A v \in votings :
    LET change == v.scores.contestantCurrent - v.scores.contestantPrevious
                  + v.scores.opponentCurrent - v.scores.opponentPrevious
    IN IF Decisive(v.ballot) THEN change = 0
       ELSE change \in {-k * Precision : k \in Factors}

Quota(v) == IF v \in Users THEN DailyLimit ELSE 1

\* A voter who waits for each answer is admitted at most its quota of votes
\* between two turns of the day or clean-ups, and one more quota per fault:
\* getUserVoting takes a failed query for a voter without votes.
QuotaPerFault == \A v \in Voters : admitted[v] <= Quota(v) * (1 + faults)

\* "Checking Daily Voting Limit" (voting-v1.service.ts): without faults, nobody
\* is admitted beyond the quota, however the requests overlap.
DailyQuota == \A v \in Voters : admitted[v] <= Quota(v)

\* A user who waits for each answer never has, today, a run of votes longer
\* than the run that is discarded, but for one vote per failed query: the
\* check precedes the vote, so the run is found by the next request.
NoLongRun ==
  \A u \in Users : ~ InARow(VotesToday(u), AbuseRun + 1 + faults)

\* Votes are deleted only from a user whose votes of today hold a run at the
\* time of the deletion, although the check is a query of its own.
DiscardJustified ==
  [][\A v \in votings \ votings' :
       InARow(VotesToday(v.ballot.voter), AbuseRun)]_vars

\* A vote's new scores replace the scores they were computed from ("on
\* existing score and ranking of these colleges", RatingSystem.service.ts).
AppliedToExistingScores ==
  [][\A r \in Requests :
       listener[r] = "contestant" /\ listener'[r] = "opponent" =>
         /\ itemScores[Contestant(r)] = local[r].contestant
         /\ itemScores[Opponent(r)] = local[r].opponent]_vars

\* The ledger's rating of an entry: the newest score, or the one a listener is
\* about to store.
Pending(e) ==
  {NewScores(r).contestantCurrent :
     r \in {q \in Requests : listener[q] = "contestant" /\ Contestant(q) = e}}
  \cup {NewScores(r).opponentCurrent :
     r \in {q \in Requests : Scoring(q) /\ Opponent(q) = e}}

LedgerRating == [e \in Entries |->
  IF Pending(e) = {} THEN itemScores[e] ELSE CHOOSE s \in Pending(e) : TRUE]

LedgerVotes ==
  {[id |-> v.id, ballot |-> v.ballot, scores |-> v.scores] : v \in votings}

Ledger == INSTANCE RatingLedger
  WITH rating <- LedgerRating, votes <- LedgerVotes,
       cast <- {r \in Requests : pc[r] = "done"}

\* When requests do not overlap and nothing fails, voting is the ledger: one
\* step per vote, on the existing ratings, moving exactly the two items.
ImplementsLedger == Ledger!LedgerSpec

\* Every request is answered, although queries fail and the process crashes: as
\* a request is received once, there is always a later time with none under way.
Answered == []<>(\A r \in Requests : ~Active(r))

\* Both scores of a vote are stored in the end, unless something failed.
VoteIsScored ==
  []<>(\A r \in Requests : pc[r] = "done" => listener[r] = "done" \/ faults > 0)
=============================================================================
