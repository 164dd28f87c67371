---------------------------- MODULE VotingProofs ----------------------------
(***************************************************************************)
(* Voting, for every number of voters, items, categories and requests,     *)
(* every limit and every rating curve: what holds however requests         *)
(* overlap, that votes one at a time implement the ledger, and what        *)
(* waiting for each answer gives a voter: at most one quota of votes per   *)
(* day and one more per fault, no long run, no discard without a run.      *)
(***************************************************************************)
EXTENDS VotingInvariants, RatingProofs, FunctionTheorems

\* Writing the two fields that FindLimit writes keeps the type of the local
\* variables.
LEMMA LocalUpdate ==
  ASSUME NEW l \in Local, NEW d \in Requests, NEW n \in Nat
  PROVE  [l EXCEPT !.limit = d, !.count = n] \in Local
<1>1. [l EXCEPT !.limit = d] \in Local
  BY DEF Local
<1>2. [[l EXCEPT !.limit = d] EXCEPT !.count = n] \in Local
  BY <1>1 DEF Local
<1>3. [l EXCEPT !.limit = d, !.count = n]
        = [[l EXCEPT !.limit = d] EXCEPT !.count = n]
  OBVIOUS
<1>4. QED
  BY <1>2, <1>3
-----------------------------------------------------------------------------
(* Type correctness.  Counting the comparisons needs a finite collection.   *)

TypeInv == TypeOK /\ IsFiniteSet(votings)

\* Under the type invariant the scores a request computes are well typed.
LEMMA NewScoresType ==
  ASSUME TypeOK, NEW r \in Requests
  PROVE  NewScores(r) \in Scores
<1>1. /\ local[r].contestant \in Int
      /\ local[r].opponent \in Int
      /\ local[r].comparisons \in Nat
  BY DEF TypeOK, Local
<1>2. QED
  BY <1>1, NextRatingsType DEF NewScores, Scores

\* The number of comparisons of an item is a natural number.
LEMMA ComparisonsType ==
  ASSUME IsFiniteSet(votings), NEW item, NEW category
  PROVE  FindNumberOfComparison(item, category) \in Nat
BY FS_Subset, FS_CardinalityType DEF FindNumberOfComparison

\* The initial state is well typed.
LEMMA InitTypeInv == Init => TypeInv
<1> SUFFICES ASSUME Init PROVE TypeInv
  OBVIOUS
<1>1. (CHOOSE b \in Ballots : TRUE) \in Ballots
  BY VotingAssumption
<1>2. Unread \in Local
  BY DEF Unread, Local
<1>3. IsFiniteSet(votings)
  BY FS_EmptySet DEF Init
<1>4. QED
  BY <1>1, <1>2, <1>3, VotingAssumption
  DEF Init, TypeInv, TypeOK, Step, ListenerStep

\* Every step of the handler keeps the types.
LEMMA HandleTypeInv ==
  ASSUME TypeInv, NEW r \in Requests, Handle(r)
  PROVE  TypeInv'
<1> USE DEF TypeInv, TypeOK, Step, ListenerStep
<1>0. voter(r) \in Voters
  BY VotingAssumption DEF voter, Ballot
<1>1. CASE RejectVote(r)
  BY <1>1 DEF RejectVote, Goto, timeVars
<1>2. CASE FindLimit(r)
  <2>1. PICK d \in LimitsToday(voter(r)) :
          local' = [local EXCEPT ![r] =
                      [@ EXCEPT !.limit = d.id, !.count = d.count + 1]]
    BY <1>2 DEF FindLimit
  <2>2. d.id \in Requests /\ d.count + 1 \in Nat
    BY <2>1 DEF LimitsToday, Today, Limit
  <2>3. local' \in [Requests -> Local]
    <3>1. [local[r] EXCEPT !.limit = d.id, !.count = d.count + 1] \in Local
      <4>1. local[r] \in Local
        OBVIOUS
      <4>2. QED
        BY <4>1, <2>2, LocalUpdate, Zenon
    <3>2. QED
      BY <2>1, <3>1
  <2>4. admitted' \in [Voters -> Nat]
    BY <1>2, <1>0 DEF FindLimit, Admit
  <2>5. QED
    BY <1>2, <2>3, <2>4 DEF FindLimit, Goto, timeVars
<1>3. CASE FindNoLimit(r)
  <2>1. faults' \in 0..MaxFaults
    BY <1>3, VotingAssumption DEF FindNoLimit
  <2>2. admitted' \in [Voters -> Nat]
    BY <1>3, <1>0 DEF FindNoLimit, Admit
  <2>3. QED
    BY <1>3, <2>1, <2>2 DEF FindNoLimit, Goto, timeVars
<1>4. CASE PutLimit(r)
  <2>1. ASSUME NEW d \in votingLimits
        PROVE  [d EXCEPT !.count = local[r].count] \in Limit
    <3>1. local[r].count \in Nat
      BY DEF Local
    <3>2. QED
      BY <3>1 DEF Limit
  <2>2. votingLimits' \subseteq Limit
    BY <1>4, <2>1 DEF PutLimit
  <2>3. QED
    BY <1>4, <2>2 DEF PutLimit, Goto, timeVars
<1>5. CASE CreateLimit(r)
  <2>1. [id |-> r, voter |-> voter(r), count |-> 1, at |-> clock] \in Limit
    BY <1>0 DEF Limit
  <2>2. pc' \in [Requests -> Step]
    BY <1>5 DEF CreateLimit, Goto
  <2>3. QED
    BY <1>5, <2>1, <2>2 DEF CreateLimit, timeVars
<1>6. CASE CheckAbuse(r)
  BY <1>6 DEF CheckAbuse, Goto, timeVars
<1>7. CASE DiscardVotes(r)
  <2>1. votings' \subseteq votings
    BY <1>7 DEF DiscardVotes
  <2>2. IsFiniteSet(votings')
    BY <2>1, FS_Subset
  <2>3. QED
    BY <1>7, <2>1, <2>2 DEF DiscardVotes, Goto, timeVars
<1>8. CASE ReadContestant(r)
  <2>1. itemScores[Contestant(r)] \in Int
    BY VotingAssumption DEF Contestant, Ballot, Entries
  <2>2. local' \in [Requests -> Local]
    BY <1>8, <2>1 DEF ReadContestant, Local
  <2>3. QED
    BY <1>8, <2>2 DEF ReadContestant, Goto, timeVars
<1>9. CASE CountComparisons(r)
  <2>1. local' \in [Requests -> Local]
    BY <1>9, ComparisonsType DEF CountComparisons, Local
  <2>2. QED
    BY <1>9, <2>1 DEF CountComparisons, Goto, timeVars
<1>10. CASE ReadOpponent(r)
  <2>1. itemScores[Opponent(r)] \in Int
    BY VotingAssumption DEF Opponent, Ballot, Entries
  <2>2. local' \in [Requests -> Local]
    BY <1>10, <2>1 DEF ReadOpponent, Local
  <2>3. QED
    BY <1>10, <2>2 DEF ReadOpponent, Goto, timeVars
<1>11. CASE CreateVote(r)
  <2> DEFINE v == [id |-> r, ballot |-> ballot[r],
                   scores |-> NewScores(r), at |-> clock]
  <2>1. v \in Vote
    BY NewScoresType DEF Vote
  <2>2. IsFiniteSet(votings')
    BY <1>11, FS_AddElement DEF CreateVote
  <2>3. QED
    BY <1>11, <2>1, <2>2 DEF CreateVote, Goto, timeVars
<1>12. QED
  BY <1>1, <1>2, <1>3, <1>4, <1>5, <1>6, <1>7, <1>8, <1>9, <1>10, <1>11
  DEF Handle

\* So does every step of the listener.
LEMMA ListenTypeInv ==
  ASSUME TypeInv, NEW r \in Requests, Listen(r)
  PROVE  TypeInv'
<1>1. NewScores(r) \in Scores
  BY NewScoresType DEF TypeInv
<1>2. QED
  BY <1>1 DEF Listen, ScoreContestant, ScoreOpponent, TypeInv, TypeOK,
              ListenerStep, Scores, timeVars

\* So do arrivals, faults, the turn of the day and the clean-up.
LEMMA OtherTypeInv ==
  ASSUME TypeInv,
         \/ \E r \in Requests : \/ Receive(r) \/ MissAbuse(r)
                                \/ FailRequest(r) \/ FailListener(r)
         \/ Midnight \/ ClearVotingLimitRecords \/ Crash \/ UNCHANGED vars
  PROVE  TypeInv'
<1> USE VotingAssumption DEF TypeInv, TypeOK, Step, ListenerStep
<1>1. ASSUME NEW r \in Requests, Receive(r) PROVE TypeInv'
  BY <1>1 DEF Receive, Goto, timeVars
<1>2. ASSUME NEW r \in Requests, MissAbuse(r) PROVE TypeInv'
  BY <1>2 DEF MissAbuse, Fault, Goto, timeVars
<1>3. ASSUME NEW r \in Requests, FailRequest(r) PROVE TypeInv'
  BY <1>3 DEF FailRequest, Fault, Goto, timeVars
<1>4. ASSUME NEW r \in Requests, FailListener(r) PROVE TypeInv'
  BY <1>4 DEF FailListener, Fault, timeVars
<1>5. CASE Midnight
  BY <1>5 DEF Midnight
<1>6. CASE ClearVotingLimitRecords
  BY <1>6 DEF ClearVotingLimitRecords
<1>7. CASE Crash
  BY <1>7 DEF Crash, Fault, timeVars
<1>8. CASE UNCHANGED vars
  BY <1>8 DEF vars
<1>9. QED
  BY <1>1, <1>2, <1>3, <1>4, <1>5, <1>6, <1>7, <1>8

\* Types are inductive.
LEMMA StepTypeInv == TypeInv /\ [Next]_vars => TypeInv'
BY HandleTypeInv, ListenTypeInv, OtherTypeInv DEF Next

\* Every variable keeps its type, whatever overlaps and whatever fails.
THEOREM TypeCorrect == Spec => []TypeOK
<1>1. TypeInv => TypeOK
  BY DEF TypeInv
<1>2. QED
  BY <1>1, InitTypeInv, StepTypeInv, PTL DEF Spec
-----------------------------------------------------------------------------
(* The count of a limit document.                                           *)

\* The count written is checked by the guard of the read it comes from.
LEMMA StepCountInv == TypeOK /\ CountInv /\ [Next]_vars => CountInv'
<1> SUFFICES ASSUME TypeOK, CountInv, [Next]_vars
             PROVE  CountInv'
  OBVIOUS
<1> USE VotingAssumption DEF TypeOK, CountInv, CountWithinLimit
<1>1. ASSUME NEW r \in Requests, FindLimit(r) PROVE CountInv'
  <2>1. PICK d \in LimitsToday(voter(r)) :
          /\ d.count < DailyLimit
          /\ local' = [local EXCEPT ![r] =
                         [@ EXCEPT !.limit = d.id, !.count = d.count + 1]]
    BY <1>1 DEF FindLimit
  <2>2. d \in votingLimits
    BY DEF LimitsToday, Today
  <2>3. d.count + 1 \in 1..DailyLimit
    BY <2>1, <2>2
  <2>4. local'[r].count = d.count + 1
    BY <2>1 DEF Local
  <2>5. \A s \in Requests : s # r => local'[s] = local[s] /\ pc'[s] = pc[s]
    BY <1>1, <2>1 DEF FindLimit, Goto
  <2>6. QED
    BY <1>1, <2>3, <2>4, <2>5 DEF FindLimit
<1>2. ASSUME NEW r \in Requests, PutLimit(r) PROVE CountInv'
  <2>1. local[r].count \in 1..DailyLimit
    BY <1>2 DEF PutLimit
  <2>2. ASSUME NEW d \in votingLimits
        PROVE  [d EXCEPT !.count = local[r].count].count \in 1..DailyLimit
    BY <2>1 DEF Limit
  <2>3. \A d \in votingLimits' : d.count \in 1..DailyLimit
    BY <1>2, <2>2 DEF PutLimit
  <2>4. QED
    BY <1>2, <2>3 DEF PutLimit, Goto
<1>3. ASSUME NEW r \in Requests, CreateLimit(r) PROVE CountInv'
  BY <1>3 DEF CreateLimit, Goto
<1>4. ASSUME NEW r \in Requests,
             \/ Receive(r) \/ RejectVote(r) \/ FindNoLimit(r)
             \/ CheckAbuse(r) \/ DiscardVotes(r) \/ CreateVote(r)
             \/ MissAbuse(r) \/ FailRequest(r)
      PROVE  CountInv'
  BY <1>4 DEF Receive, RejectVote, FindNoLimit, CheckAbuse, DiscardVotes,
              CreateVote, MissAbuse, FailRequest, Goto
<1>5. ASSUME NEW r \in Requests,
             ReadContestant(r) \/ CountComparisons(r) \/ ReadOpponent(r)
      PROVE  CountInv'
  <2>1. \A s \in Requests : local'[s].count = local[s].count
    BY <1>5 DEF ReadContestant, CountComparisons, ReadOpponent, Local
  <2>2. \A s \in Requests : pc'[s] = "put" => pc[s] = "put"
    BY <1>5 DEF ReadContestant, CountComparisons, ReadOpponent, Goto
  <2>3. votingLimits' = votingLimits
    BY <1>5 DEF ReadContestant, CountComparisons, ReadOpponent
  <2>4. QED
    BY <2>1, <2>2, <2>3
<1>6. ASSUME NEW r \in Requests, Listen(r) \/ FailListener(r) PROVE CountInv'
  BY <1>6 DEF Listen, ScoreContestant, ScoreOpponent, FailListener
<1>7. CASE Midnight \/ ClearVotingLimitRecords \/ Crash
  BY <1>7 DEF Midnight, ClearVotingLimitRecords, Crash
<1>8. CASE UNCHANGED vars
  BY <1>8 DEF vars
<1>9. QED
  BY <1>1, <1>2, <1>3, <1>4, <1>5, <1>6, <1>7, <1>8 DEF Next, Handle

\* No limit document ever counts more than the daily limit, however the
\* requests of a voter overlap and whatever fails (updateVoting, lines 80-85).
THEOREM LimitCountBounded == Spec => []CountWithinLimit
<1>1. Init => CountInv
  BY DEF Init, CountInv, CountWithinLimit
<1>2. CountInv => CountWithinLimit
  BY DEF CountInv
<1>3. TypeInv => TypeOK
  BY DEF TypeInv
<1>4. QED
  BY <1>1, <1>2, <1>3, InitTypeInv, StepTypeInv, StepCountInv, PTL DEF Spec
-----------------------------------------------------------------------------
(* What a stored vote did to the ratings.                                   *)

\* Votes are only added by CreateVote.
LEMMA VotingsStep ==
  [Next]_vars => \/ votings' \subseteq votings
                 \/ \E r \in Requests : CreateVote(r)
BY DEF Next, Handle, Listen, Receive, RejectVote, FindLimit, FindNoLimit,
       PutLimit, CreateLimit, CheckAbuse, DiscardVotes, ReadContestant,
       CountComparisons, ReadOpponent, ScoreContestant, ScoreOpponent,
       Midnight, ClearVotingLimitRecords, MissAbuse, FailRequest,
       FailListener, Crash, vars

\* The vote a request creates conserves rating.
LEMMA StepZeroSum == TypeOK /\ VotesZeroSum /\ [Next]_vars => VotesZeroSum'
<1> SUFFICES ASSUME TypeOK, VotesZeroSum, [Next]_vars
             PROVE  VotesZeroSum'
  OBVIOUS
<1>1. CASE votings' \subseteq votings
  BY <1>1 DEF VotesZeroSum
<1>2. ASSUME NEW r \in Requests, CreateVote(r) PROVE VotesZeroSum'
  <2> DEFINE v == [id |-> r, ballot |-> ballot[r],
                   scores |-> NewScores(r), at |-> clock]
             Change(w) ==
               w.scores.contestantCurrent - w.scores.contestantPrevious
               + w.scores.opponentCurrent - w.scores.opponentPrevious
             Fair(w) ==
               IF Decisive(w.ballot) THEN Change(w) = 0
               ELSE Change(w) \in {-k * Precision : k \in Factors}
             c == local[r].contestant
             o == local[r].opponent
             n == local[r].comparisons
  <2>1. /\ c \in Int /\ o \in Int /\ n \in Nat
        /\ ballot[r] \in Ballots
    BY DEF TypeOK, Local
  <2>2. ballot[r].contestant # ballot[r].opponent
    BY <2>1, VotingAssumption
  <2>3. /\ ContestantNext(ballot[r], c, o, n) \in Int
        /\ OpponentNext(ballot[r], c, o, n) \in Int
    BY <2>1, NextRatingsType
  <2>4. Change(v) = ContestantNext(ballot[r], c, o, n) - c
                    + OpponentNext(ballot[r], c, o, n) - o
    BY DEF NewScores
  <2>5. Fair(v)
    <3> DEFINE d == ContestantNext(ballot[r], c, o, n) - c
                    + OpponentNext(ballot[r], c, o, n) - o
    <3>1. IF ballot[r].winner \in {ballot[r].contestant, ballot[r].opponent}
          THEN d = 0 ELSE d \in {-k * Precision : k \in Factors}
      BY <2>1, <2>2, NextRatingsSum
    <3>2. v.ballot = ballot[r]
      OBVIOUS
    <3> HIDE DEF d, v
    <3>3. Change(v) = d
      BY <2>4 DEF d
    <3>4. QED
      BY <3>1, <3>2, <3>3 DEF Decisive
  <2>6. \A w \in votings : Fair(w)
    BY DEF VotesZeroSum
  <2>7. votings' = votings \cup {v}
    BY <1>2 DEF CreateVote
  <2> HIDE DEF v
  <2>8. \A w \in votings' : Fair(w)
    BY <2>5, <2>6, <2>7
  <2>9. QED
    BY <2>8 DEF VotesZeroSum
<1>3. QED
  BY <1>1, <1>2, VotingsStep

\* However requests overlap, each stored vote takes from one side what it gives
\* the other, and a vote for neither costs the pair K points.
THEOREM VotesConserveRating == Spec => []VotesZeroSum
<1>1. Init => VotesZeroSum
  BY DEF Init, VotesZeroSum
<1>2. TypeInv => TypeOK
  BY DEF TypeInv
<1>3. QED
  BY <1>1, <1>2, InitTypeInv, StepTypeInv, StepZeroSum, PTL DEF Spec
-----------------------------------------------------------------------------
(* Votes one at a time.                                                     *)

\* What a request that computes ratings has read is what is stored, when nobody
\* else is under way; only a stored vote is scored, by a listener of its own.
SerialInv ==
  /\ OneAtATime
  /\ \A r \in Requests :
       /\ listener[r] # "none" => pc[r] = "done"
       /\ pc[r] \in {"comparisons", "opponent", "vote"} \/ listener[r] = "contestant"
            => local[r].contestant = itemScores[Contestant(r)]
       /\ pc[r] = "vote" \/ listener[r] = "contestant"
            => local[r].opponent = itemScores[Opponent(r)]
       /\ pc[r] \in {"opponent", "vote"} => local[r].comparisons =
            FindNumberOfComparison(ballot[r].contestant, ballot[r].category)
       /\ pc[r] \in {"put", "abuse", "discard"} => voter(r) \in Users
  /\ \A v \in votings : pc[v.id] = "done"
  /\ \A v, w \in votings : v.id = w.id => v = w

\* Of a request that is under way no other is.
LEMMA Alone ==
  ASSUME SerialInv, NEW r \in Requests, Active(r) \/ Scoring(r)
  PROVE  \A s \in Requests \ {r} : ~Active(s) /\ ~Scoring(s)
BY DEF SerialInv, OneAtATime

\* A step that leaves what is stored alone, and of one request at most goes on.
LEMMA SerialFrame ==
  ASSUME TypeInv, SerialInv, OneAtATime', UNCHANGED <<votings, itemScores, listener>>,
         NEW r \in Requests, listener[r] = "none" /\ pc[r] # "done",
         \A s \in Requests \ {r} : pc'[s] = pc[s] /\ ballot'[s] = ballot[s] /\ local'[s] = local[s],
         pc'[r] \in {"comparisons", "opponent", "vote"}
           => local'[r].contestant = itemScores[Contestant(r)'],
         pc'[r] = "vote" => local'[r].opponent = itemScores[Opponent(r)'],
         pc'[r] \in {"opponent", "vote"} => local'[r].comparisons =
            FindNumberOfComparison(ballot'[r].contestant, ballot'[r].category),
         pc'[r] \in {"put", "abuse", "discard"} => voter(r)' \in Users
  PROVE  SerialInv'
<1>1. \A s \in Requests \ {r} : /\ Contestant(s)' = Contestant(s) /\ Opponent(s)' = Opponent(s)
                                /\ voter(s)' = voter(s)
  BY DEF Contestant, Opponent, voter
<1>2. \A i, c : FindNumberOfComparison(i, c)' = FindNumberOfComparison(i, c)
  BY DEF FindNumberOfComparison
<1>3. ASSUME NEW s \in Requests
      PROVE  /\ listener'[s] # "none" => pc'[s] = "done"
             /\ pc'[s] \in {"comparisons", "opponent", "vote"} \/ listener'[s] = "contestant"
                  => local'[s].contestant = itemScores'[Contestant(s)']
             /\ pc'[s] = "vote" \/ listener'[s] = "contestant"
                  => local'[s].opponent = itemScores'[Opponent(s)']
             /\ pc'[s] \in {"opponent", "vote"} => local'[s].comparisons =
                  FindNumberOfComparison(ballot'[s].contestant, ballot'[s].category)
             /\ pc'[s] \in {"put", "abuse", "discard"} => voter(s)' \in Users
  <2>1. CASE s = r
    BY <2>1 DEF SerialInv
  <2>2. CASE s # r
    BY <1>1, <2>2 DEF SerialInv
  <2>3. QED
    BY <2>1, <2>2
<1>4. \A v \in votings' : pc'[v.id] = "done"
  BY DEF SerialInv, TypeInv, TypeOK, Vote
<1>5. \A v, w \in votings' : v.id = w.id => v = w
  BY DEF SerialInv
<1>6. QED
  BY <1>2, <1>3, <1>4, <1>5 DEF SerialInv

LEMMA SerialHandle ==
  ASSUME TypeInv, SerialInv, OneAtATime', NEW r \in Requests,
         \/ Receive(r) \/ RejectVote(r) \/ FindLimit(r) \/ FindNoLimit(r) \/ PutLimit(r)
         \/ CreateLimit(r) \/ CheckAbuse(r) \/ ReadContestant(r) \/ CountComparisons(r)
         \/ ReadOpponent(r) \/ MissAbuse(r) \/ FailRequest(r)
  PROVE  /\ SerialInv' /\ UNCHANGED <<votings, itemScores, listener>>
         /\ pc[r] # "done" /\ pc'[r] # "done" /\ listener[r] = "none"
         /\ \A s \in Requests \ {r} :
              pc'[s] = pc[s] /\ ballot'[s] = ballot[s] /\ local'[s] = local[s]
<1> DEFINE Frame == /\ UNCHANGED <<votings, itemScores, listener>>
                    /\ pc[r] # "done" /\ pc'[r] # "done" /\ listener[r] = "none"
                    /\ \A s \in Requests \ {r} :
                         pc'[s] = pc[s] /\ ballot'[s] = ballot[s] /\ local'[s] = local[s]
           Reads ==
             /\ pc'[r] \in {"comparisons", "opponent", "vote"}
                  => local'[r].contestant = itemScores[Contestant(r)']
             /\ pc'[r] = "vote" => local'[r].opponent = itemScores[Opponent(r)']
             /\ pc'[r] \in {"opponent", "vote"} => local'[r].comparisons =
                  FindNumberOfComparison(ballot'[r].contestant, ballot'[r].category)
             /\ pc'[r] \in {"put", "abuse", "discard"} => voter(r)' \in Users
<1>0. /\ pc \in [Requests -> Step] /\ local \in [Requests -> Local]
      /\ ballot \in [Requests -> Ballots]
      /\ pc[r] # "done" => listener[r] = "none"
      /\ \A s \in Requests :
           ballot' = ballot => /\ Contestant(s)' = Contestant(s) /\ Opponent(s)' = Opponent(s)
                               /\ voter(s)' = voter(s)
  BY DEF SerialInv, TypeInv, TypeOK, Contestant, Opponent, voter
<1>1. ASSUME Receive(r) \/ RejectVote(r) \/ FindNoLimit(r) PROVE Frame /\ Reads
  BY <1>0, <1>1 DEF Receive, RejectVote, FindNoLimit, Goto
<1>2. ASSUME FindLimit(r) PROVE Frame /\ Reads
  BY <1>0, <1>2 DEF FindLimit, Goto
<1>3. ASSUME PutLimit(r) \/ CreateLimit(r) \/ CheckAbuse(r) \/ MissAbuse(r) PROVE Frame /\ Reads
  BY <1>0, <1>3 DEF PutLimit, CreateLimit, CheckAbuse, MissAbuse, Goto, SerialInv
<1>4. ASSUME FailRequest(r) PROVE Frame /\ Reads
  BY <1>0, <1>4 DEF FailRequest, Goto
<1>5. ASSUME ReadContestant(r) PROVE Frame /\ Reads
  <2>1. local'[r].contestant = itemScores[Contestant(r)]
    BY <1>0, <1>5 DEF ReadContestant, Local
  <2>2. QED
    BY <1>0, <1>5, <2>1 DEF ReadContestant, Goto
<1>6. ASSUME CountComparisons(r) PROVE Frame /\ Reads
  <2>1. /\ local'[r].comparisons =
             FindNumberOfComparison(ballot[r].contestant, ballot[r].category)
        /\ local'[r].contestant = local[r].contestant
    BY <1>0, <1>6 DEF CountComparisons, Local
  <2>2. QED
    BY <1>0, <1>6, <2>1 DEF CountComparisons, Goto, SerialInv
<1>7. ASSUME ReadOpponent(r) PROVE Frame /\ Reads
  <2>1. /\ local'[r].opponent = itemScores[Opponent(r)]
        /\ local'[r].contestant = local[r].contestant
        /\ local'[r].comparisons = local[r].comparisons
    BY <1>0, <1>7 DEF ReadOpponent, Local
  <2>2. QED
    BY <1>0, <1>7, <2>1 DEF ReadOpponent, Goto, SerialInv
<1>8. Frame /\ Reads
  BY <1>1, <1>2, <1>3, <1>4, <1>5, <1>6, <1>7
<1>9. SerialInv'
  BY <1>8, SerialFrame
<1>10. QED
  BY <1>8, <1>9

LEMMA SerialDiscard ==
  ASSUME TypeInv, SerialInv, OneAtATime', NEW r \in Requests, DiscardVotes(r)
  PROVE  SerialInv'
<1>0. /\ pc \in [Requests -> Step] /\ pc[r] = "discard" /\ pc' = [pc EXCEPT ![r] = "contestant"]
      /\ votings' \subseteq votings /\ UNCHANGED <<ballot, local, itemScores, listener>>
      /\ \A v \in votings : v.id \in Requests
  BY DEF TypeInv, TypeOK, Vote, DiscardVotes, Goto
<1>1. \A s \in Requests \ {r} : pc[s] \notin {"opponent", "vote"}
  BY <1>0, Alone DEF Active, Finished
<1>2. \A s \in Requests : /\ Contestant(s)' = Contestant(s) /\ Opponent(s)' = Opponent(s)
                          /\ voter(s)' = voter(s)
  BY <1>0 DEF Contestant, Opponent, voter
<1>3. ASSUME NEW s \in Requests
      PROVE  /\ listener'[s] # "none" => pc'[s] = "done"
             /\ pc'[s] \in {"comparisons", "opponent", "vote"} \/ listener'[s] = "contestant"
                  => local'[s].contestant = itemScores'[Contestant(s)']
             /\ pc'[s] = "vote" \/ listener'[s] = "contestant"
                  => local'[s].opponent = itemScores'[Opponent(s)']
             /\ pc'[s] \notin {"opponent", "vote"}
             /\ pc'[s] \in {"put", "abuse", "discard"} => voter(s)' \in Users
  BY <1>0, <1>1, <1>2 DEF SerialInv
<1>4. /\ \A v \in votings' : pc'[v.id] = "done"
      /\ \A v, w \in votings' : v.id = w.id => v = w
  BY <1>0 DEF SerialInv
<1>5. QED
  BY <1>3, <1>4 DEF SerialInv

LEMMA SerialCreate ==
  ASSUME TypeInv, SerialInv, OneAtATime', NEW r \in Requests, CreateVote(r)
  PROVE  SerialInv'
<1>0. /\ pc \in [Requests -> Step] /\ pc[r] = "vote" /\ pc' = [pc EXCEPT ![r] = "done"]
      /\ UNCHANGED <<ballot, local, itemScores>>
      /\ listener \in [Requests -> ListenerStep]
      /\ listener' = [listener EXCEPT ![r] = "contestant"]
      /\ votings' = votings \cup
           {[id |-> r, ballot |-> ballot[r], scores |-> NewScores(r), at |-> clock]}
      /\ \A v \in votings : v.id \in Requests
  BY DEF TypeInv, TypeOK, Vote, CreateVote, Goto
<1>1. \A s \in Requests \ {r} : pc[s] \notin {"opponent", "vote"}
  BY <1>0, Alone DEF Active, Finished
<1>2. \A s \in Requests : /\ Contestant(s)' = Contestant(s) /\ Opponent(s)' = Opponent(s)
                          /\ voter(s)' = voter(s)
  BY <1>0 DEF Contestant, Opponent, voter
<1>3. ASSUME NEW s \in Requests
      PROVE  /\ listener'[s] # "none" => pc'[s] = "done"
             /\ pc'[s] \in {"comparisons", "opponent", "vote"} \/ listener'[s] = "contestant"
                  => local'[s].contestant = itemScores'[Contestant(s)']
             /\ pc'[s] = "vote" \/ listener'[s] = "contestant"
                  => local'[s].opponent = itemScores'[Opponent(s)']
             /\ pc'[s] \notin {"opponent", "vote"}
             /\ pc'[s] \in {"put", "abuse", "discard"} => voter(s)' \in Users
  BY <1>0, <1>1, <1>2 DEF SerialInv
<1>4. \A v \in votings : v.id # r
  BY <1>0 DEF SerialInv
<1>5. /\ \A v \in votings' : pc'[v.id] = "done"
      /\ \A v, w \in votings' : v.id = w.id => v = w
  BY <1>0, <1>4 DEF SerialInv
<1>6. QED
  BY <1>3, <1>5 DEF SerialInv

LEMMA SerialListen ==
  ASSUME TypeInv, SerialInv, OneAtATime', NEW r \in Requests, Listen(r)
  PROVE  SerialInv'
<1>0. /\ UNCHANGED <<pc, ballot, local, votings>> /\ listener \in [Requests -> ListenerStep]
      /\ \E to \in {"opponent", "done"} : listener' = [listener EXCEPT ![r] = to]
      /\ Scoring(r) /\ pc[r] = "done"
  BY DEF TypeInv, TypeOK, Listen, ScoreContestant, ScoreOpponent, Scoring, SerialInv
<1>1. \A s \in Requests : /\ Contestant(s)' = Contestant(s) /\ Opponent(s)' = Opponent(s)
                          /\ voter(s)' = voter(s)
  BY <1>0 DEF Contestant, Opponent, voter
<1>2. ASSUME NEW s \in Requests
      PROVE  /\ listener'[s] # "none" => pc'[s] = "done"
             /\ pc'[s] \notin {"comparisons", "opponent", "vote"} /\ listener'[s] # "contestant"
             /\ pc'[s] \in {"put", "abuse", "discard"} => voter(s)' \in Users
  <2>1. CASE s = r
    BY <1>0, <2>1
  <2>2. CASE s # r
    BY <1>0, <1>1, <2>2, Alone DEF SerialInv, Active, Finished, Scoring
  <2>3. QED
    BY <2>1, <2>2
<1>3. /\ \A v \in votings' : pc'[v.id] = "done"
      /\ \A v, w \in votings' : v.id = w.id => v = w
  BY <1>0 DEF SerialInv
<1>4. QED
  BY <1>2, <1>3 DEF SerialInv

LEMMA SerialStop ==
  ASSUME TypeInv, SerialInv, OneAtATime',
         (\E r \in Requests : FailListener(r)) \/ Crash
  PROVE  SerialInv'
<1>0. /\ pc \in [Requests -> Step] /\ listener \in [Requests -> ListenerStep]
      /\ UNCHANGED <<ballot, local, votings, itemScores>>
      /\ \A r \in Requests : pc'[r] \in {pc[r], "failed"} /\ (pc[r] = "done" => pc'[r] = "done")
      /\ \A r \in Requests : listener'[r] = listener[r] \/ (Scoring(r) /\ listener'[r] = "lost")
  BY DEF TypeInv, TypeOK, FailListener, Crash, Active, Finished
<1>1. \A s \in Requests : /\ Contestant(s)' = Contestant(s) /\ Opponent(s)' = Opponent(s)
                          /\ voter(s)' = voter(s)
  BY <1>0 DEF Contestant, Opponent, voter
<1>2. \A i, c : FindNumberOfComparison(i, c)' = FindNumberOfComparison(i, c)
  BY <1>0 DEF FindNumberOfComparison
<1>3. ASSUME NEW s \in Requests
      PROVE  /\ listener'[s] # "none" => pc'[s] = "done"
             /\ pc'[s] \in {"comparisons", "opponent", "vote"} \/ listener'[s] = "contestant"
                  => local'[s].contestant = itemScores'[Contestant(s)']
             /\ pc'[s] = "vote" \/ listener'[s] = "contestant"
                  => local'[s].opponent = itemScores'[Opponent(s)']
             /\ pc'[s] \in {"opponent", "vote"} => local'[s].comparisons =
                  FindNumberOfComparison(ballot'[s].contestant, ballot'[s].category)
             /\ pc'[s] \in {"put", "abuse", "discard"} => voter(s)' \in Users
  BY <1>0, <1>1 DEF SerialInv, Scoring
<1>4. /\ \A v \in votings' : pc'[v.id] = "done"
      /\ \A v, w \in votings' : v.id = w.id => v = w
  BY <1>0 DEF SerialInv, TypeInv, TypeOK, Vote
<1>5. QED
  BY <1>2, <1>3, <1>4 DEF SerialInv

LEMMA StepSerialInv == TypeInv /\ SerialInv /\ [Next /\ OneAtATime']_vars => SerialInv'
<1> SUFFICES ASSUME TypeInv, SerialInv, [Next /\ OneAtATime']_vars
             PROVE  SerialInv'
  OBVIOUS
<1>1. ASSUME UNCHANGED <<pc, ballot, local, votings, itemScores, listener>> PROVE SerialInv'
  BY <1>1 DEF SerialInv, OneAtATime, Active, Scoring, Contestant, Opponent, voter,
              FindNumberOfComparison
<1>2. CASE Midnight \/ ClearVotingLimitRecords \/ UNCHANGED vars
  BY <1>1, <1>2 DEF Midnight, ClearVotingLimitRecords, vars
<1>3. QED
  BY <1>2, SerialHandle, SerialDiscard, SerialCreate, SerialListen, SerialStop DEF Next, Handle

LEMMA InitSerialInv == Init => SerialInv
BY DEF Init, SerialInv, OneAtATime, Active, Scoring, Finished

\* When no two requests or listeners overlap, a vote's new scores replace the very
\* scores they were computed from, whatever fails (RatingSystem.service.ts, "on
\* existing score and ranking of these colleges").
THEOREM ScoresReplaceTheirBasis == SerialSpec => AppliedToExistingScores
<1>1. SerialInv => [\A r \in Requests :
                      listener[r] = "contestant" /\ listener'[r] = "opponent" =>
                        /\ itemScores[Contestant(r)] = local[r].contestant
                        /\ itemScores[Opponent(r)] = local[r].opponent]_vars
  BY DEF SerialInv
<1>2. Init => TypeInv /\ SerialInv
  BY InitTypeInv, InitSerialInv
<1>3. TypeInv /\ SerialInv /\ [Next /\ OneAtATime']_vars => TypeInv' /\ SerialInv'
  BY StepTypeInv, StepSerialInv
<1>4. QED
  BY <1>1, <1>2, <1>3, PTL DEF SerialSpec, AppliedToExistingScores
-----------------------------------------------------------------------------
(* Voting implements the ledger.                                            *)

\* A vote as the ledger keeps it: without its date.
Entered(v) == [id |-> v.id, ballot |-> v.ballot, scores |-> v.scores]

LEMMA SameCardinality == \A S : Ledger!Cardinality(S) = Cardinality(S)
BY DEF Ledger!Cardinality, Cardinality

\* The ledger's arithmetic is that of the handler.
LEMMA LedgerArithmetic ==
  ASSUME NEW b, NEW c, NEW o, NEW n
  PROVE  /\ Ledger!ContestantNext(b, c, o, n) = ContestantNext(b, c, o, n)
         /\ Ledger!OpponentNext(b, c, o, n) = OpponentNext(b, c, o, n)
BY SameCardinality
DEF Ledger!ContestantNext, Ledger!OpponentNext, Ledger!CalculateNextRating,
       Ledger!CalculateProbabilityOfWinning, Ledger!CalculateKFactor,
       ContestantNext, OpponentNext, CalculateNextRating, CalculateProbabilityOfWinning,
       CalculateKFactor

\* The ledger counts as many comparisons as the collection holds.
LEMMA LedgerComparisons ==
  ASSUME TypeInv, SerialInv, NEW i, NEW c
  PROVE  Ledger!Comparisons(i, c) = FindNumberOfComparison(i, c)
<1> DEFINE S == {v \in votings : /\ v.ballot.category = c
                                 /\ i \in {v.ballot.contestant, v.ballot.opponent}}
           T == {v \in LedgerVotes : /\ v.ballot.category = c
                                     /\ i \in {v.ballot.contestant, v.ballot.opponent}}
           f == [v \in S |-> Entered(v)]
<1>1. IsFiniteSet(S)
  BY FS_Subset DEF TypeInv
<1>2. T = {Entered(v) : v \in S}
  BY DEF LedgerVotes, Entered
<1>3. \A v, w \in S : Entered(v) = Entered(w) => v = w
  BY DEF SerialInv, Entered
<1>4. f \in Bijection(S, T)
  <2> HIDE DEF S, T
  <2>1. f \in [S -> T]
    BY <1>2
  <2>2. \A v, w \in S : f[v] = f[w] => v = w
    BY <1>3
  <2>3. \A t \in T : \E v \in S : f[v] = t
    BY <1>2
  <2>4. QED
    BY <2>1, <2>2, <2>3, Fun_IsBij
<1>5. Cardinality(T) = Cardinality(S)
  BY <1>1, <1>4, FS_Bijection DEF ExistsBijection
<1>6. QED
  BY <1>5, SameCardinality DEF Ledger!Comparisons, FindNumberOfComparison

\* The ledger's ratings are the stored ones, and those of the vote that is being
\* scored.
RatingsKnown ==
  /\ (\A r \in Requests : ~Scoring(r)) => LedgerRating = itemScores
  /\ \A r \in Requests : Scoring(r) => \A e \in Entries :
       LedgerRating[e] =
         IF listener[r] = "contestant" /\ e = Contestant(r) THEN NewScores(r).contestantCurrent
         ELSE IF e = Opponent(r) THEN NewScores(r).opponentCurrent
         ELSE itemScores[e]

LEMMA LedgerRatings == TypeInv /\ SerialInv => RatingsKnown
<1> SUFFICES ASSUME TypeInv, SerialInv PROVE RatingsKnown
  OBVIOUS
<1>1. ASSUME \A r \in Requests : ~Scoring(r) PROVE LedgerRating = itemScores
  <2>1. \A e \in Entries : Pending(e) = {}
    BY <1>1 DEF Pending, Scoring
  <2>2. itemScores \in [Entries -> Int]
    BY DEF TypeInv, TypeOK
  <2>3. QED
    BY <2>1, <2>2 DEF LedgerRating
<1>2. ASSUME NEW r \in Requests, Scoring(r), NEW e \in Entries
      PROVE  LedgerRating[e] =
               IF listener[r] = "contestant" /\ e = Contestant(r)
               THEN NewScores(r).contestantCurrent
               ELSE IF e = Opponent(r) THEN NewScores(r).opponentCurrent
               ELSE itemScores[e]
  <2>1. \A q \in Requests : Scoring(q) => q = r
    BY <1>2, Alone
  <2>2. Contestant(r) # Opponent(r)
    BY VotingAssumption DEF Contestant, Opponent, TypeInv, TypeOK
  <2>3. LedgerRating[e] = IF Pending(e) = {} THEN itemScores[e]
                          ELSE CHOOSE s \in Pending(e) : TRUE
    BY DEF LedgerRating
  <2>4. \A s : s \in Pending(e) <=>
          \/ s = NewScores(r).contestantCurrent /\ listener[r] = "contestant" /\ Contestant(r) = e
          \/ s = NewScores(r).opponentCurrent /\ Opponent(r) = e
    BY <1>2, <2>1 DEF Pending, Scoring
  <2>5. CASE listener[r] = "contestant" /\ e = Contestant(r)
    <3>1. Pending(e) = {NewScores(r).contestantCurrent}
      BY <2>2, <2>4, <2>5
    <3>2. QED
      BY <2>3, <2>5, <3>1
  <2>6. CASE ~(listener[r] = "contestant" /\ e = Contestant(r)) /\ e = Opponent(r)
    <3>1. Pending(e) = {NewScores(r).opponentCurrent}
      BY <2>4, <2>6
    <3>2. QED
      BY <2>3, <2>6, <3>1
  <2>7. CASE ~(listener[r] = "contestant" /\ e = Contestant(r)) /\ e # Opponent(r)
    <3>1. Pending(e) = {}
      BY <2>4, <2>7
    <3>2. QED
      BY <2>3, <2>7, <3>1
  <2>8. QED
    BY <2>5, <2>6, <2>7
<1>3. QED
  BY <1>1, <1>2 DEF RatingsKnown

LEMMA LedgerRatingsNext == TypeInv' /\ SerialInv' => RatingsKnown'
BY LedgerRatings, PTL

\* Steps that the ledger does not see.
LEMMA LedgerStutter ==
  ASSUME UNCHANGED <<itemScores, listener>>,
         \A r \in Requests : Scoring(r) => ballot'[r] = ballot[r] /\ local'[r] = local[r]
  PROVE  LedgerRating' = LedgerRating
<1>1. \A r \in Requests : Scoring(r) =>
        /\ NewScores(r)' = NewScores(r)
        /\ Contestant(r)' = Contestant(r) /\ Opponent(r)' = Opponent(r)
  BY DEF NewScores, Contestant, Opponent
<1>2. \A r \in Requests : Scoring(r)' = Scoring(r)
  BY DEF Scoring
<1>3. \A e : Pending(e)' = Pending(e)
  BY <1>1, <1>2 DEF Pending, Scoring
<1>4. ASSUME NEW e \in Entries
      PROVE  (CHOOSE s \in Pending(e)' : TRUE) = (CHOOSE s \in Pending(e) : TRUE)
  BY <1>3, Zenon
<1>5. QED
  BY <1>3, <1>4, Zenon DEF LedgerRating

LedgerCast == {r \in Requests : pc[r] = "done"}

\* The insert of a vote is the ledger's step.
LEMMA CreateCasts ==
  ASSUME TypeInv, SerialInv, TypeInv', SerialInv', NEW r \in Requests, CreateVote(r),
         NEW b \in Ballots, b = ballot[r]
  PROVE  Ledger!Cast(r, b)
<1> DEFINE s == NewScores(r)
<1>0. /\ pc \in [Requests -> Step] /\ pc[r] = "vote" /\ pc' = [pc EXCEPT ![r] = "done"]
      /\ UNCHANGED <<ballot, local, itemScores>> /\ b \in Ballots
      /\ listener \in [Requests -> ListenerStep]
      /\ listener' = [listener EXCEPT ![r] = "contestant"]
      /\ votings' = votings \cup {[id |-> r, ballot |-> b, scores |-> s, at |-> clock]}
  BY DEF TypeInv, TypeOK, CreateVote, Goto
<1>1. \A q \in Requests : ~Scoring(q)
  <2>1. ~Scoring(r)
    BY <1>0 DEF SerialInv, Scoring
  <2>2. QED
    BY <1>0, <2>1, Alone DEF Active, Finished
<1>2. LedgerRating = itemScores
  BY <1>1, LedgerRatings DEF RatingsKnown
<1>3. /\ Contestant(r) = <<b.contestant, b.category>> /\ Opponent(r) = <<b.opponent, b.category>>
      /\ Contestant(r) # Opponent(r) /\ Contestant(r) \in Entries /\ Opponent(r) \in Entries
      /\ itemScores \in [Entries -> Int]
  BY <1>0, VotingAssumption DEF Contestant, Opponent, Entries, Ballot, TypeInv, TypeOK
<1>4. /\ local[r].contestant = itemScores[Contestant(r)]
      /\ local[r].opponent = itemScores[Opponent(r)]
      /\ local[r].comparisons = FindNumberOfComparison(b.contestant, b.category)
  BY <1>0 DEF SerialInv
<1>5. s = [contestantPrevious |-> LedgerRating[Contestant(r)],
           contestantCurrent |->
             Ledger!ContestantNext(b, LedgerRating[Contestant(r)], LedgerRating[Opponent(r)],
                                   Ledger!Comparisons(b.contestant, b.category)),
           opponentPrevious |-> LedgerRating[Opponent(r)],
           opponentCurrent |->
             Ledger!OpponentNext(b, LedgerRating[Contestant(r)], LedgerRating[Opponent(r)],
                                 Ledger!Comparisons(b.contestant, b.category))]
  BY <1>2, <1>4, LedgerArithmetic, LedgerComparisons DEF NewScores
<1>6. LedgerCast' = LedgerCast \cup {r} /\ r \notin LedgerCast
  BY <1>0 DEF LedgerCast
<1>7. LedgerVotes' = LedgerVotes \cup {[id |-> r, ballot |-> b, scores |-> s]}
  <2>1. LedgerVotes' = {Entered(v) : v \in votings'} /\ LedgerVotes = {Entered(v) : v \in votings}
    BY DEF LedgerVotes, Entered
  <2>2. Entered([id |-> r, ballot |-> b, scores |-> s, at |-> clock])
          = [id |-> r, ballot |-> b, scores |-> s]
    BY DEF Entered
  <2> HIDE DEF s
  <2>3. QED
    BY <1>0, <2>1, <2>2
<1>8. LedgerRating' = [LedgerRating EXCEPT ![Contestant(r)] = s.contestantCurrent,
                                           ![Opponent(r)] = s.opponentCurrent]
  <2>1. NewScores(r)' = s /\ Contestant(r)' = Contestant(r) /\ Opponent(r)' = Opponent(r)
    BY <1>0 DEF NewScores, Contestant, Opponent
  <2>2. Scoring(r)' /\ listener'[r] = "contestant"
    BY <1>0 DEF Scoring
  <2> HIDE DEF s
  <2>3. \A e \in Entries :
          LedgerRating'[e] = IF e = Contestant(r) THEN s.contestantCurrent
                             ELSE IF e = Opponent(r) THEN s.opponentCurrent ELSE itemScores[e]
    BY <1>0, <2>1, <2>2, LedgerRatingsNext DEF RatingsKnown
  <2>4. LedgerRating' = [e \in Entries |-> LedgerRating'[e]]
    BY DEF LedgerRating
  <2>5. QED
    BY <1>2, <1>3, <2>3, <2>4
<1> HIDE DEF s
<1>9. QED
  BY <1>3, <1>5, <1>6, <1>7, <1>8 DEF Ledger!Cast, LedgerCast

\* The two inserts of scores are no step of the ledger.
LEMMA ScoringStutters ==
  ASSUME TypeInv, SerialInv, TypeInv', SerialInv', NEW r \in Requests, Listen(r)
  PROVE  LedgerRating' = LedgerRating
<1>0. /\ UNCHANGED <<pc, ballot, local, votings>> /\ listener \in [Requests -> ListenerStep]
      /\ Scoring(r)
  BY DEF TypeInv, TypeOK, Listen, ScoreContestant, ScoreOpponent, Scoring
<1>1. /\ Contestant(r) # Opponent(r) /\ Contestant(r) \in Entries /\ Opponent(r) \in Entries
      /\ itemScores \in [Entries -> Int]
  BY VotingAssumption DEF Contestant, Opponent, Entries, Ballot, TypeInv, TypeOK
<1>2. NewScores(r)' = NewScores(r) /\ Contestant(r)' = Contestant(r) /\ Opponent(r)' = Opponent(r)
  BY <1>0 DEF NewScores, Contestant, Opponent
<1>3. /\ LedgerRating = [e \in Entries |-> LedgerRating[e]]
      /\ LedgerRating' = [e \in Entries |-> LedgerRating'[e]]
  BY DEF LedgerRating
<1>4. \A e \in Entries : LedgerRating[e] =
        IF listener[r] = "contestant" /\ e = Contestant(r) THEN NewScores(r).contestantCurrent
        ELSE IF e = Opponent(r) THEN NewScores(r).opponentCurrent
        ELSE itemScores[e]
  BY <1>0, LedgerRatings DEF RatingsKnown
<1>5. CASE ScoreContestant(r)
  <2>1. /\ itemScores' = [itemScores EXCEPT ![Contestant(r)] = NewScores(r).contestantCurrent]
        /\ listener[r] = "contestant" /\ listener'[r] = "opponent"
    BY <1>0, <1>5 DEF ScoreContestant
  <2>2. \A e \in Entries : LedgerRating'[e] =
          IF e = Opponent(r) THEN NewScores(r).opponentCurrent ELSE itemScores'[e]
    BY <1>2, <2>1, LedgerRatingsNext DEF RatingsKnown, Scoring
  <2>3. \A e \in Entries : LedgerRating'[e] = LedgerRating[e]
    BY <1>1, <1>4, <2>1, <2>2
  <2>4. QED
    BY <1>3, <2>3
<1>6. CASE ScoreOpponent(r)
  <2>1. /\ itemScores' = [itemScores EXCEPT ![Opponent(r)] = NewScores(r).opponentCurrent]
        /\ listener[r] = "opponent" /\ listener' = [listener EXCEPT ![r] = "done"]
    BY <1>6 DEF ScoreOpponent
  <2>2. \A q \in Requests : ~Scoring(q)'
    BY <1>0, <2>1, Alone DEF Scoring
  <2>3. LedgerRating' = itemScores'
    BY <2>2, LedgerRatingsNext DEF RatingsKnown
  <2>4. \A e \in Entries : LedgerRating'[e] = LedgerRating[e]
    BY <1>1, <1>4, <2>1, <2>3
  <2>5. QED
    BY <1>3, <2>4
<1>7. QED
  BY <1>5, <1>6 DEF Listen

\* The deletion of a user's votes is the ledger's.
LEMMA DiscardDiscards ==
  ASSUME TypeInv, SerialInv, NEW r \in Requests, DiscardVotes(r)
  PROVE  Ledger!Discard(voter(r)) /\ voter(r) \in Users
<1>0. /\ pc[r] = "discard" /\ pc' = [pc EXCEPT ![r] = "contestant"]
      /\ pc \in [Requests -> Step]
      /\ UNCHANGED <<ballot, local, itemScores, listener>>
      /\ votings' = votings \ {v \in VotesToday(voter(r)) : v.at > dayStart}
  BY DEF TypeInv, TypeOK, DiscardVotes, Goto
<1> DEFINE D == {v \in VotesToday(voter(r)) : v.at > dayStart}
           S == {Entered(v) : v \in D}
<1>1. voter(r) \in Users
  BY <1>0 DEF SerialInv
<1>2. LedgerRating' = LedgerRating
  BY <1>0, LedgerStutter
<1>3. LedgerCast' = LedgerCast
  BY <1>0 DEF LedgerCast
<1>4. \A v, w \in votings : Entered(v) = Entered(w) => v = w
  BY DEF SerialInv, Entered
<1>5. /\ LedgerVotes = {Entered(v) : v \in votings}
      /\ LedgerVotes' = {Entered(v) : v \in votings'}
  BY DEF LedgerVotes, Entered
<1>6. D \subseteq votings /\ \A v \in D : v.ballot.voter = voter(r)
  BY DEF VotesToday, Today
<1>7. \A v : Entered(v).ballot = v.ballot
  BY DEF Entered
<1> HIDE DEF D
<1>8. S \in SUBSET {v \in LedgerVotes : v.ballot.voter = voter(r)}
  BY <1>5, <1>6, <1>7
<1>9. LedgerVotes' = LedgerVotes \ S
  BY <1>0, <1>4, <1>5, <1>6 DEF D
<1> HIDE DEF S
<1>10. QED
  BY <1>1, <1>2, <1>3, <1>8, <1>9 DEF Ledger!Discard, LedgerCast

\* Every other step is no step of the ledger, when nothing fails.
LEMMA LedgerStep ==
  ASSUME MaxFaults = 0
  PROVE  TypeInv /\ SerialInv /\ TypeInv' /\ SerialInv' /\ [Next]_vars
         => [Ledger!LedgerNext]_(Ledger!ledgerVars)
<1> SUFFICES ASSUME TypeInv, SerialInv, TypeInv', SerialInv', [Next]_vars
             PROVE  [Ledger!LedgerNext]_(Ledger!ledgerVars)
  OBVIOUS
<1> DEFINE Stutter == UNCHANGED <<LedgerRating, LedgerVotes, LedgerCast>>
<1>0. \A r \in Requests : ~MissAbuse(r) /\ ~FailRequest(r) /\ ~FailListener(r) /\ ~Crash
  BY DEF TypeInv, TypeOK, MissAbuse, FailRequest, FailListener, Crash, Fault
<1>1. ASSUME NEW r \in Requests,
             \/ Receive(r) \/ RejectVote(r) \/ FindLimit(r) \/ FindNoLimit(r) \/ PutLimit(r)
             \/ CreateLimit(r) \/ CheckAbuse(r) \/ ReadContestant(r) \/ CountComparisons(r)
             \/ ReadOpponent(r)
      PROVE  Stutter
  <2>1. /\ UNCHANGED <<votings, itemScores, listener>>
        /\ pc[r] # "done" /\ pc'[r] # "done" /\ listener[r] = "none"
        /\ \A s \in Requests \ {r} :
             pc'[s] = pc[s] /\ ballot'[s] = ballot[s] /\ local'[s] = local[s]
    BY <1>1, SerialHandle DEF SerialInv
  <2>2. LedgerRating' = LedgerRating
    BY <2>1, LedgerStutter DEF Scoring
  <2>3. QED
    BY <2>1, <2>2 DEF LedgerVotes, LedgerCast
<1>2. ASSUME UNCHANGED <<pc, ballot, local, votings, itemScores, listener>> PROVE Stutter
  BY <1>2, LedgerStutter DEF LedgerVotes, LedgerCast
<1>3. ASSUME NEW r \in Requests, Listen(r) PROVE Stutter
  <2>1. UNCHANGED <<pc, votings>>
    BY <1>3 DEF Listen, ScoreContestant, ScoreOpponent
  <2>2. QED
    BY <1>3, <2>1, ScoringStutters DEF LedgerVotes, LedgerCast
<1>4. ASSUME NEW r \in Requests, CreateVote(r) PROVE Ledger!LedgerNext
  <2>1. PICK b \in Ballots : b = ballot[r]
    BY DEF TypeInv, TypeOK
  <2>2. Ledger!Cast(r, b)
    BY <1>4, <2>1, CreateCasts
  <2>3. QED
    BY <2>2 DEF Ledger!LedgerNext
<1>5. ASSUME NEW r \in Requests, DiscardVotes(r) PROVE Ledger!LedgerNext
  BY <1>5, DiscardDiscards DEF Ledger!LedgerNext
<1>6. CASE Midnight \/ ClearVotingLimitRecords \/ UNCHANGED vars
  BY <1>2, <1>6 DEF Midnight, ClearVotingLimitRecords, vars, Ledger!ledgerVars, LedgerCast
<1>7. CASE Crash
  BY <1>7 DEF TypeInv, TypeOK, Crash, Fault
<1>8. QED
  BY <1>0, <1>1, <1>3, <1>4, <1>5, <1>6, <1>7
  DEF Next, Handle, Ledger!ledgerVars, LedgerCast

LEMMA InitLedger == Init => Ledger!LedgerInit
<1> SUFFICES ASSUME Init PROVE Ledger!LedgerInit
  OBVIOUS
<1>1. LedgerRating = itemScores
  BY InitTypeInv, InitSerialInv, LedgerRatings DEF Init, RatingsKnown, Scoring
<1>2. QED
  BY <1>1 DEF Init, Ledger!LedgerInit, LedgerVotes

\* When no two requests or listeners overlap and nothing fails, the handler with its
\* reads, its insert and the two inserts of its listener is the ledger: a vote is one
\* step that moves the ratings of its two colleges from what they are, and a
\* discard removes records and no rating.
THEOREM VotingImplementsLedger == MaxFaults = 0 => (SerialSpec => ImplementsLedger)
<1> SUFFICES ASSUME MaxFaults = 0 PROVE SerialSpec => ImplementsLedger
  OBVIOUS
<1>1. Init => TypeInv /\ SerialInv
  BY InitTypeInv, InitSerialInv
<1>2. TypeInv /\ SerialInv /\ [Next /\ OneAtATime']_vars => TypeInv' /\ SerialInv'
  BY StepTypeInv, StepSerialInv
<1>3. TypeInv /\ SerialInv /\ TypeInv' /\ SerialInv' /\ [Next /\ OneAtATime']_vars
      => [Ledger!LedgerNext]_(Ledger!ledgerVars)
  BY LedgerStep
<1>4. QED
  BY <1>1, <1>2, <1>3, InitLedger, PTL DEF SerialSpec, ImplementsLedger, Ledger!LedgerSpec
-----------------------------------------------------------------------------
(* The daily quota of a voter who waits for each answer.                    *)

\* Where the admissions of voters stand when nobody overlaps his own requests.
PatientInv ==
  /\ TypeInv
  /\ CountInv
  /\ DatedInv
  /\ OwnerInv
  /\ QuotaInv
  /\ OnePerVoter

\* A voter has a quota of at least one vote.
LEMMA QuotaType == \A v \in Voters : Quota(v) \in Nat /\ Quota(v) >= 1
BY VotingAssumption DEF Quota

\* The slack is a number; a fault adds one quota to it.
LEMMA SlackType ==
  ASSUME TypeOK, NEW v \in Voters
  PROVE  /\ Slack(v) \in Nat
         /\ faults' = faults => Slack(v)' = Slack(v)
         /\ faults' = faults + 1 => Slack(v)' = Slack(v) + Quota(v)
<1>1. Quota(v) \in Nat /\ faults \in Nat
  BY QuotaType, VotingAssumption DEF TypeOK
<1>2. \A q \in Nat, n \in Nat : q * n \in Nat /\ q * (n + 1) = q * n + q
  OBVIOUS
<1>3. Quota(v)' = Quota(v)
  BY DEF Quota
<1>4. QED
  BY <1>1, <1>2, <1>3 DEF Slack

\* The invariant bounds the admissions of every voter.
LEMMA QuotaBound ==
  ASSUME PatientInv, NEW v \in Voters
  PROVE  /\ admitted[v] \in Nat
         /\ admitted[v] <= Quota(v) + Slack(v)
<1> USE DEF PatientInv, TypeInv
<1>1. /\ admitted[v] \in Nat
      /\ Slack(v) \in Nat
      /\ Quota(v) \in Nat
      /\ Quota(v) >= 1
  BY SlackType, QuotaType DEF TypeOK
<1>2. CASE \E r \in Requests : Deciding(r) /\ voter(r) = v
  <2>1. PICK r \in Requests : Deciding(r) /\ voter(r) = v
    BY <1>2
  <2>2. CASE pc[r] = "create"
    <3>1. admitted[v] <= 1 + Slack(v)
      BY <2>1, <2>2 DEF QuotaInv, DecidingInv
    <3>2. QED
      BY <1>1, <3>1
  <2>3. CASE pc[r] = "put"
    <3>1. admitted[v] <= local[r].count + Slack(v)
      BY <2>1, <2>3 DEF QuotaInv, DecidingInv
    <3>2. local[r].count \in Int /\ local[r].count <= DailyLimit
      BY <2>3, VotingAssumption DEF CountInv
    <3>3. Quota(v) = DailyLimit
      BY <2>1, <2>3 DEF OwnerInv, FoundOwn, Quota
    <3>4. QED
      BY <1>1, <3>1, <3>2, <3>3
  <2>4. QED
    BY <2>1, <2>2, <2>3 DEF Deciding
<1>3. CASE ~ \E r \in Requests : Deciding(r) /\ voter(r) = v
  <2>1. \A r \in Requests : Deciding(r) => voter(r) # v
    BY <1>3
  <2>2. SettledInv(v)
    BY DEF QuotaInv
  <2>3. CASE LimitsToday(v) = {}
    BY <1>1, <2>1, <2>2, <2>3 DEF SettledInv
  <2>4. CASE LimitsToday(v) # {}
    <3>1. PICK d \in LimitsToday(v) : admitted[v] <= d.count + Slack(v)
      BY <2>1, <2>2, <2>4 DEF SettledInv
    <3>2. d \in votingLimits /\ d.voter = v
      BY DEF LimitsToday, Today
    <3>3. d.count \in Nat /\ d.count <= Quota(v)
      BY <3>2 DEF TypeOK, Limit, OwnerInv
    <3>4. QED
      BY <1>1, <3>1, <3>3
  <2>5. QED
    BY <2>3, <2>4
<1>4. QED
  BY <1>1, <1>2, <1>3
-----------------------------------------------------------------------------
(* Steps that leave the documents, the day and the admissions alone.        *)

\* The variables the quota depends on, but for the faults, are unchanged: a
\* request may leave its decision unwritten, none enters one.
Quiet ==
  /\ UNCHANGED <<votingLimits, dayStart, admitted>>
  /\ clock' \in Nat /\ clock <= clock'
  /\ \A r \in Requests :
       /\ Decided(r) => Decided(r)'
       /\ Deciding(r)' =>
            /\ pc'[r] = pc[r]
            /\ ballot'[r] = ballot[r]
            /\ local'[r] = local[r]

\* Documents and days do not depend on who else runs.
LEMMA QuietOwnerInv ==
  ASSUME TypeOK, OwnerInv, DatedInv, Quiet
  PROVE  OwnerInv' /\ DatedInv'
<1>1. DatedInv'
  <2>1. \A v \in Voters : LimitsToday(v)' = LimitsToday(v)
    BY DEF Quiet, LimitsToday, Today
  <2>2. \A d \in votingLimits : d.at \in Nat
    BY DEF TypeOK, Limit
  <2>3. QED
    BY <2>1, <2>2 DEF Quiet, DatedInv, TypeOK, IsNewest
<1>2. \A d \in votingLimits' : Decided(d.id)' /\ d.count <= Quota(d.voter)'
  BY DEF Quiet, OwnerInv, TypeOK, Limit, Quota
<1>3. ASSUME NEW r \in Requests, pc'[r] = "put" PROVE FoundOwn(r)'
  <2>1. /\ pc[r] = "put" /\ ballot'[r] = ballot[r] /\ local'[r] = local[r]
    BY <1>3 DEF Quiet, Deciding
  <2>2. FoundOwn(r) /\ voter(r)' = voter(r)
    BY <2>1 DEF voter, OwnerInv
  <2>3. QED
    BY <2>1, <2>2 DEF Quiet, FoundOwn
<1>4. \A d, e \in votingLimits' : d.id = e.id => d = e
  BY DEF Quiet, OwnerInv
<1>5. QED
  BY <1>1, <1>2, <1>3, <1>4 DEF OwnerInv

\* Without a fault, a quiet step must let no decision go.
LEMMA QuietQuotaInv ==
  ASSUME TypeOK, QuotaInv, Quiet, faults' = faults,
         \A r \in Requests : Deciding(r) => Deciding(r)'
  PROVE  QuotaInv'
<1>1. ASSUME NEW v \in Voters PROVE SettledInv(v)'
  <2>1. LimitsToday(v)' = LimitsToday(v) /\ Slack(v)' = Slack(v)
    BY SlackType DEF Quiet, LimitsToday, Today
  <2>2. (\A r \in Requests : Deciding(r)' => voter(r)' # v)
          => (\A r \in Requests : Deciding(r) => voter(r) # v)
    BY DEF Quiet, voter
  <2>3. SettledInv(v) /\ admitted' = admitted
    BY DEF QuotaInv, Quiet
  <2> HIDE DEF Quiet
  <2>4. QED
    BY <2>1, <2>2, <2>3 DEF SettledInv, IsNewest
<1>2. ASSUME NEW r \in Requests PROVE DecidingInv(r)'
  <2> SUFFICES ASSUME Deciding(r)' PROVE DecidingInv(r)'
    BY DEF DecidingInv, Deciding
  <2>1. pc'[r] = pc[r] /\ voter(r)' = voter(r) /\ local'[r] = local[r]
    BY DEF Quiet, voter
  <2>2. voter(r) \in Voters
    BY VotingAssumption DEF TypeOK, voter, Ballot
  <2>3. /\ LimitsToday(voter(r))' = LimitsToday(voter(r))
        /\ Slack(voter(r))' = Slack(voter(r))
    BY <2>1, <2>2, SlackType DEF Quiet, LimitsToday, Today, Slack, Quota
  <2>4. DecidingInv(r) /\ admitted' = admitted
    BY DEF QuotaInv, Quiet
  <2>5. QED
    BY <2>1, <2>3, <2>4 DEF DecidingInv, IsNewest
<1>3. QED
  BY <1>1, <1>2 DEF QuotaInv

\* A fault pays, with one quota, for every admission left uncounted, so that
\* a step with a fault may also drop decisions.
LEMMA FaultQuotaInv ==
  ASSUME PatientInv, Quiet, faults' = faults + 1
  PROVE  QuotaInv'
<1>1. ASSUME NEW v \in Voters
      PROVE  /\ admitted'[v] \in Nat
             /\ Slack(v)' \in Nat
             /\ admitted'[v] <= Slack(v)'
  <2>1. /\ Slack(v) \in Nat
        /\ Slack(v)' = Slack(v) + Quota(v)
    BY <1>1, SlackType DEF PatientInv, TypeInv
  <2>2. admitted[v] \in Nat /\ admitted[v] <= Quota(v) + Slack(v)
    BY <1>1, QuotaBound
  <2>3. Quota(v) \in Nat /\ admitted' = admitted
    BY <1>1, QuotaType DEF Quiet
  <2>4. QED
    BY <2>1, <2>2, <2>3
<1>2. ASSUME NEW v \in Voters PROVE SettledInv(v)'
  <2>1. LimitsToday(v)' = LimitsToday(v)
    BY DEF Quiet, LimitsToday, Today
  <2>2. CASE LimitsToday(v) = {}
    BY <1>1, <2>1, <2>2 DEF SettledInv
  <2>3. CASE LimitsToday(v) # {}
    <3>1. PICK d \in LimitsToday(v) : IsNewest(d, LimitsToday(v))
      BY <2>3 DEF PatientInv, DatedInv
    <3>2. d.count \in Nat
      BY DEF LimitsToday, Today, PatientInv, TypeInv, TypeOK, Limit
    <3>3. admitted'[v] <= d.count + Slack(v)'
      BY <1>1, <3>2
    <3>4. QED
      BY <2>1, <2>3, <3>1, <3>3 DEF SettledInv, IsNewest
  <2>4. QED
    BY <2>2, <2>3
<1>3. ASSUME NEW r \in Requests PROVE DecidingInv(r)'
  <2> SUFFICES ASSUME Deciding(r)' PROVE DecidingInv(r)'
    BY DEF DecidingInv, Deciding
  <2>1. /\ pc'[r] = pc[r] /\ voter(r)' = voter(r) /\ local'[r] = local[r]
        /\ admitted' = admitted
    BY DEF Quiet, voter
  <2>2. PICK v \in Voters : voter(r) = v /\ voter(r)' = v
    BY <2>1, VotingAssumption DEF PatientInv, TypeInv, TypeOK, voter, Ballot
  <2>3. LimitsToday(v)' = LimitsToday(v)
    BY DEF Quiet, LimitsToday, Today
  <2>4. pc[r] = "put" => local[r].count \in Nat
    BY VotingAssumption DEF PatientInv, CountInv
  <2>5. /\ admitted'[v] <= 1 + Slack(v)'
        /\ pc[r] = "put" => admitted'[v] <= local[r].count + Slack(v)'
    BY <1>1, <2>4
  <2>6. DecidingInv(r)
    BY DEF PatientInv, QuotaInv
  <2>7. QED
    BY <2>1, <2>2, <2>3, <2>5, <2>6 DEF DecidingInv, IsNewest
<1>4. QED
  BY <1>2, <1>3 DEF QuotaInv
-----------------------------------------------------------------------------
(* The steps that decide, store and forget.                                 *)

\* A voter whose request r decides has no other request deciding.
LEMMA OnlyDecision ==
  ASSUME PatientInv, NEW r \in Requests, Active(r),
         NEW s \in Requests, Deciding(s), voter(s) = voter(r)
  PROVE  s = r
BY DEF PatientInv, OnePerVoter, Active, Deciding, Finished

\* A request only reads at its decision, so documents stay as they are.
LEMMA DecisionOwnerInv ==
  ASSUME PatientInv, NEW r \in Requests, FindLimit(r) \/ FindNoLimit(r)
  PROVE  OwnerInv' /\ DatedInv'
<1> USE DEF PatientInv, TypeInv
<1>1. /\ UNCHANGED <<votingLimits, dayStart, clock, ballot>>
      /\ \A s \in Requests : s # r => pc'[s] = pc[s] /\ local'[s] = local[s]
      /\ pc[r] = "limit" /\ pc'[r] \in {"put", "create"}
  BY DEF FindLimit, FindNoLimit, Goto, timeVars, TypeOK
<1>2. DatedInv'
  BY <1>1 DEF DatedInv, LimitsToday, Today, IsNewest
<1>3. \A s \in Requests : Decided(s) => Decided(s)'
  BY <1>1 DEF Decided
<1>4. \A d \in votingLimits : d.id \in Requests
  BY DEF TypeOK, Limit
<1>5. \A d \in votingLimits' : Decided(d.id)' /\ d.count <= Quota(d.voter)'
  BY <1>1, <1>3, <1>4 DEF OwnerInv, Quota
<1>6. ASSUME NEW s \in Requests, pc'[s] = "put" PROVE FoundOwn(s)'
  <2>1. CASE s = r
    <3>1. FindLimit(r)
      BY <1>6, <2>1 DEF FindNoLimit, Goto, TypeOK
    <3>2. PICK d \in LimitsToday(voter(r)) :
            local' = [local EXCEPT ![r] =
                        [@ EXCEPT !.limit = d.id, !.count = d.count + 1]]
      BY <3>1 DEF FindLimit
    <3>3. d \in votingLimits /\ d.voter = voter(r)
      BY DEF LimitsToday, Today
    <3>4. local'[r].limit = d.id
      <4>1. local[r] \in Local
        BY DEF TypeOK
      <4>2. local'[r] = [local[r] EXCEPT !.limit = d.id, !.count = d.count + 1]
        BY <3>2 DEF TypeOK
      <4>3. QED
        BY <4>1, <4>2 DEF Local
    <3>5. Decided(d.id) /\ d.id \in Requests
      BY <1>4, <3>3 DEF OwnerInv
    <3>6. \A e \in votingLimits : e.id = d.id => e.voter = voter(r)
      BY <3>3 DEF OwnerInv
    <3>7. voter(r) \in Users /\ voter(r)' = voter(r)
      BY <1>1, <3>1 DEF FindLimit, voter
    <3>8. QED
      BY <1>1, <1>3, <2>1, <3>4, <3>5, <3>6, <3>7 DEF FoundOwn
  <2>2. CASE s # r
    <3>1. pc[s] = "put" /\ local'[s] = local[s] /\ voter(s)' = voter(s)
      BY <1>1, <1>6, <2>2 DEF voter
    <3>2. FoundOwn(s)
      BY <3>1 DEF OwnerInv
    <3>3. QED
      BY <1>1, <1>3, <3>1, <3>2 DEF FoundOwn
  <2>3. QED
    BY <2>1, <2>2
<1>7. \A d, e \in votingLimits' : d.id = e.id => d = e
  BY <1>1 DEF OwnerInv
<1>8. QED
  BY <1>2, <1>5, <1>6, <1>7 DEF OwnerInv

\* What a decision changes for the quota: request r, alone among its voter's,
\* becomes deciding, and the voter has one admission more.
LEMMA DecisionFrame ==
  ASSUME PatientInv, NEW r \in Requests, FindLimit(r) \/ FindNoLimit(r),
         NEW v \in Voters, v = voter(r)
  PROVE  /\ \A w \in Voters : LimitsToday(w)' = LimitsToday(w)
         /\ \A s \in Requests : voter(s)' = voter(s)
         /\ \A s \in Requests : s # r =>
              pc'[s] = pc[s] /\ local'[s] = local[s]
         /\ \A w \in Voters : w # v => admitted'[w] = admitted[w]
         /\ admitted'[v] = admitted[v] + 1 /\ admitted[v] \in Nat
         /\ \A s \in Requests : Deciding(s) => voter(s) # v
         /\ Deciding(r)'
<1> USE DEF PatientInv, TypeInv
<1>1. /\ UNCHANGED <<votingLimits, dayStart, ballot>>
      /\ pc[r] = "limit"
      /\ pc' = [pc EXCEPT ![r] = "put"] \/ pc' = [pc EXCEPT ![r] = "create"]
      /\ admitted' = [admitted EXCEPT ![v] = @ + 1]
      /\ \A s \in Requests : s # r => local'[s] = local[s]
  BY DEF FindLimit, FindNoLimit, Admit, Goto, timeVars, TypeOK
<1>2. \A s \in Requests : s # r => pc'[s] = pc[s]
  BY <1>1 DEF TypeOK
<1>3. Deciding(r)'
  BY <1>1 DEF TypeOK, Deciding
<1>4. \A w \in Voters : LimitsToday(w)' = LimitsToday(w)
  BY <1>1 DEF LimitsToday, Today
<1>5. \A s \in Requests : voter(s)' = voter(s)
  BY <1>1 DEF voter
<1>6. \A s \in Requests : Deciding(s) => voter(s) # v
  <2>1. Active(r) /\ ~Deciding(r)
    BY <1>1 DEF Active, Deciding, Finished
  <2>2. QED
    BY <2>1, OnlyDecision
<1>7. /\ \A w \in Voters : w # v => admitted'[w] = admitted[w]
      /\ admitted'[v] = admitted[v] + 1 /\ admitted[v] \in Nat
  BY <1>1 DEF TypeOK
<1>8. QED
  BY <1>1, <1>2, <1>3, <1>4, <1>5, <1>6, <1>7

\* What is known of the other voters and requests stays.
LEMMA DecisionOthers ==
  ASSUME PatientInv, NEW r \in Requests, FindLimit(r) \/ FindNoLimit(r)
  PROVE  /\ \A w \in Voters : SettledInv(w)'
         /\ \A s \in Requests : s # r => DecidingInv(s)'
<1> USE DEF PatientInv, TypeInv
<1>1. PICK v \in Voters : v = voter(r)
  BY VotingAssumption DEF TypeOK, voter, Ballot
<1>2. ASSUME NEW w \in Voters
      PROVE  Slack(w) \in Nat /\ Slack(w)' \in Nat /\ Slack(w) <= Slack(w)'
  <2>1. Quota(w) \in Nat
    BY QuotaType
  <2>2. faults' = faults \/ faults' = faults + 1
    BY DEF FindLimit, FindNoLimit
  <2>3. QED
    BY <2>1, <2>2, SlackType
<1>3. /\ \A d \in votingLimits : d.count \in Nat
      /\ \A w \in Voters : admitted[w] \in Nat
      /\ \A w \in Voters : LimitsToday(w) \subseteq votingLimits
  BY DEF TypeOK, Limit, LimitsToday, Today
<1>4. ASSUME NEW w \in Voters PROVE SettledInv(w)'
  <2>1. CASE w = v
    BY <1>1, <2>1, DecisionFrame DEF SettledInv
  <2>2. CASE w # v
    <3>1. SettledInv(w)
      BY DEF QuotaInv
    <3>2. (\A s \in Requests : Deciding(s)' => voter(s)' # w)
            => (\A s \in Requests : Deciding(s) => voter(s) # w)
      BY <1>1, <2>2, DecisionFrame DEF Deciding
    <3>3. LimitsToday(w)' = LimitsToday(w) /\ admitted'[w] = admitted[w]
      BY <1>1, <2>2, DecisionFrame
    <3>4. QED
      BY <1>2, <1>3, <3>1, <3>2, <3>3 DEF SettledInv, IsNewest
  <2>3. QED
    BY <2>1, <2>2
<1>5. ASSUME NEW s \in Requests, s # r PROVE DecidingInv(s)'
  <2> SUFFICES ASSUME Deciding(s)' PROVE DecidingInv(s)'
    BY DEF DecidingInv, Deciding
  <2>1. PICK w \in Voters : w = voter(s)
    BY VotingAssumption DEF TypeOK, voter, Ballot
  <2>2. pc'[s] = pc[s] /\ local'[s] = local[s] /\ voter(s)' = w
    BY <1>1, <1>5, <2>1, DecisionFrame
  <2>3. w # v
    BY <1>1, <2>1, <2>2, DecisionFrame DEF Deciding
  <2>4. LimitsToday(w)' = LimitsToday(w) /\ admitted'[w] = admitted[w]
    BY <1>1, <2>3, DecisionFrame
  <2>5. DecidingInv(s) /\ local[s].count \in Nat
    BY DEF QuotaInv, TypeOK, Local
  <2>6. QED
    BY <1>2, <1>3, <2>1, <2>2, <2>4, <2>5 DEF DecidingInv, IsNewest
<1>6. QED
  BY <1>4, <1>5

\* A request that found a document counts itself on top of that document.
LEMMA FindLimitQuotaInv ==
  ASSUME PatientInv, NEW r \in Requests, FindLimit(r)
  PROVE  QuotaInv'
<1> USE DEF PatientInv, TypeInv
<1>1. PICK v \in Voters : v = voter(r)
  BY VotingAssumption DEF TypeOK, voter, Ballot
<1>2. \A w \in Voters : Slack(w)' = Slack(w) /\ Slack(w) \in Nat
  BY SlackType DEF FindLimit
<1>3. PICK d \in LimitsToday(v) :
        /\ IsNewest(d, LimitsToday(v))
        /\ local' = [local EXCEPT ![r] =
                       [@ EXCEPT !.limit = d.id, !.count = d.count + 1]]
  BY <1>1 DEF FindLimit
<1>4. local'[r].limit = d.id /\ local'[r].count = d.count + 1
  <2>1. local[r] \in Local
    BY DEF TypeOK
  <2>2. local'[r] = [local[r] EXCEPT !.limit = d.id, !.count = d.count + 1]
    BY <1>3 DEF TypeOK
  <2>3. QED
    BY <2>1, <2>2 DEF Local
<1>5. d.count \in Nat
  BY DEF LimitsToday, Today, TypeOK, Limit
<1>6. admitted[v] <= d.count + Slack(v)
  <2>1. \A s \in Requests : Deciding(s) => voter(s) # v
    BY <1>1, DecisionFrame
  <2>2. PICK e \in LimitsToday(v) : /\ IsNewest(e, LimitsToday(v))
                                    /\ admitted[v] <= e.count + Slack(v)
    BY <1>1, <1>3, <2>1 DEF QuotaInv, SettledInv
  <2>3. d \in votingLimits /\ e \in votingLimits
    BY DEF LimitsToday, Today
  <2>4. d.at = e.at
    BY <1>3, <2>2, <2>3 DEF IsNewest, TypeOK, Limit
  <2>5. d = e
    BY <2>3, <2>4 DEF DatedInv
  <2>6. QED
    BY <2>2, <2>5
<1>7. DecidingInv(r)'
  <2>1. admitted'[v] <= local'[r].count + Slack(v)'
    BY <1>1, <1>2, <1>4, <1>5, <1>6, DecisionFrame
  <2>2. pc'[r] = "put"
    BY DEF FindLimit, Goto, TypeOK
  <2>3. voter(r)' = v /\ LimitsToday(v)' = LimitsToday(v)
    BY <1>1, DecisionFrame
  <2>4. IsNewest(d, LimitsToday(v)) /\ d.id = local'[r].limit
    BY <1>3, <1>4
  <2>5. QED
    BY <2>1, <2>2, <2>3, <2>4 DEF DecidingInv, IsNewest
<1>8. QED
  BY <1>7, DecisionOthers DEF QuotaInv

\* A request that found none, or whose query failed, will count itself 1; what
\* the failed query forgets, the fault pays for.
LEMMA FindNoLimitQuotaInv ==
  ASSUME PatientInv, NEW r \in Requests, FindNoLimit(r)
  PROVE  QuotaInv'
<1> USE DEF PatientInv, TypeInv
<1>1. PICK v \in Voters : v = voter(r)
  BY VotingAssumption DEF TypeOK, voter, Ballot
<1>2. pc'[r] = "create" /\ voter(r)' = v
  BY <1>1, DecisionFrame DEF FindNoLimit, Goto, TypeOK
<1>3. admitted[v] \in Nat /\ admitted'[v] = admitted[v] + 1
  BY <1>1, DecisionFrame
<1>4. admitted[v] <= Slack(v)'
  <2>1. Slack(v) \in Nat /\ Quota(v) \in Nat
    BY SlackType, QuotaType
  <2>2. CASE faults' = faults
    <3>1. LimitsToday(v) = {}
      BY <1>1, <2>2, VotingAssumption DEF FindNoLimit, TypeOK
    <3>2. \A s \in Requests : Deciding(s) => voter(s) # v
      BY <1>1, DecisionFrame
    <3>3. admitted[v] <= Slack(v)
      BY <3>1, <3>2 DEF QuotaInv, SettledInv
    <3>4. QED
      BY <2>2, <3>3, SlackType
  <2>3. CASE faults' = faults + 1
    <3>1. admitted[v] <= Quota(v) + Slack(v)
      BY QuotaBound
    <3>2. QED
      BY <1>3, <2>1, <2>3, <3>1, SlackType
  <2>4. QED
    BY <2>2, <2>3 DEF FindNoLimit
<1>5. Slack(v)' \in Nat
  <2>1. Slack(v) \in Nat /\ Quota(v) \in Nat
    BY SlackType, QuotaType
  <2>2. QED
    BY <2>1, SlackType DEF FindNoLimit
<1>6. admitted'[v] <= 1 + Slack(v)'
  BY <1>3, <1>4, <1>5
<1>7. DecidingInv(r)'
  BY <1>2, <1>6 DEF DecidingInv
<1>8. QED
  BY <1>7, DecisionOthers DEF QuotaInv

\* A write of request r replaces, or adds, documents of its own voter only, and
\* leaves the voter with a newest document that counts the admission.
Write(r, v) ==
  /\ voter(r) = v
  /\ Deciding(r)
  /\ ~Deciding(r)'
  /\ UNCHANGED <<ballot, local, faults, admitted>>
  /\ \A s \in Requests : s # r => pc'[s] = pc[s]
  /\ \A w \in Voters : w # v => LimitsToday(w)' = LimitsToday(w)
  /\ LimitsToday(v)' # {} => \E d \in LimitsToday(v)' :
       IsNewest(d, LimitsToday(v)') /\ admitted[v] <= d.count + Slack(v)
  /\ LimitsToday(v)' = {} => admitted[v] <= Slack(v)

\* Such a write settles its voter and touches nobody else.
LEMMA WriteQuotaInv ==
  ASSUME PatientInv, NEW r \in Requests, NEW v \in Voters, Write(r, v)
  PROVE  QuotaInv'
<1> USE DEF PatientInv, TypeInv
<1>1. \A w \in Voters : Slack(w)' = Slack(w)
  BY SlackType DEF Write
<1>2. ASSUME NEW w \in Voters PROVE SettledInv(w)'
  <2>1. CASE w = v
    BY <1>1, <2>1 DEF Write, SettledInv, IsNewest
  <2>2. CASE w # v
    <3>1. SettledInv(w) /\ LimitsToday(w)' = LimitsToday(w)
      BY <2>2 DEF QuotaInv, Write
    <3>2. (\A s \in Requests : Deciding(s)' => voter(s)' # w)
            => (\A s \in Requests : Deciding(s) => voter(s) # w)
      BY <2>2 DEF Write, voter, Deciding
    <3>3. QED
      BY <1>1, <3>1, <3>2 DEF Write, SettledInv, IsNewest
  <2>3. QED
    BY <2>1, <2>2
<1>3. ASSUME NEW s \in Requests PROVE DecidingInv(s)'
  <2> SUFFICES ASSUME Deciding(s)' PROVE DecidingInv(s)'
    BY DEF DecidingInv, Deciding
  <2>1. s # r /\ pc'[s] = pc[s]
    BY DEF Write
  <2>2. PICK w \in Voters : w = voter(s) /\ w = voter(s)'
    BY VotingAssumption DEF TypeOK, voter, Ballot, Write
  <2>3. w # v
    <3>1. Active(r) /\ Deciding(s)
      BY <2>1 DEF Write, Deciding, Active, Finished
    <3>2. QED
      BY <2>1, <2>2, <3>1, OnlyDecision DEF Write
  <2>4. LimitsToday(w)' = LimitsToday(w) /\ DecidingInv(s)
    BY <2>3 DEF Write, QuotaInv
  <2>5. QED
    BY <1>1, <2>1, <2>2, <2>4 DEF Write, DecidingInv, IsNewest
<1>4. QED
  BY <1>2, <1>3 DEF QuotaInv

\* A new document is the newest of its voter and counts one.
LEMMA CreateLimitInv ==
  ASSUME PatientInv, NEW r \in Requests, CreateLimit(r)
  PROVE  OwnerInv' /\ DatedInv' /\ QuotaInv'
<1> USE DEF PatientInv, TypeInv
<1>v. PICK v \in Voters : v = voter(r)
  BY VotingAssumption DEF TypeOK, voter, Ballot
<1>n. PICK new : new = [id |-> r, voter |-> v, count |-> 1, at |-> clock]
  OBVIOUS
<1>1. /\ votingLimits' = votingLimits \cup {new}
      /\ clock' = clock + 1
      /\ UNCHANGED <<ballot, local, dayStart, faults, admitted>>
      /\ pc[r] = "create"
      /\ pc'[r] \in {"abuse", "contestant"}
      /\ \A s \in Requests : s # r => pc'[s] = pc[s]
  BY <1>v, <1>n DEF CreateLimit, Goto, timeVars, TypeOK
<1>2. /\ new.id = r /\ new.voter = v /\ new.count = 1 /\ new.at = clock
      /\ voter(r)' = v
  BY <1>1, <1>v, <1>n DEF voter
<1>3. /\ clock \in Nat /\ dayStart \in Nat
      /\ \A d \in votingLimits : d.id \in Requests /\ d.at \in Nat
  BY DEF TypeOK, Limit
<1>4. /\ LimitsToday(v)' = LimitsToday(v) \cup {new}
      /\ \A w \in Voters : w # v => LimitsToday(w)' = LimitsToday(w)
  <2>1. new.at >= dayStart /\ new.voter = v
    BY <1>2, <1>3 DEF DatedInv
  <2>2. QED
    BY <1>1, <2>1 DEF LimitsToday, Today
<1>5. IsNewest(new, LimitsToday(v)')
  <2>1. \A d \in LimitsToday(v) : d.at <= new.at
    BY <1>2, <1>3 DEF LimitsToday, Today, DatedInv
  <2>2. QED
    BY <1>2, <1>3, <1>4, <2>1 DEF IsNewest
<1>6. DatedInv'
  <2>1. /\ \A d \in votingLimits' : d.at < clock'
        /\ \A d, e \in votingLimits' : d.at = e.at => d = e
        /\ dayStart' <= clock'
    BY <1>1, <1>2, <1>3 DEF DatedInv
  <2>2. ASSUME NEW w \in Voters, LimitsToday(w)' # {}
        PROVE  \E d \in LimitsToday(w)' : IsNewest(d, LimitsToday(w)')
    <3>1. CASE w = v
      BY <3>1, <1>4, <1>5
    <3>2. CASE w # v
      BY <3>2, <2>2, <1>4 DEF DatedInv
    <3>3. QED
      BY <3>1, <3>2
  <2>3. QED
    BY <2>1, <2>2 DEF DatedInv
<1>7. OwnerInv'
  <2>1. \A s \in Requests : Decided(s) => Decided(s)'
    BY <1>1 DEF Decided
  <2>2. Decided(r)' /\ ~Decided(r)
    BY <1>1 DEF Decided
  <2>3. new.count <= Quota(new.voter)
    BY <1>2, QuotaType
  <2>4. \A d \in votingLimits : d.id # r
    BY <2>2 DEF OwnerInv
  <2>5. ASSUME NEW s \in Requests, pc'[s] = "put" PROVE FoundOwn(s)'
    <3>1. s # r /\ pc[s] = "put" /\ voter(s)' = voter(s)
      BY <1>1, <2>5 DEF voter
    <3>2. FoundOwn(s) /\ local' = local
      BY <1>1, <3>1 DEF OwnerInv
    <3>3. local[s].limit # r
      BY <2>2, <3>2 DEF FoundOwn
    <3>4. QED
      BY <1>1, <1>2, <2>1, <3>1, <3>2, <3>3 DEF FoundOwn
  <2>6. \A d, e \in votingLimits' : d.id = e.id => d = e
    BY <1>1, <1>2, <2>4 DEF OwnerInv
  <2>7. \A d \in votingLimits' : Decided(d.id)' /\ d.count <= Quota(d.voter)'
    <3>1. \A d \in votingLimits :
            Decided(d.id)' /\ d.count <= Quota(d.voter)'
      BY <1>3, <2>1 DEF OwnerInv, Quota
    <3>2. Decided(new.id)' /\ new.count <= Quota(new.voter)'
      BY <1>2, <2>2, <2>3 DEF Quota
    <3>3. QED
      BY <1>1, <3>1, <3>2
  <2>8. QED
    BY <2>5, <2>6, <2>7 DEF OwnerInv
<1>8. Write(r, v)
  <2>1. admitted[v] <= new.count + Slack(v)
    BY <1>1, <1>2, <1>v DEF QuotaInv, DecidingInv
  <2>2. Deciding(r) /\ ~Deciding(r)'
    BY <1>1 DEF Deciding
  <2>3. QED
    BY <1>1, <1>v, <1>4, <1>5, <2>1, <2>2 DEF Write
<1>9. QED
  BY <1>6, <1>7, <1>8, WriteQuotaInv

\* Writing the count changes one document of the voter, the newest if any of
\* today is left, and no document's id, date or voter.
LEMMA PutLimitInv ==
  ASSUME PatientInv, NEW r \in Requests, PutLimit(r)
  PROVE  OwnerInv' /\ DatedInv' /\ QuotaInv'
<1> USE DEF PatientInv, TypeInv
<1>1. PICK v \in Voters : v = voter(r)
  BY VotingAssumption DEF TypeOK, voter, Ballot
<1>2. PICK id, n : id = local[r].limit /\ n = local[r].count
  OBVIOUS
<1> DEFINE Put(d) == IF d.id = id THEN [d EXCEPT !.count = n] ELSE d
<1>3. /\ votingLimits' = {Put(d) : d \in votingLimits}
      /\ UNCHANGED <<ballot, local, dayStart, clock, faults, admitted>>
      /\ pc[r] = "put"
      /\ pc'[r] = "abuse"
      /\ \A s \in Requests : s # r => pc'[s] = pc[s]
  BY <1>2 DEF PutLimit, Goto, timeVars, TypeOK
<1>4. /\ FoundOwn(r)
      /\ v \in Users
      /\ n \in Nat /\ n <= Quota(v)
  <2>1. FoundOwn(r)
    BY <1>3 DEF OwnerInv
  <2>2. n \in 1..DailyLimit
    BY <1>2, <1>3 DEF CountInv
  <2>3. QED
    BY <1>1, <2>1, <2>2, VotingAssumption DEF FoundOwn, Quota
<1>5. ASSUME NEW d \in votingLimits
      PROVE  /\ Put(d) \in votingLimits'
             /\ Put(d).id = d.id /\ Put(d).at = d.at /\ Put(d).voter = d.voter
             /\ d.id = id => Put(d).count = n /\ d.voter = v
             /\ d.id # id => Put(d) = d
             /\ d.id \in Requests /\ d.at \in Nat
  <2>1. d \in Limit
    BY DEF TypeOK
  <2>2. Put(d) \in votingLimits'
    BY <1>3
  <2>3. d.id = id => d.voter = v
    BY <1>1, <1>2, <1>4 DEF FoundOwn
  <2>4. QED
    BY <2>1, <2>2, <2>3 DEF Limit
<1>6. ASSUME NEW e \in votingLimits'
      PROVE  \E d \in votingLimits : e = Put(d)
  BY <1>3
<1> HIDE DEF Put
<1>7. ASSUME NEW w \in Voters
      PROVE  /\ \A d \in LimitsToday(w) : Put(d) \in LimitsToday(w)'
             /\ \A e \in LimitsToday(w)' : \E d \in LimitsToday(w) : e = Put(d)
  <2>1. \A d : d \in LimitsToday(w)
          <=> d \in votingLimits /\ d.at >= dayStart /\ d.voter = w
    BY DEF LimitsToday, Today
  <2>2. \A d : d \in LimitsToday(w)'
          <=> d \in votingLimits' /\ d.at >= dayStart /\ d.voter = w
    BY <1>3 DEF LimitsToday, Today
  <2>3. QED
    BY <1>5, <1>6, <2>1, <2>2
<1>8. ASSUME NEW w \in Voters, NEW d \in LimitsToday(w),
             IsNewest(d, LimitsToday(w))
      PROVE  IsNewest(Put(d), LimitsToday(w)')
  <2>1. LimitsToday(w) \subseteq votingLimits
    BY DEF LimitsToday, Today
  <2>2. QED
    BY <1>5, <1>7, <1>8, <2>1 DEF IsNewest
<1>9. ASSUME NEW w \in Voters, w # v PROVE LimitsToday(w)' = LimitsToday(w)
  <2>1. \A d \in LimitsToday(w) : Put(d) = d
    BY <1>5, <1>9 DEF LimitsToday, Today
  <2>2. /\ \A d \in LimitsToday(w) : d \in LimitsToday(w)'
        /\ \A e \in LimitsToday(w)' : e \in LimitsToday(w)
    BY <1>7, <2>1
  <2>3. QED
    BY <2>2
<1>10. DatedInv'
  <2>1. \A d \in votingLimits' : d.at < clock'
    BY <1>3, <1>5, <1>6 DEF DatedInv
  <2>2. \A d, e \in votingLimits' : d.at = e.at => d = e
    BY <1>5, <1>6 DEF DatedInv
  <2>3. ASSUME NEW w \in Voters, LimitsToday(w)' # {}
        PROVE  \E d \in LimitsToday(w)' : IsNewest(d, LimitsToday(w)')
    <3>1. LimitsToday(w) # {}
      BY <1>7, <2>3
    <3>2. PICK d \in LimitsToday(w) : IsNewest(d, LimitsToday(w))
      BY <3>1 DEF DatedInv
    <3>3. QED
      BY <1>7, <1>8, <3>2
  <2>4. QED
    BY <1>3, <2>1, <2>2, <2>3 DEF DatedInv
<1>11. OwnerInv'
  <2>1. \A s \in Requests : Decided(s) => Decided(s)'
    BY <1>3 DEF Decided
  <2>2. ASSUME NEW e \in votingLimits'
        PROVE  Decided(e.id)' /\ e.count <= Quota(e.voter)'
    <3>1. PICK d \in votingLimits : e = Put(d)
      BY <1>6
    <3>2. e.id = d.id /\ Decided(d.id)'
      BY <1>5, <2>1, <3>1 DEF OwnerInv
    <3>3. e.count <= Quota(e.voter)
      BY <1>4, <1>5, <3>1 DEF OwnerInv
    <3>4. QED
      BY <3>2, <3>3 DEF Quota
  <2>3. \A d, e \in votingLimits' : d.id = e.id => d = e
    BY <1>5, <1>6 DEF OwnerInv
  <2>4. ASSUME NEW s \in Requests, pc'[s] = "put" PROVE FoundOwn(s)'
    <3>1. pc[s] = "put" /\ voter(s)' = voter(s) /\ local'[s] = local[s]
      BY <1>3, <2>4 DEF voter
    <3>2. FoundOwn(s)
      BY <3>1 DEF OwnerInv
    <3>3. \A e \in votingLimits' : e.id = local[s].limit => e.voter = voter(s)
      BY <1>5, <1>6, <3>2 DEF FoundOwn
    <3>4. QED
      BY <2>1, <3>1, <3>2, <3>3 DEF FoundOwn
  <2>5. QED
    BY <2>2, <2>3, <2>4 DEF OwnerInv
<1>12. Write(r, v)
  <2>1. DecidingInv(r)
    BY DEF QuotaInv
  <2>2. LimitsToday(v)' = {} => admitted[v] <= Slack(v)
    <3>1. LimitsToday(v)' = {} => LimitsToday(v) = {}
      BY <1>7
    <3>2. Slack(v) \in Nat
      BY SlackType
    <3>3. QED
      BY <1>1, <1>3, <2>1, <3>1, <3>2 DEF DecidingInv
  <2>3. ASSUME LimitsToday(v)' # {}
        PROVE  \E d \in LimitsToday(v)' :
                 IsNewest(d, LimitsToday(v)') /\ admitted[v] <= d.count + Slack(v)
    <3>1. LimitsToday(v) # {}
      BY <1>7, <2>3
    <3>2. PICK d \in LimitsToday(v) : IsNewest(d, LimitsToday(v)) /\ d.id = id
      BY <1>1, <1>2, <1>3, <2>1, <3>1 DEF DecidingInv
    <3>3. Put(d).count = n
      BY <1>5, <3>2 DEF LimitsToday, Today
    <3>4. admitted[v] <= Put(d).count + Slack(v)
      BY <1>1, <1>2, <1>3, <2>1, <3>3 DEF DecidingInv
    <3>5. QED
      BY <1>7, <1>8, <3>2, <3>4
  <2>4. Deciding(r) /\ ~Deciding(r)'
    BY <1>3 DEF Deciding
  <2>5. QED
    BY <1>1, <1>3, <1>9, <2>2, <2>3, <2>4 DEF Write
<1>13. QED
  BY <1>10, <1>11, <1>12, WriteQuotaInv

\* The turn of the day and the clean-up leave every voter without documents of
\* today and without admissions.
LEMMA ResetInv ==
  ASSUME PatientInv, Midnight \/ ClearVotingLimitRecords
  PROVE  OwnerInv' /\ DatedInv' /\ QuotaInv'
<1> USE DEF PatientInv, TypeInv
<1>1. /\ UNCHANGED <<pc, ballot, local, faults>>
      /\ votingLimits' \subseteq votingLimits
      /\ clock \in Nat /\ clock' \in Nat /\ clock <= clock'
      /\ dayStart' \in Nat /\ dayStart' <= clock'
      /\ \A w \in Voters : admitted'[w] = 0
  BY DEF Midnight, ClearVotingLimitRecords, TypeOK, DatedInv
<1>2. \A d \in votingLimits : d.at \in Nat /\ d.count \in Nat
  BY DEF TypeOK, Limit
<1>3. ASSUME NEW w PROVE LimitsToday(w)' = {}
  <2>1. CASE Midnight
    <3>1. \A d \in votingLimits' : ~ d.at >= dayStart'
      BY <1>1, <1>2, <2>1 DEF Midnight, DatedInv
    <3>2. QED
      BY <3>1 DEF LimitsToday, Today
  <2>2. CASE ClearVotingLimitRecords
    BY <2>2 DEF ClearVotingLimitRecords, LimitsToday, Today
  <2>3. QED
    BY <2>1, <2>2
<1>4. DatedInv'
  <2>1. /\ \A d \in votingLimits' : d.at < clock'
        /\ \A d, e \in votingLimits' : d.at = e.at => d = e
    BY <1>1, <1>2 DEF DatedInv
  <2>2. QED
    BY <1>1, <1>3, <2>1 DEF DatedInv
<1>5. OwnerInv'
  BY <1>1 DEF OwnerInv, FoundOwn, Decided, Quota, voter
<1>6. \A w \in Voters : Slack(w)' \in Nat
  BY <1>1, SlackType
<1>7. \A w \in Voters : SettledInv(w)'
  BY <1>1, <1>3, <1>6 DEF SettledInv
<1>8. ASSUME NEW s \in Requests PROVE DecidingInv(s)'
  <2>1. PICK w \in Voters : w = voter(s) /\ w = voter(s)'
    BY <1>1, VotingAssumption DEF TypeOK, voter, Ballot
  <2>2. admitted'[w] = 0 /\ Slack(w)' \in Nat /\ LimitsToday(w)' = {}
    BY <1>1, <1>3, <1>6
  <2>3. local'[s].count \in Nat
    BY <1>1 DEF TypeOK, Local
  <2>4. QED
    BY <2>1, <2>2, <2>3 DEF DecidingInv
<1>9. QED
  BY <1>4, <1>5, <1>7, <1>8 DEF QuotaInv
-----------------------------------------------------------------------------
(* The invariant of every step, and the theorem.                            *)

\* The steps of the handler after the limit, the listener's and the arrival of
\* a request are quiet and keep every decision.
LEMMA CalmSteps ==
  ASSUME TypeOK,
         \/ \E r \in Requests :
              \/ Receive(r) \/ RejectVote(r) \/ CheckAbuse(r) \/ DiscardVotes(r)
              \/ ReadContestant(r) \/ CountComparisons(r) \/ ReadOpponent(r)
              \/ CreateVote(r) \/ Listen(r)
         \/ UNCHANGED vars
  PROVE  /\ Quiet
         /\ faults' = faults
         /\ \A r \in Requests : Deciding(r) => Deciding(r)'
<1> USE DEF TypeOK, Quiet, Deciding, Decided
<1>1. ASSUME NEW r \in Requests,
             RejectVote(r) \/ CheckAbuse(r) \/ DiscardVotes(r)
      PROVE  /\ Quiet
             /\ faults' = faults
             /\ \A s \in Requests : Deciding(s) => Deciding(s)'
  BY <1>1 DEF RejectVote, CheckAbuse, DiscardVotes, Goto, timeVars
<1>2. ASSUME NEW r \in Requests,
             ReadContestant(r) \/ CountComparisons(r) \/ ReadOpponent(r)
      PROVE  /\ Quiet
             /\ faults' = faults
             /\ \A s \in Requests : Deciding(s) => Deciding(s)'
  BY <1>2 DEF ReadContestant, CountComparisons, ReadOpponent, Goto, timeVars
<1>3. ASSUME NEW r \in Requests, Receive(r) \/ CreateVote(r)
      PROVE  /\ Quiet
             /\ faults' = faults
             /\ \A s \in Requests : Deciding(s) => Deciding(s)'
  BY <1>3 DEF Receive, CreateVote, Goto, timeVars
<1>4. ASSUME NEW r \in Requests, Listen(r)
      PROVE  /\ Quiet
             /\ faults' = faults
             /\ \A s \in Requests : Deciding(s) => Deciding(s)'
  BY <1>4 DEF Listen, ScoreContestant, ScoreOpponent, timeVars
<1>5. CASE UNCHANGED vars
  BY <1>5 DEF vars
<1>6. QED
  BY <1>1, <1>2, <1>3, <1>4, <1>5

\* A fault is quiet: it only ends what was under way.
LEMMA FaultSteps ==
  ASSUME TypeOK,
         \/ \E r \in Requests : MissAbuse(r) \/ FailRequest(r) \/ FailListener(r)
         \/ Crash
  PROVE  Quiet /\ faults' = faults + 1
<1> USE DEF TypeOK, Quiet, Deciding, Decided, Fault
<1>1. ASSUME NEW r \in Requests, MissAbuse(r) \/ FailRequest(r) \/ FailListener(r)
      PROVE  Quiet /\ faults' = faults + 1
  BY <1>1 DEF MissAbuse, FailRequest, FailListener, Goto, timeVars
<1>2. CASE Crash
  BY <1>2 DEF Crash, Active, Finished, timeVars
<1>3. QED
  BY <1>1, <1>2

\* One step per kind of action: calm, faulty, deciding, writing, resetting.
LEMMA StepPatientInv ==
  PatientInv /\ [Next /\ OnePerVoter']_vars => PatientInv'
<1> SUFFICES ASSUME PatientInv, [Next /\ OnePerVoter']_vars
             PROVE  PatientInv'
  OBVIOUS
<1>1. TypeInv' /\ CountInv'
  BY StepTypeInv, StepCountInv DEF PatientInv, TypeInv
<1>2. OnePerVoter'
  <2>1. CASE UNCHANGED vars
    BY <2>1 DEF PatientInv, OnePerVoter, Active, voter, vars
  <2>2. QED
    BY <2>1
<1>3. TypeOK /\ OwnerInv /\ DatedInv /\ QuotaInv
  BY DEF PatientInv, TypeInv
<1>4. ASSUME \/ \E r \in Requests :
                  \/ Receive(r) \/ RejectVote(r) \/ CheckAbuse(r)
                  \/ DiscardVotes(r) \/ ReadContestant(r)
                  \/ CountComparisons(r) \/ ReadOpponent(r)
                  \/ CreateVote(r) \/ Listen(r)
             \/ UNCHANGED vars
      PROVE  OwnerInv' /\ DatedInv' /\ QuotaInv'
  BY <1>3, <1>4, CalmSteps, QuietOwnerInv, QuietQuotaInv
<1>5. ASSUME \/ \E r \in Requests :
                  MissAbuse(r) \/ FailRequest(r) \/ FailListener(r)
             \/ Crash
      PROVE  OwnerInv' /\ DatedInv' /\ QuotaInv'
  BY <1>3, <1>5, FaultSteps, QuietOwnerInv, FaultQuotaInv
<1>6. ASSUME NEW r \in Requests, FindLimit(r) \/ FindNoLimit(r)
      PROVE  OwnerInv' /\ DatedInv' /\ QuotaInv'
  BY <1>6, DecisionOwnerInv, FindLimitQuotaInv, FindNoLimitQuotaInv
<1>7. ASSUME NEW r \in Requests, PutLimit(r) \/ CreateLimit(r)
      PROVE  OwnerInv' /\ DatedInv' /\ QuotaInv'
  BY <1>7, PutLimitInv, CreateLimitInv
<1>8. CASE Midnight \/ ClearVotingLimitRecords
  BY <1>8, ResetInv, <1>1, <1>2 DEF PatientInv
<1>9. QED
  BY <1>1, <1>2, <1>4, <1>5, <1>6, <1>7, <1>8 DEF Next, Handle, PatientInv

LEMMA InitPatientInv == Init => PatientInv
<1> SUFFICES ASSUME Init PROVE PatientInv
  OBVIOUS
<1>1. TypeInv
  BY InitTypeInv
<1>2. /\ votingLimits = {} /\ dayStart = 0 /\ clock = 0 /\ faults = 0
      /\ \A r \in Requests : pc[r] = "idle"
      /\ \A v \in Voters : admitted[v] = 0
  BY DEF Init
<1>3. CountInv /\ DatedInv /\ OwnerInv /\ OnePerVoter
  BY <1>2 DEF CountInv, CountWithinLimit, DatedInv, OwnerInv, OnePerVoter,
              Active, LimitsToday, Today
<1>4. QuotaInv
  <2>1. \A v \in Voters : LimitsToday(v) = {} /\ admitted[v] <= Slack(v)
    BY <1>1, <1>2, SlackType DEF LimitsToday, Today, TypeInv
  <2>2. QED
    BY <1>2, <2>1 DEF QuotaInv, SettledInv, DecidingInv
<1>5. QED
  BY <1>1, <1>3, <1>4 DEF PatientInv

\* A voter who waits for each answer is admitted at most one quota of votes
\* between two turns of the day or clean-ups, and one more per fault.
THEOREM QuotaKept == PatientSpec => []QuotaPerFault
<1>1. PatientInv => QuotaPerFault
  <2> SUFFICES ASSUME PatientInv, NEW v \in Voters
               PROVE  admitted[v] <= Quota(v) * (1 + faults)
    BY DEF QuotaPerFault
  <2>1. admitted[v] <= Quota(v) + Slack(v)
    BY QuotaBound
  <2>2. Quota(v) \in Nat /\ faults \in Nat
    BY QuotaType DEF PatientInv, TypeInv, TypeOK
  <2>3. \A q \in Nat, n \in Nat : q * (1 + n) = q + q * n
    OBVIOUS
  <2>4. QED
    BY <2>1, <2>2, <2>3 DEF Slack
<1>2. QED
  BY <1>1, InitPatientInv, StepPatientInv, PTL DEF PatientSpec
-----------------------------------------------------------------------------
(* Runs of votes.                                                           *)

\* Of votes cast before now one is the last.
LEMMA LastVote ==
  ASSUME NEW S, S # {}, NEW now \in Nat, \A v \in S : v.at \in Nat /\ v.at < now
  PROVE  \E v \in S : \A w \in S : w.at <= v.at
<1> DEFINE T == {now - v.at : v \in S}
<1>1. T \subseteq Nat /\ T # {}
  OBVIOUS
<1>2. PICK n \in T : \A m \in T : n <= m
  <2> HIDE DEF T
  <2>1. QED
    BY <1>1, LeastNumber
<1>3. PICK v \in S : n = now - v.at
  BY <1>2
<1>4. ASSUME NEW w \in S PROVE w.at <= v.at
  <2>1. n <= now - w.at
    BY <1>2
  <2>2. v.at \in Nat /\ w.at \in Nat
    OBVIOUS
  <2>3. QED
    BY <1>3, <2>1, <2>2
<1>5. QED
  BY <1>4

\* Votes v and w of S and the decisive ones between them.
Stretch(S, v, w) == {x \in {y \in S : Decisive(y.ballot)} : v.at <= x.at /\ x.at <= w.at}

LEMMA RunIs ==
  ASSUME NEW S, NEW n
  PROVE  InARow(S, n) <=>
           \E v, w \in S : /\ Decisive(v.ballot) /\ Decisive(w.ballot)
                           /\ \A x \in Stretch(S, v, w) : Side(x.ballot) = Side(v.ballot)
                           /\ Cardinality(Stretch(S, v, w)) >= n
BY DEF InARow, Stretch

LEMMA StretchFinite ==
  ASSUME NEW S, IsFiniteSet(S), NEW v, NEW w
  PROVE  IsFiniteSet(Stretch(S, v, w)) /\ Cardinality(Stretch(S, v, w)) \in Nat
BY FS_Subset, FS_CardinalityType DEF Stretch

\* A long run is a short one.
LEMMA RunShorter ==
  ASSUME NEW S, IsFiniteSet(S), NEW n \in Nat, NEW m \in Nat, m <= n, InARow(S, n)
  PROVE  InARow(S, m)
<1>1. PICK v, w \in S : /\ Decisive(v.ballot) /\ Decisive(w.ballot)
                        /\ \A x \in Stretch(S, v, w) : Side(x.ballot) = Side(v.ballot)
                        /\ Cardinality(Stretch(S, v, w)) >= n
  BY RunIs
<1>2. Cardinality(Stretch(S, v, w)) >= m
  BY <1>1, StretchFinite
<1>3. QED
  BY <1>1, <1>2, RunIs

\* One vote is no run of two.
LEMMA RunOfOne ==
  ASSUME NEW S, \A v, w \in S : v = w, NEW n \in Nat, n >= 2
  PROVE  ~InARow(S, n)
<1> SUFFICES ASSUME NEW v \in S, NEW w \in S, Cardinality(Stretch(S, v, w)) >= n
             PROVE  FALSE
  BY RunIs
<1>1. Stretch(S, v, w) \subseteq {v}
  BY DEF Stretch
<1>2. IsFiniteSet({v}) /\ Cardinality({v}) = 1
  BY FS_Singleton
<1>3. Cardinality(Stretch(S, v, w)) <= 1 /\ Cardinality(Stretch(S, v, w)) \in Nat
  BY <1>1, <1>2, FS_Subset, FS_CardinalityType
<1>4. QED
  BY <1>3

\* A vote cast after all others makes a run longer by one at most.
LEMMA RunGrowsByOne ==
  ASSUME NEW S, IsFiniteSet(S), NEW x, x.at \in Nat,
         \A v \in S : v.at \in Nat /\ v.at < x.at,
         NEW n \in Nat, n > 0, InARow(S \cup {x}, n + 1)
  PROVE  InARow(S, n)
<1> DEFINE V == S \cup {x}
<1>1. PICK v, w \in V : /\ Decisive(v.ballot) /\ Decisive(w.ballot)
                        /\ \A y \in Stretch(V, v, w) : Side(y.ballot) = Side(v.ballot)
                        /\ Cardinality(Stretch(V, v, w)) >= n + 1
  BY RunIs
<1> DEFINE B == Stretch(V, v, w)
           C == B \ {x}
<1>2. x \notin S
  OBVIOUS
<1>3. IsFiniteSet(B) /\ Cardinality(B) \in Nat
  BY FS_AddElement, StretchFinite
<1>4. IsFiniteSet(C) /\ Cardinality(C) \in Nat /\ Cardinality(C) >= n
  <2>1. IsFiniteSet(C) /\ Cardinality(C) = IF x \in B THEN Cardinality(B) - 1 ELSE Cardinality(B)
    BY <1>3, FS_RemoveElement
  <2>2. QED
    BY <1>1, <1>3, <2>1, FS_CardinalityType
<1>5. /\ C \subseteq S /\ \A y \in C : Decisive(y.ballot) /\ v.at <= y.at /\ y.at <= w.at
      /\ \A y \in S : Decisive(y.ballot) /\ v.at <= y.at /\ y.at <= w.at => y \in C
  BY <1>2 DEF Stretch
<1>6. C # {}
  <2> HIDE DEF C
  <2>1. QED
    BY <1>4, FS_EmptySet
<1>7. PICK l \in C : \A y \in C : y.at <= l.at
  <2>1. \A y \in C : y.at \in Nat /\ y.at < x.at
    BY <1>5
  <2> HIDE DEF C
  <2>2. QED
    BY <1>6, <2>1, LastVote
<1>8. v \in S
  <2>1. v.at <= l.at /\ l.at \in Nat /\ l.at < x.at
    BY <1>5
  <2>2. CASE v = x
    BY <2>1, <2>2
  <2>3. QED
    BY <2>2
<1>9. Stretch(S, v, l) = C
  <2>1. \A y \in C : y \in Stretch(S, v, l)
    BY <1>5, <1>7 DEF Stretch
  <2>2. ASSUME NEW y \in Stretch(S, v, l) PROVE y \in C
    <3>1. /\ y \in S /\ Decisive(y.ballot) /\ v.at <= y.at /\ y.at <= l.at /\ l.at <= w.at
          /\ y.at \in Nat /\ l.at \in Nat /\ w.at \in Nat
      BY <1>5, <1>7 DEF Stretch
    <3>2. y.at <= w.at
      BY <3>1
    <3>3. QED
      BY <1>5, <3>1, <3>2
  <2>3. QED
    BY <2>1, <2>2
<1>10. \A y \in C : Side(y.ballot) = Side(v.ballot)
  BY <1>1
<1>11. l \in S /\ Decisive(l.ballot)
  BY <1>5, <1>7
<1> HIDE DEF C
<1>12. QED
  BY <1>1, <1>4, <1>8, <1>9, <1>10, <1>11, RunIs
-----------------------------------------------------------------------------
(* Runs of votes of one user.                                               *)

\* The votes on record are dated by the clock, one at a time.
VotesDated ==
  /\ \A v \in votings : v.at \in Nat /\ v.at < clock
  /\ \A v, w \in votings : v.at = w.at => v = w

\* A request about to discard votes saw a run, and its voter has cast none since:
\* the run is still there, or the day has turned.
DiscardInv ==
  \A r \in Requests : pc[r] = "discard" =>
    VotesToday(voter(r)) = {} \/ InARow(VotesToday(voter(r)), AbuseRun)

\* Past the check: a request that casts its vote next.
Passed(r) == pc[r] \in {"contestant", "comparisons", "opponent", "vote"}

\* A request that has passed the check makes at most one vote, so the run it may
\* prolong is shorter by one.
RunInv ==
  \A u \in Users :
    /\ ~InARow(VotesToday(u), AbuseRun + 1 + faults)
    /\ \A r \in Requests : Passed(r) /\ voter(r) = u => ~InARow(VotesToday(u), AbuseRun + faults)

RunsInv == VotesDated /\ DiscardInv /\ (AbuseRun >= 2 => RunInv)

\* Whoever has cast no vote since, on a day that goes on, has the runs he had.
LEMMA SameVotes ==
  ASSUME NEW u, UNCHANGED dayStart,
         \A v : v \in votings' /\ v.ballot.voter = u <=> v \in votings /\ v.ballot.voter = u
  PROVE  VotesToday(u)' = VotesToday(u)
BY DEF VotesToday, Today

LEMMA RunsTypes ==
  ASSUME TypeInv
  PROVE  /\ AbuseRun \in Nat /\ AbuseRun >= 1 /\ faults \in Nat /\ clock \in Nat
         /\ dayStart \in Nat /\ IsFiniteSet(votings) /\ votings \subseteq Vote
         /\ \A u : IsFiniteSet(VotesToday(u)) /\ VotesToday(u) \subseteq votings
<1>1. \A u : VotesToday(u) \subseteq votings
  BY DEF VotesToday, Today
<1>2. \A u : IsFiniteSet(VotesToday(u))
  BY <1>1, FS_Subset DEF TypeInv
<1>3. QED
  BY <1>1, <1>2, AbuseRunAssumption, VotingAssumption DEF TypeInv, TypeOK

\* A step that adds no vote and turns no day.
LEMMA RunsFrame ==
  ASSUME TypeInv, RunsInv, UNCHANGED <<votings, dayStart>>, clock' \in Nat, clock' >= clock,
         faults' \in Nat, faults' >= faults,
         \A r \in Requests : pc'[r] \in {"discard"} \cup
                               {"contestant", "comparisons", "opponent", "vote"}
                             => voter(r)' = voter(r),
         \A r \in Requests : pc'[r] = "discard" =>
           pc[r] = "discard" \/ InARow(VotesToday(voter(r)), AbuseRun),
         \A r \in Requests : Passed(r)' =>
           \/ Passed(r) \/ voter(r) \notin Users
           \/ ~InARow(VotesToday(voter(r)), AbuseRun)
           \/ faults' = faults + 1
  PROVE  RunsInv'
<1>0. \A u : VotesToday(u)' = VotesToday(u)
  BY SameVotes
<1>1. VotesDated'
  BY RunsTypes DEF RunsInv, VotesDated
<1>2. DiscardInv'
  BY <1>0 DEF RunsInv, DiscardInv
<1>3. ASSUME AbuseRun >= 2 PROVE RunInv'
  <2>1. RunInv
    BY <1>3 DEF RunsInv
  <2>2. /\ AbuseRun + faults' \in Nat /\ AbuseRun + faults \in Nat /\ AbuseRun \in Nat
        /\ AbuseRun + 1 + faults' \in Nat /\ AbuseRun + 1 + faults \in Nat
        /\ AbuseRun + 1 + faults <= AbuseRun + 1 + faults'
        /\ AbuseRun + faults <= AbuseRun + faults' /\ AbuseRun <= AbuseRun + faults'
    BY RunsTypes
  <2>3. ASSUME NEW u \in Users, NEW m \in Nat, NEW n \in Nat, n <= m, ~InARow(VotesToday(u), n)
        PROVE  ~InARow(VotesToday(u)', m)
    BY <1>0, <2>3, RunsTypes, RunShorter
  <2>4. ASSUME NEW u \in Users PROVE ~InARow(VotesToday(u)', AbuseRun + 1 + faults')
    BY <2>1, <2>2, <2>3 DEF RunInv
  <2>5. ASSUME NEW u \in Users, NEW r \in Requests, Passed(r)', voter(r)' = u
        PROVE  ~InARow(VotesToday(u)', AbuseRun + faults')
    <3>1. voter(r) = u
      BY <2>5 DEF Passed
    <3>2. CASE Passed(r)
      BY <2>1, <2>2, <2>3, <3>1, <3>2 DEF RunInv
    <3>3. CASE ~InARow(VotesToday(u), AbuseRun)
      BY <2>2, <2>3, <3>3
    <3>4. CASE faults' = faults + 1
      <4>1. AbuseRun + 1 + faults = AbuseRun + faults'
        BY <3>4, RunsTypes
      <4>2. QED
        BY <2>1, <2>2, <2>3, <4>1 DEF RunInv
    <3>5. QED
      BY <2>5, <3>1, <3>2, <3>3, <3>4
  <2>6. QED
    BY <2>4, <2>5 DEF RunInv
<1>4. QED
  BY <1>1, <1>2, <1>3 DEF RunsInv

\* Steps that add no vote and turn no day, but for the discarding one.
LEMMA FramedSteps ==
  ASSUME TypeInv, TypeInv', RunsInv,
         \/ \E r \in Requests :
              \/ Receive(r) \/ RejectVote(r) \/ FindLimit(r) \/ FindNoLimit(r)
              \/ PutLimit(r) \/ CreateLimit(r) \/ CheckAbuse(r)
              \/ ReadContestant(r) \/ CountComparisons(r) \/ ReadOpponent(r)
              \/ Listen(r) \/ MissAbuse(r) \/ FailRequest(r) \/ FailListener(r)
         \/ Crash \/ ClearVotingLimitRecords \/ UNCHANGED vars
  PROVE  RunsInv'
<1> DEFINE Kept ==
      /\ UNCHANGED <<votings, dayStart>> /\ clock' >= clock /\ faults' >= faults
      /\ \A r \in Requests : pc'[r] \in {"discard"} \cup
                               {"contestant", "comparisons", "opponent", "vote"}
                             => voter(r)' = voter(r)
      /\ \A r \in Requests : pc'[r] = "discard" =>
           pc[r] = "discard" \/ InARow(VotesToday(voter(r)), AbuseRun)
      /\ \A r \in Requests : Passed(r)' =>
           \/ Passed(r) \/ voter(r) \notin Users
           \/ ~InARow(VotesToday(voter(r)), AbuseRun)
           \/ faults' = faults + 1
<1>1. ASSUME NEW r \in Requests, Receive(r) \/ RejectVote(r) \/ FindLimit(r) PROVE Kept
  <2>1. /\ UNCHANGED <<votings, dayStart, clock, faults>>
        /\ pc'[r] \in {"limit", "rejected", "put"}
        /\ \A s \in Requests : s # r => pc'[s] = pc[s] /\ ballot'[s] = ballot[s]
    BY <1>1 DEF TypeInv, TypeOK, Receive, RejectVote, FindLimit, Goto, timeVars
  <2>2. clock' >= clock /\ faults' >= faults
    BY <2>1, RunsTypes
  <2>3. QED
    BY <2>1, <2>2 DEF voter, Passed
<1>2. ASSUME NEW r \in Requests, FindNoLimit(r) \/ PutLimit(r) PROVE Kept
  BY <1>2 DEF TypeInv, TypeOK, FindNoLimit, PutLimit, Goto, timeVars, voter, Passed
<1>3. ASSUME NEW r \in Requests, CreateLimit(r) PROVE Kept
  BY <1>3 DEF TypeInv, TypeOK, CreateLimit, Goto, timeVars, voter, Passed
<1>4. ASSUME NEW r \in Requests, CheckAbuse(r) PROVE Kept
  BY <1>4 DEF TypeInv, TypeOK, CheckAbuse, Goto, timeVars, voter, Passed
<1>5. ASSUME NEW r \in Requests,
             ReadContestant(r) \/ CountComparisons(r) \/ ReadOpponent(r) \/ Listen(r)
      PROVE  Kept
  BY <1>5 DEF TypeInv, TypeOK, ReadContestant, CountComparisons, ReadOpponent, Listen,
              ScoreContestant, ScoreOpponent, Goto, timeVars, voter, Passed
<1>6. ASSUME NEW r \in Requests, MissAbuse(r) \/ FailRequest(r) \/ FailListener(r)
      PROVE  Kept
  BY <1>6 DEF TypeInv, TypeOK, MissAbuse, FailRequest, FailListener, Fault, Goto, timeVars,
              voter, Passed
<1>7. ASSUME Crash \/ ClearVotingLimitRecords \/ UNCHANGED vars PROVE Kept
  <2>1. /\ UNCHANGED <<votings, dayStart, clock, ballot>> /\ faults' \in {faults, faults + 1}
        /\ \A s \in Requests : pc'[s] = pc[s] \/ pc'[s] = "failed"
    BY <1>7 DEF TypeInv, TypeOK, Crash, Fault, ClearVotingLimitRecords, timeVars, vars
  <2>2. clock' >= clock /\ faults' >= faults
    BY <2>1, RunsTypes
  <2>3. /\ \A s \in Requests : voter(s)' = voter(s)
        /\ \A s \in Requests : pc'[s] = "discard" => pc[s] = "discard"
        /\ \A s \in Requests : Passed(s)' => Passed(s)
    BY <2>1 DEF voter, Passed
  <2>4. QED
    BY <2>1, <2>2, <2>3
<1> HIDE DEF Kept
<1>8. Kept
  BY <1>1, <1>2, <1>3, <1>4, <1>5, <1>6, <1>7
<1>9. clock' \in Nat /\ faults' \in Nat
  BY DEF TypeInv, TypeOK
<1>10. QED
  BY <1>8, <1>9, RunsFrame DEF Kept

\* The vote of the step is dated by the clock; its voter waited for the answer.
LEMMA CreateRunsInv ==
  ASSUME PatientInv, RunsInv, NEW r \in Requests, CreateVote(r)
  PROVE  RunsInv'
<1> USE DEF PatientInv
<1> DEFINE x == [id |-> r, ballot |-> ballot[r], scores |-> NewScores(r), at |-> clock]
<1>1. /\ votings' = votings \cup {x} /\ clock' = clock + 1 /\ pc[r] = "vote"
      /\ UNCHANGED <<dayStart, ballot, faults>>
      /\ pc'[r] = "done" /\ \A s \in Requests : s # r => pc'[s] = pc[s]
  BY DEF TypeInv, TypeOK, CreateVote, Goto, timeVars
<1>2. x.at = clock /\ x.ballot = ballot[r] /\ x.ballot.voter = voter(r)
  BY DEF voter
<1> HIDE DEF x
<1>3. dayStart <= clock
  BY DEF DatedInv
<1>4. VotesDated'
  BY <1>1, <1>2, RunsTypes DEF RunsInv, VotesDated
<1>5. \A u : u # voter(r) => VotesToday(u)' = VotesToday(u)
  BY <1>1, <1>2, SameVotes
<1>6. \A u : u = voter(r) => VotesToday(u)' = VotesToday(u) \cup {x}
  BY <1>1, <1>2, <1>3 DEF VotesToday, Today, voter
<1>7. \A s \in Requests : s # r /\ voter(s) = voter(r) => pc[s] \in Finished \cup {"idle"}
  BY <1>1 DEF OnePerVoter, Active, Finished
<1>8. \A s \in Requests : voter(s)' = voter(s)
  BY <1>1 DEF voter
<1>9. DiscardInv'
  BY <1>1, <1>5, <1>7, <1>8 DEF RunsInv, DiscardInv, Finished
<1>10. ASSUME AbuseRun >= 2 PROVE RunInv'
  <2>1. RunInv
    BY <1>10 DEF RunsInv
  <2>2. ASSUME NEW u \in Users PROVE ~InARow(VotesToday(u)', AbuseRun + 1 + faults')
    <3>1. CASE u # voter(r)
      BY <1>1, <1>5, <2>1, <3>1 DEF RunInv
    <3>2. CASE u = voter(r)
      <4>1. ~InARow(VotesToday(u), AbuseRun + faults)
        BY <1>1, <2>1, <3>2 DEF RunInv, Passed
      <4>2. /\ IsFiniteSet(VotesToday(u)) /\ x.at \in Nat
            /\ \A v \in VotesToday(u) : v.at \in Nat /\ v.at < x.at
            /\ AbuseRun + faults \in Nat /\ AbuseRun + faults > 0
        BY <1>2, RunsTypes DEF RunsInv, VotesDated
      <4>3. ~InARow(VotesToday(u) \cup {x}, (AbuseRun + faults) + 1)
        <5> DEFINE n == AbuseRun + faults
        <5>1. n \in Nat /\ n > 0 /\ ~InARow(VotesToday(u), n)
          BY <4>1, <4>2
        <5> HIDE DEF n
        <5>2. ~InARow(VotesToday(u) \cup {x}, n + 1)
          BY <4>2, <5>1, RunGrowsByOne
        <5>3. QED
          BY <5>2 DEF n
      <4>4. (AbuseRun + faults) + 1 = AbuseRun + 1 + faults'
        BY <1>1, RunsTypes
      <4>5. QED
        BY <1>6, <3>2, <4>3, <4>4
    <3>3. QED
      BY <3>1, <3>2
  <2>3. ASSUME NEW u \in Users, NEW s \in Requests, Passed(s)', voter(s)' = u
        PROVE  ~InARow(VotesToday(u)', AbuseRun + faults')
    <3>1. s # r /\ Passed(s) /\ voter(s) = u
      BY <1>1, <1>8, <2>3 DEF Passed
    <3>2. u # voter(r)
      BY <1>7, <3>1 DEF Passed, Finished
    <3>3. QED
      BY <1>1, <1>5, <2>1, <3>1, <3>2 DEF RunInv
  <2>4. QED
    BY <2>2, <2>3 DEF RunInv
<1>11. QED
  BY <1>4, <1>9, <1>10 DEF RunsInv

\* What is left of the voter's day is a vote made the instant it began.
LEMMA DiscardRunsInv ==
  ASSUME PatientInv, RunsInv, NEW r \in Requests, DiscardVotes(r)
  PROVE  RunsInv'
<1> USE DEF PatientInv
<1>1. /\ votings' = votings \ {v \in VotesToday(voter(r)) : v.at > dayStart}
      /\ UNCHANGED <<clock, dayStart, ballot, faults>> /\ pc[r] = "discard"
      /\ pc'[r] = "contestant" /\ \A s \in Requests : s # r => pc'[s] = pc[s]
  BY DEF TypeInv, TypeOK, DiscardVotes, Goto, timeVars
<1>2. VotesDated'
  BY <1>1 DEF RunsInv, VotesDated
<1>3. \A u : u # voter(r) => VotesToday(u)' = VotesToday(u)
  BY <1>1 DEF VotesToday, Today
<1>4. \A u : u = voter(r) => \A v, w \in VotesToday(u)' : v = w
  <2>1. ASSUME NEW u, u = voter(r), NEW v \in VotesToday(u)'
        PROVE  v \in votings /\ v.at = dayStart
    <3>1. v \in votings' /\ v.at >= dayStart /\ v.ballot.voter = u
      BY <1>1 DEF VotesToday, Today
    <3>2. v \in votings /\ v.at \in Nat /\ ~(v.at > dayStart) /\ dayStart \in Nat
      BY <1>1, <2>1, <3>1, RunsTypes DEF RunsInv, VotesDated, VotesToday, Today
    <3>3. QED
      BY <3>1, <3>2
  <2>2. QED
    BY <2>1 DEF RunsInv, VotesDated
<1>5. \A s \in Requests : s # r /\ voter(s) = voter(r) => pc[s] \in Finished \cup {"idle"}
  BY <1>1 DEF OnePerVoter, Active, Finished
<1>6. \A s \in Requests : voter(s)' = voter(s)
  BY <1>1 DEF voter
<1>7. DiscardInv'
  BY <1>1, <1>3, <1>5, <1>6 DEF RunsInv, DiscardInv, Finished
<1>8. ASSUME AbuseRun >= 2 PROVE RunInv'
  <2>1. RunInv
    BY <1>8 DEF RunsInv
  <2>2. ASSUME NEW u \in Users, u = voter(r), NEW n \in Nat, n >= 2
        PROVE  ~InARow(VotesToday(u)', n)
    BY <1>4, <2>2, RunOfOne
  <2>3. /\ AbuseRun + faults' \in Nat /\ AbuseRun + faults' >= 2
        /\ AbuseRun + 1 + faults' \in Nat /\ AbuseRun + 1 + faults' >= 2
    BY <1>1, <1>8, RunsTypes
  <2>4. ASSUME NEW u \in Users PROVE ~InARow(VotesToday(u)', AbuseRun + 1 + faults')
    BY <1>1, <1>3, <2>1, <2>2, <2>3 DEF RunInv
  <2>5. ASSUME NEW u \in Users, NEW s \in Requests, Passed(s)', voter(s)' = u
        PROVE  ~InARow(VotesToday(u)', AbuseRun + faults')
    <3>1. CASE u = voter(r)
      BY <2>2, <2>3, <3>1
    <3>2. CASE u # voter(r)
      <4>1. Passed(s) /\ voter(s) = u
        BY <1>1, <1>6, <2>5, <3>2 DEF Passed
      <4>2. QED
        BY <1>1, <1>3, <2>1, <3>2, <4>1 DEF RunInv
    <3>3. QED
      BY <3>1, <3>2
  <2>6. QED
    BY <2>4, <2>5 DEF RunInv
<1>9. QED
  BY <1>2, <1>7, <1>8 DEF RunsInv

\* A day begins without votes.
LEMMA MidnightRunsInv ==
  ASSUME TypeInv, RunsInv, Midnight
  PROVE  RunsInv'
<1>1. /\ UNCHANGED <<votings, ballot, pc, faults>> /\ dayStart' = clock
      /\ clock' \in Nat /\ clock' >= clock
  BY RunsTypes DEF Midnight
<1>2. VotesDated'
  BY <1>1, RunsTypes DEF RunsInv, VotesDated
<1>3. \A u : VotesToday(u)' = {}
  <2>1. \A v \in votings : ~(v.at >= clock)
    BY RunsTypes DEF RunsInv, VotesDated
  <2>2. QED
    BY <1>1, <2>1 DEF VotesToday, Today
<1>4. DiscardInv'
  BY <1>1, <1>3 DEF RunsInv, DiscardInv, voter
<1>5. \A n : ~InARow({}, n)
  BY DEF InARow
<1>6. RunInv'
  BY <1>3, <1>5 DEF RunInv
<1>7. QED
  BY <1>2, <1>4, <1>6 DEF RunsInv

LEMMA StepRunsInv ==
  PatientInv /\ RunsInv /\ [Next /\ OnePerVoter']_vars => RunsInv'
<1> SUFFICES ASSUME PatientInv, RunsInv, [Next /\ OnePerVoter']_vars
             PROVE  RunsInv'
  OBVIOUS
<1>1. TypeInv /\ TypeInv'
  BY StepPatientInv DEF PatientInv
<1>2. ASSUME NEW r \in Requests, CreateVote(r) PROVE RunsInv'
  BY <1>2, CreateRunsInv
<1>3. ASSUME NEW r \in Requests, DiscardVotes(r) PROVE RunsInv'
  BY <1>3, DiscardRunsInv
<1>4. CASE Midnight
  BY <1>1, <1>4, MidnightRunsInv
<1>5. ASSUME \/ \E r \in Requests :
                  \/ Receive(r) \/ RejectVote(r) \/ FindLimit(r) \/ FindNoLimit(r)
                  \/ PutLimit(r) \/ CreateLimit(r) \/ CheckAbuse(r)
                  \/ ReadContestant(r) \/ CountComparisons(r) \/ ReadOpponent(r)
                  \/ Listen(r) \/ MissAbuse(r) \/ FailRequest(r) \/ FailListener(r)
             \/ Crash \/ ClearVotingLimitRecords \/ UNCHANGED vars
      PROVE  RunsInv'
  BY <1>1, <1>5, FramedSteps
<1>6. QED
  BY <1>2, <1>3, <1>4, <1>5 DEF Next, Handle

LEMMA InitRunsInv == Init => RunsInv
<1> SUFFICES ASSUME Init PROVE RunsInv
  OBVIOUS
<1>1. votings = {} /\ \A r \in Requests : pc[r] = "idle"
  BY DEF Init
<1>2. \A u : VotesToday(u) = {}
  BY <1>1 DEF VotesToday, Today
<1>3. \A n : ~InARow({}, n)
  BY DEF InARow
<1>4. QED
  BY <1>1, <1>2, <1>3 DEF RunsInv, VotesDated, DiscardInv, RunInv

LEMMA RunsInvariant == PatientSpec => [](PatientInv /\ RunsInv)
BY InitPatientInv, StepPatientInv, InitRunsInv, StepRunsInv, PTL DEF PatientSpec

\* A user who waits for each answer never has, today, a run of votes longer
\* than the run that is discarded, but for one vote per failed query.
THEOREM NoRunGrowsLong == AbuseRun >= 2 => (PatientSpec => []NoLongRun)
<1> SUFFICES ASSUME AbuseRun >= 2 PROVE PatientSpec => []NoLongRun
  OBVIOUS
<1>1. RunsInv => NoLongRun
  BY DEF RunsInv, RunInv, NoLongRun
<1>2. QED
  BY <1>1, RunsInvariant, PTL

\* Votes disappear only from a user whose votes of today hold a run when they
\* do, although the check is a query of its own.
THEOREM DiscardsAreJustified == PatientSpec => DiscardJustified
<1>1. ASSUME PatientInv, RunsInv, [Next /\ OnePerVoter']_vars
      PROVE  [\A v \in votings \ votings' :
                InARow(VotesToday(v.ballot.voter), AbuseRun)]_vars
  <2> SUFFICES ASSUME NEW v \in votings, v \notin votings'
               PROVE  InARow(VotesToday(v.ballot.voter), AbuseRun)
    OBVIOUS
  <2>1. CASE \E r \in Requests : DiscardVotes(r)
    <3>1. PICK r \in Requests : DiscardVotes(r)
      BY <2>1
    <3>2. v \in VotesToday(voter(r)) /\ pc[r] = "discard"
      BY <3>1 DEF DiscardVotes
    <3>3. v.ballot.voter = voter(r)
      BY <3>2 DEF VotesToday
    <3>4. QED
      BY <1>1, <3>2, <3>3 DEF RunsInv, DiscardInv
  <2>2. ASSUME NEW r \in Requests, Receive(r) \/ Listen(r) \/ FailListener(r) PROVE FALSE
    BY <2>2 DEF Receive, Listen, ScoreContestant, ScoreOpponent, FailListener
  <2>3. ASSUME NEW r \in Requests, MissAbuse(r) \/ FailRequest(r) PROVE FALSE
    BY <2>3 DEF MissAbuse, FailRequest
  <2>4. ASSUME NEW r \in Requests, Handle(r), ~DiscardVotes(r) PROVE FALSE
    BY <2>4 DEF Handle, RejectVote, FindLimit, FindNoLimit, PutLimit, CreateLimit,
                CheckAbuse, ReadContestant, CountComparisons, ReadOpponent, CreateVote
  <2>5. CASE Midnight \/ ClearVotingLimitRecords \/ Crash \/ UNCHANGED vars
    BY <2>5 DEF Midnight, ClearVotingLimitRecords, Crash, vars
  <2>6. QED
    BY <1>1, <2>1, <2>2, <2>3, <2>4, <2>5 DEF Next
<1>2. QED
  BY <1>1, RunsInvariant, PTL DEF PatientSpec, DiscardJustified
=============================================================================
