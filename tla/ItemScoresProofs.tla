--------------------------- MODULE ItemScoresProofs ---------------------------
(***************************************************************************)
(* Proofs about ItemScores, for any number of items, categories, votes,    *)
(* events and faults, overlapping in any way.                              *)
(***************************************************************************)
EXTENDS ItemScores, TLAPS

\* Scores are only ever deleted from items that are deleted or lost.
ScoredInv ==
  /\ \A d \in deleting : item[d.item] = "deleted" \/ d.item \in lost
  /\ ScoredOrUnderWay

ItemScoresInv == TypeOK /\ ScoredInv
-----------------------------------------------------------------------------
\* The calls an event starts are typed by its number.
LEMMA EventType ==
  ASSUME TypeOK, Event, NEW i \in Items, NEW given \in SUBSET Categories
  PROVE  /\ events' \in 0..MaxEvents
         /\ FirstScores(i, given) => first' \subseteq First
         /\ DeleteScores(i) => deleting' \subseteq Deletion
<1>1. events' \in 1..MaxEvents /\ events' \in 0..MaxEvents
  BY ItemScoresAssumption DEF TypeOK, Event
<1> QED
  BY <1>1 DEF TypeOK, FirstScores, DeleteScores, First, Deletion

\* Initially everything is well typed.  A vote names some item and category
\* before it is offered a pair.
LEMMA InitTypeOK == Init => TypeOK
<1> SUFFICES ASSUME Init PROVE TypeOK
  OBVIOUS
<1>1. (CHOOSE c \in Categories : TRUE) \in Categories
  BY ItemScoresAssumption
<1>2. (CHOOSE i \in Items : TRUE) \in Items
  BY ItemScoresAssumption
<1>3. vote \in [Votes -> Vote]
  BY <1>1, <1>2 DEF Init, Vote, VoteStep, Score
<1>4. /\ item = [i \in Items |-> "absent"] /\ category = [i \in Items |-> {}]
      /\ scores = [i \in Items |-> NoScores] /\ first = {} /\ deleting = {}
      /\ events = 0 /\ faults = 0 /\ lost = {}
  BY DEF Init
<1>5. NoScores \in [Categories -> Score]
  BY DEF NoScores, Score
<1> QED
  BY <1>3, <1>4, <1>5, ItemScoresAssumption DEF TypeOK

\* Writing two fields of a vote keeps its type.
LEMMA VoteUpdate ==
  ASSUME NEW w \in Vote, NEW step \in VoteStep, NEW score \in Score
  PROVE  /\ [w EXCEPT !.step = step] \in Vote
         /\ [w EXCEPT !.step = step, !.contestantScore = score] \in Vote
         /\ [w EXCEPT !.step = step, !.opponentScore = score] \in Vote
<1> DEFINE u == [w EXCEPT !.step = step]
<1>1. u \in Vote
  BY DEF Vote
<1>2. /\ [w EXCEPT !.step = step, !.contestantScore = score]
           = [u EXCEPT !.contestantScore = score]
      /\ [w EXCEPT !.step = step, !.opponentScore = score]
           = [u EXCEPT !.opponentScore = score]
  OBVIOUS
<1> HIDE DEF u
<1>3. /\ [u EXCEPT !.contestantScore = score] \in Vote
      /\ [u EXCEPT !.opponentScore = score] \in Vote
  BY <1>1 DEF Vote
<1> QED BY <1>1, <1>2, <1>3 DEF u

\* A vote's actions change nothing but votes and scores, and keep them typed.
LEMMA VoteActionType ==
  ASSUME TypeOK, NEW v \in Votes, VoteAction(v)
  PROVE  TypeOK'
<1>t. /\ vote \in [Votes -> Vote] /\ vote[v] \in Vote
      /\ \A i \in Items, c \in Categories : scores[i][c] \in Score
      /\ vote[v].contestant \in Items /\ vote[v].opponent \in Items
      /\ vote[v].category \in Categories
  BY DEF TypeOK, Vote
<1>s. {"idle", "contestant", "opponent", "create", "scoreContestant",
       "scoreOpponent", "done"} \subseteq VoteStep
  BY DEF VoteStep
<1>1. CASE OfferPair(v)
  BY <1>1 DEF OfferPair, TypeOK, Vote, VoteStep, Score
<1>2. CASE ReadContestant(v)
  <2>1. vote'[v] \in Vote /\ vote' \in [Votes -> Vote]
    BY <1>t, <1>s, <1>2, VoteUpdate DEF ReadContestant
  <2> QED BY <1>2, <2>1 DEF ReadContestant, TypeOK
<1>3. CASE ReadOpponent(v)
  <2>1. vote'[v] \in Vote /\ vote' \in [Votes -> Vote]
    BY <1>t, <1>s, <1>3, VoteUpdate DEF ReadOpponent
  <2> QED BY <1>3, <2>1 DEF ReadOpponent, TypeOK
<1>4. CASE CreateVote(v)
  BY <1>4 DEF CreateVote, Advance, TypeOK, Vote, VoteStep
<1>5. CASE ScoreContestant(v)
  BY <1>t, <1>5 DEF ScoreContestant, Advance, NextScore, TypeOK, Vote, VoteStep, Score
<1>6. CASE ScoreOpponent(v)
  BY <1>t, <1>6 DEF ScoreOpponent, Advance, NextScore, TypeOK, Vote, VoteStep, Score
<1> QED
  BY <1>1, <1>2, <1>3, <1>4, <1>5, <1>6 DEF VoteAction

\* Every step keeps the types.
LEMMA NextTypeOK == TypeOK /\ [Next]_vars => TypeOK'
<1> SUFFICES ASSUME TypeOK, [Next]_vars PROVE TypeOK'
  OBVIOUS
<1>1. ASSUME NEW i \in Items, CreateItem(i) PROVE TypeOK'
  BY <1>1, EventType DEF CreateItem, TypeOK
<1>2. ASSUME NEW i \in Items, UpdateItem(i) PROVE TypeOK'
  BY <1>2, EventType DEF UpdateItem, TypeOK
<1>3. ASSUME NEW i \in Items, DeleteItem(i) PROVE TypeOK'
  BY <1>3, EventType DEF DeleteItem, TypeOK
<1>4. ASSUME NEW i \in Items, DeleteItemByProfile(i) PROVE TypeOK'
  BY <1>4, EventType DEF DeleteItemByProfile, TypeOK
<1>5. ASSUME NEW f \in first, FindFirst(f) PROVE TypeOK'
  BY <1>5 DEF FindFirst, TypeOK, First
<1>6. ASSUME NEW f \in first, CreateFirst(f) PROVE TypeOK'
  BY <1>6 DEF CreateFirst, TypeOK, First, Score
<1>7. ASSUME NEW d \in deleting, DeleteScoreByItemId(d) PROVE TypeOK'
  BY <1>7 DEF DeleteScoreByItemId, TypeOK, Deletion, NoScores, Score
<1>8. ASSUME NEW v \in Votes, VoteAction(v) PROVE TypeOK'
  BY <1>8, VoteActionType
<1>9. ASSUME NEW v \in Votes, FailVote(v) PROVE TypeOK'
  <2>1. vote[v] \in Vote /\ "done" \in VoteStep
    BY DEF TypeOK, VoteStep
  <2>2. vote' \in [Votes -> Vote]
    BY <1>9, <2>1 DEF FailVote, Advance, TypeOK, Vote
  <2>3. faults' \in 0..MaxFaults
    BY <1>9, ItemScoresAssumption DEF FailVote, Fault, TypeOK
  <2> QED BY <1>9, <2>2, <2>3 DEF FailVote, TypeOK
<1>10. ASSUME NEW f \in first, FailFirst(f) PROVE TypeOK'
  BY <1>10, ItemScoresAssumption DEF FailFirst, Fault, TypeOK, First
<1>11. ASSUME NEW d \in deleting, FailDeletion(d) PROVE TypeOK'
  BY <1>11, ItemScoresAssumption DEF FailDeletion, Fault, TypeOK, Deletion
<1>12. ASSUME Crash PROVE TypeOK'
  <2>1. \A v \in Votes : vote'[v] \in Vote
    BY <1>12 DEF Crash, TypeOK, Vote, VoteStep
  <2>2. vote' \in [Votes -> Vote]
    BY <1>12, <2>1 DEF Crash
  <2> QED
    BY <1>12, <2>2, ItemScoresAssumption DEF Crash, Fault, TypeOK, First, Deletion
<1>13. CASE UNCHANGED vars
  BY <1>13 DEF vars, TypeOK
<1> QED
  BY <1>1, <1>2, <1>3, <1>4, <1>5, <1>6, <1>7, <1>8, <1>9, <1>10, <1>11, <1>12,
     <1>13 DEF Next, ListenerStep

\* Every reachable state is well typed.
THEOREM ItemScoresTypeCorrect == Spec => []TypeOK
BY InitTypeOK, NextTypeOK, PTL DEF Spec
-----------------------------------------------------------------------------
\* A vote's actions take no score away.
LEMMA VoteActionKeeps ==
  ASSUME TypeOK, NEW v \in Votes, VoteAction(v)
  PROVE  /\ UNCHANGED <<item, category, first, deleting, lost>>
         /\ \A i \in Items, c \in Categories :
              scores[i][c] # "none" => scores'[i][c] # "none"
<1>1. CASE OfferPair(v)
  BY <1>1 DEF OfferPair
<1>2. CASE ReadContestant(v)
  BY <1>2 DEF ReadContestant
<1>3. CASE ReadOpponent(v)
  BY <1>3 DEF ReadOpponent
<1>4. CASE CreateVote(v)
  BY <1>4 DEF CreateVote
<1>5. CASE ScoreContestant(v)
  BY <1>5 DEF ScoreContestant, NextScore, TypeOK, Vote
<1>6. CASE ScoreOpponent(v)
  BY <1>6 DEF ScoreOpponent, NextScore, TypeOK, Vote
<1> QED
  BY <1>1, <1>2, <1>3, <1>4, <1>5, <1>6 DEF VoteAction

\* An event starts a call for each of its categories.
LEMMA FirstScoresStarts ==
  ASSUME NEW i \in Items, NEW given \in SUBSET Categories, FirstScores(i, given),
         NEW c \in given
  PROVE  \E f \in first' : f.item = i /\ f.category = c
<1> DEFINE f == [event |-> events', item |-> i, category |-> c, step |-> "find"]
<1>1. f \in first'
  BY DEF FirstScores
<1>2. f.item = i /\ f.category = c
  OBVIOUS
<1> QED BY <1>1, <1>2

\* Every step keeps the present items scored, or their first scores under way.
LEMMA NextScored == ItemScoresInv /\ [Next]_vars => ScoredInv'
<1> SUFFICES ASSUME ItemScoresInv, [Next]_vars PROVE ScoredInv'
  OBVIOUS
<1> USE DEF ItemScoresInv, TypeOK, ScoredInv, ScoredOrUnderWay
<1>t. /\ \A f \in first : f \in First /\ f.item \in Items /\ f.category \in Categories
      /\ \A d \in deleting : d.item \in Items
  BY DEF First, Deletion
<1>1. ASSUME NEW i \in Items, CreateItem(i) PROVE ScoredInv'
  <2>1. PICK given \in SUBSET Categories :
          category' = [category EXCEPT ![i] = given] /\ FirstScores(i, given)
    BY <1>1 DEF CreateItem
  <2>2. \A c \in given : \E f \in first' : f.item = i /\ f.category = c
    BY <2>1, FirstScoresStarts
  <2>3. first \subseteq first'
    BY <2>1 DEF FirstScores
  <2> QED BY <1>t, <1>1, <2>1, <2>2, <2>3 DEF CreateItem
<1>2. ASSUME NEW i \in Items, UpdateItem(i) PROVE ScoredInv'
  <2>1. PICK given \in SUBSET Categories :
          category' = [category EXCEPT ![i] = given] /\ FirstScores(i, given)
    BY <1>2 DEF UpdateItem
  <2>2. \A c \in given : \E f \in first' : f.item = i /\ f.category = c
    BY <2>1, FirstScoresStarts
  <2>3. first \subseteq first'
    BY <2>1 DEF FirstScores
  <2> QED BY <1>t, <1>2, <2>1, <2>2, <2>3 DEF UpdateItem
<1>3. ASSUME NEW i \in Items, DeleteItem(i) PROVE ScoredInv'
  BY <1>t, <1>3 DEF DeleteItem, DeleteScores
<1>4. ASSUME NEW i \in Items, DeleteItemByProfile(i) PROVE ScoredInv'
  BY <1>t, <1>4 DEF DeleteItemByProfile, DeleteScores
<1>5. ASSUME NEW f \in first, FindFirst(f) PROVE ScoredInv'
  <2> DEFINE g == [f EXCEPT !.step = "create"]
  <2>1. g.item = f.item /\ g.category = f.category
    BY <1>t DEF First
  <2> HIDE DEF g
  <2>2. CASE scores[f.item][f.category] = "none"
    <3>1. first' = (first \ {f}) \cup {g}
      BY <1>5, <2>2 DEF FindFirst, g
    <3> QED BY <1>5, <2>1, <3>1 DEF FindFirst
  <2>3. CASE scores[f.item][f.category] # "none"
    BY <1>5, <2>3 DEF FindFirst
  <2> QED BY <2>2, <2>3
<1>6. ASSUME NEW f \in first, CreateFirst(f) PROVE ScoredInv'
  BY <1>t, <1>6 DEF CreateFirst
<1>7. ASSUME NEW d \in deleting, DeleteScoreByItemId(d) PROVE ScoredInv'
  <2>1. \A i \in Items \ lost : item[i] = "present" => i # d.item
    BY <1>7
  <2> QED BY <1>t, <1>7, <2>1 DEF DeleteScoreByItemId
<1>8. ASSUME NEW v \in Votes, VoteAction(v) PROVE ScoredInv'
  BY <1>8, VoteActionKeeps
<1>9. ASSUME NEW v \in Votes, FailVote(v) PROVE ScoredInv'
  BY <1>9 DEF FailVote
<1>10. ASSUME NEW f \in first, FailFirst(f) PROVE ScoredInv'
  BY <1>t, <1>10 DEF FailFirst
<1>11. ASSUME NEW d \in deleting, FailDeletion(d) PROVE ScoredInv'
  BY <1>t, <1>11 DEF FailDeletion
<1>12. ASSUME Crash PROVE ScoredInv'
  BY <1>12 DEF Crash
<1>13. CASE UNCHANGED vars
  BY <1>13 DEF vars
<1> QED
  BY <1>1, <1>2, <1>3, <1>4, <1>5, <1>6, <1>7, <1>8, <1>9, <1>10, <1>11, <1>12,
     <1>13 DEF Next, ListenerStep

\* A present item always has its scores or a call under way that creates them,
\* however events, votes and deletions overlap, unless it was lost.
THEOREM AlwaysScored == Spec => []ScoredOrUnderWay
<1>1. Init => ItemScoresInv
  BY InitTypeOK DEF Init, ItemScoresInv, ScoredInv, ScoredOrUnderWay
<1>2. ItemScoresInv /\ [Next]_vars => ItemScoresInv'
  BY NextTypeOK, NextScored DEF ItemScoresInv
<1>3. ItemScoresInv => ScoredOrUnderWay
  BY DEF ItemScoresInv, ScoredInv
<1> QED BY <1>1, <1>2, <1>3, PTL DEF Spec
-----------------------------------------------------------------------------
(* One event or vote at a time.                                             *)

\* Calls belong to the one event under way, which either creates or deletes; a
\* call that is to create a score has found none, is the only one for its item
\* and category, and the item is there.  The items of a vote under way are
\* there and, unless lost, scored.
CallsInv ==
  /\ \A x \in first \cup deleting : x.event <= events
  /\ \A f \in first, d \in deleting : f.event # d.event
  /\ \A f \in first : /\ item[f.item] = "present"
                      /\ f.step = "create" => scores[f.item][f.category] = "none"
  /\ \A f, g \in first : f.item = g.item /\ f.category = g.category => f = g

VotesInv ==
  \A v \in Votes : Voting(v) =>
    \A i \in {vote[v].contestant, vote[v].opponent} :
      /\ item[i] = "present"
      /\ i \notin lost => scores[i][vote[v].category] # "none"

SerialInv == OneAtATime /\ CallsInv /\ VotesInv /\ DeletedStayClean

\* What the action properties allow a step to do to the scores.
ScoreStep ==
  /\ \A i \in Items, c \in Categories :
       scores'[i][c] = "first" => scores[i][c] \in {"none", "first"}
  /\ \A i \in Items \ lost, c \in Categories :
       scores[i][c] = "none" => scores'[i][c] \in {"none", "first"}

LEMMA InitSerial == Init => SerialInv
<1> SUFFICES ASSUME Init PROVE SerialInv
  OBVIOUS
<1>1. \A v \in Votes : ~Voting(v)
  BY DEF Init, Voting
<1>2. first = {} /\ deleting = {} /\ \A i \in Items : item[i] = "absent"
  BY DEF Init
<1> QED
  BY <1>1, <1>2 DEF SerialInv, OneAtATime, CallsInv, VotesInv, DeletedStayClean

\* An event of which calls are under way started alone.
LEMMA EventAlone ==
  ASSUME TypeOK, SerialInv, OneAtATime', Event,
         NEW x \in first' \cup deleting', x.event = events',
         first \subseteq first', deleting \subseteq deleting'
  PROVE  first = {} /\ deleting = {}
<1>1. \A y \in first \cup deleting : y.event <= events /\ y.event = events'
  BY DEF OneAtATime, SerialInv, CallsInv
<1>2. events \in Nat /\ events' = events + 1
  BY DEF TypeOK, Event
<1>3. \A y \in first \cup deleting : y.event \in Nat
  BY DEF TypeOK, First, Deletion
<1> QED BY <1>1, <1>2, <1>3

\* Creating or updating an item starts calls that are alone, or none.
LEMMA FirstScoresSerial ==
  ASSUME TypeOK, SerialInv, OneAtATime', Event,
         NEW i \in Items, NEW given \in SUBSET Categories, FirstScores(i, given),
         item' = [item EXCEPT ![i] = "present"], item[i] # "deleted",
         UNCHANGED <<scores, deleting, vote, lost>>
  PROVE  SerialInv' /\ ScoreStep
<1> DEFINE calls == {[event |-> events', item |-> i, category |-> c,
                      step |-> "find"] : c \in given}
<1>1. first' = first \cup calls /\ first \subseteq first' /\ deleting' = deleting
  BY DEF FirstScores
<1>2. /\ item \in [Items -> {"absent", "present", "deleted"}]
      /\ vote \in [Votes -> Vote] /\ events \in Nat /\ events' = events + 1
  BY DEF TypeOK, Event
<1>3. \A f \in calls : /\ f.event = events' /\ f.item = i /\ f.step = "find"
                       /\ \A g \in calls : f.category = g.category => f = g
  OBVIOUS
<1> HIDE DEF calls
<1>4. calls = {} \/ (first = {} /\ deleting = {})
  <2> SUFFICES ASSUME NEW f \in calls PROVE first = {} /\ deleting = {}
    OBVIOUS
  <2> QED BY <1>1, <1>3, EventAlone
<1>5. \A x \in first \cup deleting : x.event \in Nat
  BY DEF TypeOK, First, Deletion
<1>6. CallsInv'
  <2>1. CASE calls = {}
    BY <1>1, <1>2, <1>5, <2>1 DEF SerialInv, CallsInv, TypeOK, First
  <2>2. CASE first = {} /\ deleting = {}
    BY <1>1, <1>2, <1>3, <2>2 DEF CallsInv
  <2> QED BY <1>4, <2>1, <2>2
<1>7. VotesInv'
  BY <1>2 DEF SerialInv, VotesInv, Voting, Vote
<1>8. DeletedStayClean'
  BY <1>1, <1>2 DEF SerialInv, DeletedStayClean
<1>9. ScoreStep
  BY DEF ScoreStep
<1> QED BY <1>6, <1>7, <1>8, <1>9 DEF SerialInv

\* Deleting an item's scores starts alone.
LEMMA DeleteScoresSerial ==
  ASSUME TypeOK, SerialInv, OneAtATime', Event, NEW i \in Items, DeleteScores(i),
         \/ item' = [item EXCEPT ![i] = "deleted"] /\ lost' = lost
         \/ item' = item /\ lost' = lost \cup {i},
         UNCHANGED <<scores, first, vote>>
  PROVE  SerialInv' /\ ScoreStep
<1> DEFINE d == [event |-> events', item |-> i]
<1>1. deleting' = deleting \cup {d} /\ d \in deleting' /\ d.event = events'
      /\ d.item = i
  BY DEF DeleteScores
<1> HIDE DEF d
<1>2. first = {} /\ deleting = {}
  BY <1>1, EventAlone
<1>3. \A v \in Votes : ~Voting(v)'
  BY <1>1 DEF OneAtATime
<1>4. CallsInv'
  BY <1>1, <1>2 DEF CallsInv, TypeOK, Event
<1>5. VotesInv'
  BY <1>3 DEF VotesInv
<1>6. DeletedStayClean'
  BY <1>1, <1>2 DEF SerialInv, DeletedStayClean, TypeOK
<1>7. ScoreStep
  BY DEF ScoreStep
<1> QED BY <1>4, <1>5, <1>6, <1>7 DEF SerialInv

\* A vote leaves the items of its pair scored, and scores nothing else.
LEMMA VoteSerial ==
  ASSUME ItemScoresInv, SerialInv, OneAtATime', NEW v \in Votes, VoteAction(v)
  PROVE  SerialInv' /\ ScoreStep
<1>t. /\ vote \in [Votes -> Vote] /\ scores \in [Items -> [Categories -> Score]]
      /\ vote[v].contestant \in Items /\ vote[v].opponent \in Items
      /\ vote[v].category \in Categories
  BY DEF ItemScoresInv, TypeOK, Vote
<1>u. UNCHANGED <<item, category, first, deleting, events, lost>>
  BY DEF VoteAction, OfferPair, ReadContestant, ReadOpponent, CreateVote,
         ScoreContestant, ScoreOpponent
<1>0. first = {} /\ deleting = {}
  <2>1. Voting(v) \/ Voting(v)'
    <3>1. CASE OfferPair(v)
      BY <1>t, <3>1 DEF OfferPair, Voting
    <3>2. CASE ~OfferPair(v)
      BY <3>2 DEF VoteAction, ReadContestant, ReadOpponent, CreateVote,
                  ScoreContestant, ScoreOpponent, Voting
    <3> QED BY <3>1, <3>2
  <2> QED BY <1>u, <2>1 DEF SerialInv, OneAtATime
<1>1. CallsInv'
  BY <1>0, <1>u DEF CallsInv
<1> DEFINE Pair == {vote[v].contestant, vote[v].opponent}
<1>2. CASE OfferPair(v)
  <2>1. PICK c \in Categories, i \in Items, j \in Items :
          /\ item[i] = "present" /\ c \in category[i]
          /\ item[j] = "present" /\ c \in category[j]
          /\ vote' = [vote EXCEPT ![v] =
               [step |-> "contestant", category |-> c, contestant |-> i,
                opponent |-> j, contestantScore |-> "none",
                opponentScore |-> "none"]]
          /\ scores' = scores
    BY <1>2 DEF OfferPair
  <2>2. \A k \in {i, j} \ lost : scores[k][c] # "none"
    BY <1>0, <2>1 DEF ItemScoresInv, ScoredInv, ScoredOrUnderWay
  <2>3. /\ vote'[v].category = c /\ vote'[v].contestant = i /\ vote'[v].opponent = j
        /\ \A w \in Votes \ {v} : vote'[w] = vote[w]
    BY <1>t, <2>1
  <2>4. VotesInv'
    BY <1>u, <2>1, <2>2, <2>3 DEF SerialInv, VotesInv, Voting
  <2> QED
    BY <1>1, <1>u, <2>1, <2>4 DEF SerialInv, DeletedStayClean, ScoreStep
<1>3. ASSUME Voting(v), NEW i \in Pair, NEW new \in {"voted", "baseless"},
             scores' = scores \/ scores' = [scores EXCEPT ![i][vote[v].category] = new],
             \A w \in Votes : /\ vote'[w].category = vote[w].category
                              /\ vote'[w].contestant = vote[w].contestant
                              /\ vote'[w].opponent = vote[w].opponent
                              /\ Voting(w)' => Voting(w)
      PROVE  SerialInv' /\ ScoreStep
  <2>1. /\ i \in Items /\ item[i] = "present"
        /\ i \notin lost => scores[i][vote[v].category] # "none"
    BY <1>t, <1>3 DEF SerialInv, VotesInv
  <2>2. \A k \in Items, c \in Categories :
          \/ scores'[k][c] = scores[k][c]
          \/ k = i /\ c = vote[v].category /\ scores'[k][c] = new
    BY <1>t, <1>3, <2>1
  <2>3. ScoreStep
    BY <1>3, <2>1, <2>2 DEF ScoreStep
  <2>4. VotesInv'
    <3> SUFFICES ASSUME NEW w \in Votes, Voting(w)',
                        NEW k \in {vote[w].contestant, vote[w].opponent}
                 PROVE  /\ item[k] = "present"
                        /\ k \notin lost => scores'[k][vote[w].category] # "none"
      BY <1>u, <1>3 DEF VotesInv
    <3>1. Voting(w) /\ vote[w].category \in Categories /\ k \in Items
      BY <1>3 DEF ItemScoresInv, TypeOK, Vote
    <3> QED BY <1>3, <2>2, <3>1 DEF SerialInv, VotesInv
  <2>5. DeletedStayClean'
    <3> SUFFICES ASSUME NEW k \in Items \ lost, item[k] = "deleted",
                        \A d \in deleting : d.item # k
                 PROVE  scores'[k] = NoScores
      BY <1>u DEF DeletedStayClean
    <3>1. k # i /\ scores[k] = NoScores
      BY <2>1 DEF SerialInv, DeletedStayClean
    <3> QED BY <1>t, <1>3, <2>1, <3>1
  <2> QED BY <1>1, <2>3, <2>4, <2>5 DEF SerialInv
<1>4. ASSUME Voting(v),
             \/ ReadContestant(v) \/ ReadOpponent(v) \/ CreateVote(v)
             \/ ScoreContestant(v) \/ ScoreOpponent(v)
      PROVE  \A w \in Votes : /\ vote'[w].category = vote[w].category
                              /\ vote'[w].contestant = vote[w].contestant
                              /\ vote'[w].opponent = vote[w].opponent
                              /\ Voting(w)' => Voting(w)
  <2>1. \A w \in Votes \ {v} : vote'[w] = vote[w]
    BY <1>t, <1>4 DEF ReadContestant, ReadOpponent, CreateVote, ScoreContestant,
                      ScoreOpponent, Advance
  <2>2. /\ vote'[v].category = vote[v].category
        /\ vote'[v].contestant = vote[v].contestant
        /\ vote'[v].opponent = vote[v].opponent
    <3>1. vote[v] \in Vote
      BY <1>t
    <3>2. CASE ReadContestant(v)
      BY <1>t, <3>1, <3>2 DEF ReadContestant, Vote
    <3>3. CASE ReadOpponent(v)
      BY <1>t, <3>1, <3>3 DEF ReadOpponent, Vote
    <3>4. CASE CreateVote(v) \/ ScoreContestant(v) \/ ScoreOpponent(v)
      BY <1>t, <3>1, <3>4 DEF CreateVote, ScoreContestant, ScoreOpponent, Advance, Vote
    <3> QED BY <1>4, <3>2, <3>3, <3>4
  <2> QED BY <1>4, <2>1, <2>2 DEF Voting
<1>5. ASSUME \/ ReadContestant(v) \/ ReadOpponent(v) \/ CreateVote(v)
             \/ ScoreContestant(v) \/ ScoreOpponent(v)
      PROVE  SerialInv' /\ ScoreStep
  <2>1. Voting(v)
    BY <1>5 DEF ReadContestant, ReadOpponent, CreateVote, ScoreContestant,
                ScoreOpponent, Voting
  <2>2. \E i \in Pair, new \in {"voted", "baseless"} :
          scores' = scores \/ scores' = [scores EXCEPT ![i][vote[v].category] = new]
    BY <1>5 DEF ReadContestant, ReadOpponent, CreateVote, ScoreContestant,
                ScoreOpponent, NextScore
  <2> QED BY <1>3, <1>4, <1>5, <2>1, <2>2
<1> QED BY <1>2, <1>5 DEF VoteAction

\* Every step of events and votes that do not overlap.
LEMMA NextSerial ==
  ASSUME ItemScoresInv, SerialInv, [Next /\ OneAtATime']_vars
  PROVE  SerialInv' /\ (ScoreStep \/ UNCHANGED vars)
<1>t. /\ item \in [Items -> {"absent", "present", "deleted"}]
      /\ scores \in [Items -> [Categories -> Score]]
      /\ vote \in [Votes -> Vote]
      /\ \A f \in first : f.item \in Items /\ f.category \in Categories
      /\ \A d \in deleting : d.item \in Items
  BY DEF ItemScoresInv, TypeOK, First, Deletion
<1>0. CASE UNCHANGED vars
  BY <1>0 DEF vars, SerialInv, OneAtATime, CallsInv, VotesInv, DeletedStayClean, Voting
<1>1. ASSUME NEW i \in Items, CreateItem(i) \/ UpdateItem(i), OneAtATime'
      PROVE  SerialInv' /\ ScoreStep
  <2>1. PICK given \in SUBSET Categories : FirstScores(i, given)
    BY <1>1 DEF CreateItem, UpdateItem
  <2>2. /\ Event /\ item[i] # "deleted" /\ item' = [item EXCEPT ![i] = "present"]
        /\ UNCHANGED <<scores, deleting, vote, lost>>
    BY <1>t, <1>1 DEF CreateItem, UpdateItem
  <2> QED BY <1>1, <2>1, <2>2, FirstScoresSerial DEF ItemScoresInv
<1>2. ASSUME NEW i \in Items, DeleteItem(i) \/ DeleteItemByProfile(i), OneAtATime'
      PROVE  SerialInv' /\ ScoreStep
  BY <1>2, DeleteScoresSerial DEF DeleteItem, DeleteItemByProfile, ItemScoresInv
<1>3. ASSUME NEW f \in first, FindFirst(f), OneAtATime' PROVE SerialInv' /\ ScoreStep
  <2> DEFINE g == [f EXCEPT !.step = "create"]
  <2>1. /\ g.item = f.item /\ g.category = f.category /\ g.event = f.event
        /\ \/ first' = first \ {f}
           \/ /\ first' = (first \ {f}) \cup {g}
              /\ scores[f.item][f.category] = "none"
    BY <1>3 DEF FindFirst, ItemScoresInv, TypeOK, First
  <2> HIDE DEF g
  <2>2. UNCHANGED <<item, scores, deleting, vote, events, lost>>
    BY <1>3 DEF FindFirst
  <2>3. CallsInv'
    BY <2>1, <2>2 DEF SerialInv, CallsInv
  <2> QED
    BY <1>3, <2>2, <2>3 DEF SerialInv, VotesInv, DeletedStayClean, Voting, ScoreStep
<1>4. ASSUME NEW f \in first, CreateFirst(f), OneAtATime' PROVE SerialInv' /\ ScoreStep
  <2>1. /\ first' = first \ {f}
        /\ scores' = [scores EXCEPT ![f.item][f.category] = "first"]
        /\ scores[f.item][f.category] = "none" /\ item[f.item] = "present"
        /\ UNCHANGED <<item, deleting, vote, events, lost>>
    BY <1>4 DEF CreateFirst, SerialInv, CallsInv
  <2>2. \A i \in Items, c \in Categories :
          scores'[i][c] = IF i = f.item /\ c = f.category THEN "first" ELSE scores[i][c]
    BY <1>t, <2>1
  <2>3. CallsInv'
    BY <1>t, <2>1, <2>2 DEF SerialInv, CallsInv
  <2>4. \A v \in Votes : ~Voting(v)'
    BY <2>1 DEF SerialInv, OneAtATime, Voting
  <2>5. DeletedStayClean'
    BY <1>t, <2>1 DEF SerialInv, DeletedStayClean
  <2>6. ScoreStep
    BY <2>1, <2>2 DEF ScoreStep
  <2> QED BY <1>4, <2>3, <2>4, <2>5, <2>6 DEF SerialInv, VotesInv
<1>5. ASSUME NEW d \in deleting, DeleteScoreByItemId(d), OneAtATime'
      PROVE  SerialInv' /\ ScoreStep
  <2>1. /\ deleting' = deleting \ {d}
        /\ scores' = [scores EXCEPT ![d.item] = NoScores]
        /\ UNCHANGED <<item, first, vote, events, lost>>
    BY <1>5 DEF DeleteScoreByItemId
  <2>2. \A i \in Items, c \in Categories : scores'[i][c] \in {"none", scores[i][c]}
    BY <1>t, <2>1 DEF NoScores
  <2>3. first = {}
    BY DEF SerialInv, OneAtATime, CallsInv
  <2>4. \A v \in Votes : ~Voting(v)'
    BY <2>1 DEF SerialInv, OneAtATime, Voting
  <2>5. DeletedStayClean'
    BY <1>t, <2>1 DEF SerialInv, DeletedStayClean
  <2>6. CallsInv'
    BY <2>1, <2>3 DEF SerialInv, CallsInv
  <2> QED BY <1>5, <2>2, <2>4, <2>5, <2>6 DEF SerialInv, VotesInv, ScoreStep
<1>6. ASSUME NEW v \in Votes, VoteAction(v), OneAtATime' PROVE SerialInv' /\ ScoreStep
  BY <1>6, VoteSerial
<1> DEFINE Less == /\ UNCHANGED <<item, scores, events>>
                   /\ first' \subseteq first /\ deleting' \subseteq deleting
                   /\ lost \subseteq lost'
                   /\ \A d \in deleting : d \in deleting' \/ d.item \in lost'
                   /\ \A v \in Votes : Voting(v)' => vote'[v] = vote[v] /\ Voting(v)
<1>7. ASSUME Less, OneAtATime' PROVE SerialInv' /\ ScoreStep
  BY <1>7 DEF SerialInv, CallsInv, VotesInv, DeletedStayClean, ScoreStep
<1> HIDE DEF Less
<1>8. ASSUME NEW v \in Votes, FailVote(v) PROVE Less
  <2>1. \A w \in Votes : vote'[w] = vote[w] \/ ~Voting(w)'
    BY <1>t, <1>8 DEF FailVote, Advance, Voting, Vote
  <2> QED BY <1>8, <2>1 DEF FailVote, Less, Voting
<1>9. ASSUME NEW f \in first, FailFirst(f) PROVE Less
  BY <1>9 DEF FailFirst, Less, Voting
<1>10. ASSUME NEW d \in deleting, FailDeletion(d) PROVE Less
  BY <1>10 DEF FailDeletion, Less, Voting
<1>11. ASSUME Crash PROVE Less
  <2>1. \A w \in Votes : ~Voting(w)'
    BY <1>t, <1>11 DEF Crash, Voting, Vote
  <2> QED BY <1>11, <2>1 DEF Crash, Less
<1> QED
  BY <1>0, <1>1, <1>2, <1>3, <1>4, <1>5, <1>6, <1>7, <1>8, <1>9, <1>10, <1>11
  DEF Next, ListenerStep

LEMMA SerialInvariant == SerialSpec => [](ItemScoresInv /\ SerialInv)
<1>1. Init => ItemScoresInv /\ SerialInv
  BY InitTypeOK, InitSerial DEF Init, ItemScoresInv, ScoredInv, ScoredOrUnderWay
<1>2. ItemScoresInv /\ SerialInv /\ [Next /\ OneAtATime']_vars
        => (ItemScoresInv /\ SerialInv)'
  BY NextTypeOK, NextScored, NextSerial DEF ItemScoresInv
<1> QED BY <1>1, <1>2, PTL DEF SerialSpec

\* When events and votes do not overlap, a deleted item's scores never come
\* back.
THEOREM DeletedClean == SerialSpec => []DeletedStayClean
<1>1. SerialInv => DeletedStayClean
  BY DEF SerialInv
<1> QED BY <1>1, SerialInvariant, PTL

\* When events and votes do not overlap, the first score of 1500 replaces no
\* score that votes have moved.
THEOREM FirstScoreReplacesNone == SerialSpec => FirstScoreOnce
<1>1. ItemScoresInv /\ SerialInv /\ [Next /\ OneAtATime']_vars
        => [\A i \in Items, c \in Categories :
              scores'[i][c] = "first" => scores[i][c] \in {"none", "first"}]_vars
  BY NextSerial DEF ScoreStep
<1> QED BY <1>1, SerialInvariant, PTL DEF SerialSpec, FirstScoreOnce

\* When events and votes do not overlap, votes only ever move scores that
\* descend from the first score, unless the item was lost.
THEOREM FirstScoreComesFirst == SerialSpec => FirstScoreFirst
<1>1. ItemScoresInv /\ SerialInv /\ [Next /\ OneAtATime']_vars
        => [\A i \in Items \ lost, c \in Categories :
              scores[i][c] = "none" => scores'[i][c] \in {"none", "first"}]_vars
  BY NextSerial DEF ScoreStep
<1> QED BY <1>1, SerialInvariant, PTL DEF SerialSpec, FirstScoreFirst
=============================================================================
