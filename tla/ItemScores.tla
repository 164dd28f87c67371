------------------------------ MODULE ItemScores ------------------------------
(***************************************************************************)
(* Where an item's scores come from and go to: ItemScoreListener and       *)
(* ItemScoreV1Service, beside the items' create, update and delete         *)
(* (ComparisonItemV1Service) that emit its events and the votes that read  *)
(* and add scores.  A listener starts queries that nobody waits for, so    *)
(* those of several events and votes may overlap.                          *)
(*                                                                         *)
(* Of a score only its descent matters here: the first score of 1500, one  *)
(* that votes computed from a score, or one that votes computed from the 0 *)
(* that stands for a missing score.  Voting has the arithmetic.            *)
(***************************************************************************)
EXTENDS Naturals

CONSTANTS
  Items, Categories, Votes,
  MaxEvents,  \* bound: items created, updated or deleted, profiles deleted
  MaxFaults   \* bound: failed queries and crashes

ASSUME ItemScoresAssumption ==
  /\ Items # {}
  /\ Categories # {}
  /\ MaxEvents \in Nat
  /\ MaxFaults \in Nat

VARIABLES
  item,      \* [Items -> "absent" | "present" | "deleted"]
  category,  \* [Items -> SUBSET Categories]
  scores,    \* [Items -> [Categories -> Score]], the newest ItemScore of each
  first,     \* calls of findAndCreateScore under way
  deleting,  \* calls of deleteScoreByItemId under way
  vote,      \* [Votes -> Vote], a visitor's vote and its listener
  events, faults,
  lost       \* history: items that a failed call was for, or whose scores were
             \* deleted with a profile

vars == <<item, category, scores, first, deleting, vote, events, faults, lost>>

Score == {"none", "first", "voted", "baseless"}

\* A call keeps the number of the event that started it.
First == [event : 1..MaxEvents, item : Items, category : Categories,
          step : {"find", "create"}]
Deletion == [event : 1..MaxEvents, item : Items]

VoteStep == {"idle", "contestant", "opponent", "create", "scoreContestant",
             "scoreOpponent", "done"}
Vote == [step : VoteStep, category : Categories, contestant : Items,
         opponent : Items, contestantScore : Score, opponentScore : Score]

TypeOK ==
  /\ item \in [Items -> {"absent", "present", "deleted"}]
  /\ category \in [Items -> SUBSET Categories]
  /\ scores \in [Items -> [Categories -> Score]]
  /\ first \subseteq First
  /\ deleting \subseteq Deletion
  /\ vote \in [Votes -> Vote]
  /\ events \in 0..MaxEvents
  /\ faults \in 0..MaxFaults
  /\ lost \subseteq Items

NoScores == [c \in Categories |-> "none"]

Init ==
  /\ item = [i \in Items |-> "absent"]
  /\ category = [i \in Items |-> {}]
  /\ scores = [i \in Items |-> NoScores]
  /\ first = {}
  /\ deleting = {}
  /\ vote = [v \in Votes |->
       [step |-> "idle", category |-> CHOOSE c \in Categories : TRUE,
        contestant |-> CHOOSE i \in Items : TRUE,
        opponent |-> CHOOSE i \in Items : TRUE,
        contestantScore |-> "none", opponentScore |-> "none"]]
  /\ events = 0
  /\ faults = 0
  /\ lost = {}
-----------------------------------------------------------------------------
(* The items.  An event's listener runs as it is emitted.                   *)

Event == events < MaxEvents /\ events' = events + 1

\* handleComparisonItemCreatedEvent and handleComparisonItemUpdatedEvent: one
\* call for each category of the event.
FirstScores(i, given) ==
  first' = first \cup {[event |-> events', item |-> i, category |-> c,
                        step |-> "find"] : c \in given}

\* createItem.  Without a category the listener throws, which createItem
\* catches: the item is there, with no category and no score.
CreateItem(i) ==
  /\ item[i] = "absent"
  /\ Event
  /\ \E given \in SUBSET Categories :
       /\ item' = [item EXCEPT ![i] = "present"]
       /\ category' = [category EXCEPT ![i] = given]
       /\ FirstScores(i, given)
  /\ UNCHANGED <<scores, deleting, vote, faults, lost>>

\* Variant: an update does not tell the listener.
UpdateItemQuietly(i) ==
  /\ item[i] = "present"
  /\ Event
  /\ \E given \in SUBSET Categories :
       category' = [category EXCEPT ![i] = given]
  /\ UNCHANGED <<item, scores, first, deleting, vote, faults, lost>>

\* updateItem with a category, which may be the same as before.  (An update
\* without one leaves the categories and, for the listener throws, the scores.)
UpdateItem(i) ==
  /\ item[i] = "present"
  /\ Event
  /\ \E given \in SUBSET Categories :
       /\ category' = [category EXCEPT ![i] = given]
       /\ FirstScores(i, given)
  /\ UNCHANGED <<item, scores, deleting, vote, faults, lost>>

DeleteScores(i) == deleting' = deleting \cup {[event |-> events', item |-> i]}

\* deleteItem
DeleteItem(i) ==
  /\ item[i] = "present"
  /\ Event
  /\ item' = [item EXCEPT ![i] = "deleted"]
  /\ DeleteScores(i)
  /\ UNCHANGED <<category, scores, first, vote, faults, lost>>

\* deleteItemByProfile.  The filter names a field that the schema of items does
\* not have and is stripped, so findOne returns whichever item comes first; the
\* item itself stays.
DeleteItemByProfile(i) ==
  /\ item[i] = "present"
  /\ Event
  /\ DeleteScores(i)
  /\ lost' = lost \cup {i}
  /\ UNCHANGED <<item, category, scores, first, vote, faults>>
-----------------------------------------------------------------------------
(* ItemScoreV1Service                                                       *)

\* Variant: an item that has a score in any category counts as scored.
FindAnyFirst(f) ==
  /\ f \in first /\ f.step = "find"
  /\ first' = IF \A c \in Categories : scores[f.item][c] = "none"
              THEN (first \ {f}) \cup {[f EXCEPT !.step = "create"]}
              ELSE first \ {f}
  /\ UNCHANGED <<item, category, scores, deleting, vote, events, faults, lost>>

\* Variant: the score is created without looking for one.
FindNothing(f) ==
  /\ f \in first /\ f.step = "find"
  /\ first' = (first \ {f}) \cup {[f EXCEPT !.step = "create"]}
  /\ UNCHANGED <<item, category, scores, deleting, vote, events, faults, lost>>

\* findAndCreateScore looks for a score ...
FindFirst(f) ==
  /\ f \in first /\ f.step = "find"
  /\ first' = IF scores[f.item][f.category] = "none"
              THEN (first \ {f}) \cup {[f EXCEPT !.step = "create"]}
              ELSE first \ {f}
  /\ UNCHANGED <<item, category, scores, deleting, vote, events, faults, lost>>

\* ... and creates one of 1500, which is the newest then.
CreateFirst(f) ==
  /\ f \in first /\ f.step = "create"
  /\ first' = first \ {f}
  /\ scores' = [scores EXCEPT ![f.item][f.category] = "first"]
  /\ UNCHANGED <<item, category, deleting, vote, events, faults, lost>>

\* Variant: deleteOne for deleteMany.
DeleteOneScore(d) ==
  /\ d \in deleting
  /\ deleting' = deleting \ {d}
  /\ \E c \in Categories : scores' = [scores EXCEPT ![d.item][c] = "none"]
  /\ UNCHANGED <<item, category, first, vote, events, faults, lost>>

\* deleteScoreByItemId
DeleteScoreByItemId(d) ==
  /\ d \in deleting
  /\ deleting' = deleting \ {d}
  /\ scores' = [scores EXCEPT ![d.item] = NoScores]
  /\ UNCHANGED <<item, category, first, vote, events, faults, lost>>
-----------------------------------------------------------------------------
(* A vote, from the offer of a pair to the scores it stores.                *)

Advance(v, step) == vote' = [vote EXCEPT ![v].step = step]

\* getComparisonItem offers two items of a category.  The vote may come much
\* later, and nothing asks then whether they still exist.
OfferPair(v) ==
  /\ vote[v].step = "idle"
  /\ \E c \in Categories : \E i, j \in {k \in Items : /\ item[k] = "present"
                                                     /\ c \in category[k]} :
       /\ i # j
       /\ vote' = [vote EXCEPT ![v] =
            [step |-> "contestant", category |-> c, contestant |-> i,
             opponent |-> j, contestantScore |-> "none", opponentScore |-> "none"]]
  /\ UNCHANGED <<item, category, scores, first, deleting, events, faults, lost>>

ReadContestant(v) ==
  /\ vote[v].step = "contestant"
  /\ vote' = [vote EXCEPT ![v] = [@ EXCEPT !.step = "opponent",
       !.contestantScore = scores[vote[v].contestant][vote[v].category]]]
  /\ UNCHANGED <<item, category, scores, first, deleting, events, faults, lost>>

ReadOpponent(v) ==
  /\ vote[v].step = "opponent"
  /\ vote' = [vote EXCEPT ![v] = [@ EXCEPT !.step = "create",
       !.opponentScore = scores[vote[v].opponent][vote[v].category]]]
  /\ UNCHANGED <<item, category, scores, first, deleting, events, faults, lost>>

CreateVote(v) ==
  /\ vote[v].step = "create"
  /\ Advance(v, "scoreContestant")
  /\ UNCHANGED <<item, category, scores, first, deleting, events, faults, lost>>

\* The next rating of an item, from the rating read: ?? 0 for a missing one.
NextScore(read) == IF read \in {"none", "baseless"} THEN "baseless" ELSE "voted"

\* handleVotingItemCreatedEvent
ScoreContestant(v) ==
  /\ vote[v].step = "scoreContestant"
  /\ scores' = [scores EXCEPT ![vote[v].contestant][vote[v].category] =
                  NextScore(vote[v].contestantScore)]
  /\ Advance(v, "scoreOpponent")
  /\ UNCHANGED <<item, category, first, deleting, events, faults, lost>>

ScoreOpponent(v) ==
  /\ vote[v].step = "scoreOpponent"
  /\ scores' = [scores EXCEPT ![vote[v].opponent][vote[v].category] =
                  NextScore(vote[v].opponentScore)]
  /\ Advance(v, "done")
  /\ UNCHANGED <<item, category, first, deleting, events, faults, lost>>
-----------------------------------------------------------------------------
(* Failures: an unhandled rejection nobody hears of, or the process's end.  *)

Fault == faults < MaxFaults /\ faults' = faults + 1

FailFirst(f) ==
  /\ f \in first
  /\ Fault
  /\ first' = first \ {f}
  /\ lost' = lost \cup {f.item}
  /\ UNCHANGED <<item, category, scores, deleting, vote, events>>

FailDeletion(d) ==
  /\ d \in deleting
  /\ Fault
  /\ deleting' = deleting \ {d}
  /\ lost' = lost \cup {d.item}
  /\ UNCHANGED <<item, category, scores, first, vote, events>>

Voting(v) == vote[v].step \notin {"idle", "done"}

FailVote(v) ==
  /\ Voting(v)
  /\ Fault
  /\ Advance(v, "done")
  /\ UNCHANGED <<item, category, scores, first, deleting, events, lost>>

Crash ==
  /\ Fault
  /\ lost' = lost \cup {f.item : f \in first} \cup {d.item : d \in deleting}
  /\ first' = {}
  /\ deleting' = {}
  /\ vote' = [v \in Votes |->
                IF Voting(v) THEN [vote[v] EXCEPT !.step = "done"] ELSE vote[v]]
  /\ UNCHANGED <<item, category, scores, events>>
-----------------------------------------------------------------------------
ListenerStep ==
  \/ \E f \in first : FindFirst(f) \/ CreateFirst(f)
  \/ \E d \in deleting : DeleteScoreByItemId(d)

VoteAction(v) ==
  \/ OfferPair(v) \/ ReadContestant(v) \/ ReadOpponent(v) \/ CreateVote(v)
  \/ ScoreContestant(v) \/ ScoreOpponent(v)

Next ==
  \/ \E i \in Items : \/ CreateItem(i) \/ UpdateItem(i) \/ DeleteItem(i)
                      \/ DeleteItemByProfile(i)
  \/ ListenerStep
  \/ \E v \in Votes : VoteAction(v) \/ FailVote(v)
  \/ \E f \in first : FailFirst(f)
  \/ \E d \in deleting : FailDeletion(d)
  \/ Crash

Spec == Init /\ [][Next]_vars

\* The event loop takes up what the listeners started.
FairSpec == Spec /\ WF_vars(ListenerStep)

\* One thing at a time: an event with all its calls, or a vote from its offer
\* to its scores.
OneAtATime ==
  /\ \A x, y \in first \cup deleting : x.event = y.event
  /\ \A v, w \in Votes : Voting(v) /\ Voting(w) => v = w
  /\ \A v \in Votes : Voting(v) => first \cup deleting = {}

SerialSpec == Init /\ [][Next /\ OneAtATime']_vars
-----------------------------------------------------------------------------
\* A present item has a score in each of its categories, or the call that
\* creates it is under way, unless a call for it failed or its scores were
\* deleted with a profile.  Otherwise votes would count it as 0.
ScoredOrUnderWay ==
  \A i \in Items \ lost : item[i] = "present" =>
    \A c \in category[i] :
      \/ scores[i][c] # "none"
      \/ \E f \in first : f.item = i /\ f.category = c

\* "create first score for this id and category": the score is not put in the
\* place of one that votes have moved.
FirstScoreOnce ==
  [][\A i \in Items, c \in Categories :
       scores'[i][c] = "first" => scores[i][c] \in {"none", "first"}]_vars

\* "create first score for this id and category": the first score of an item
\* is that one, not one a vote made of nothing, unless it has been lost.
FirstScoreFirst ==
  [][\A i \in Items \ lost, c \in Categories :
       scores[i][c] = "none" => scores'[i][c] \in {"none", "first"}]_vars

\* Once a deleted item's scores are deleted, no event or vote brings any back.
DeletedStayClean ==
  \A i \in Items \ lost :
    item[i] = "deleted" /\ (\A d \in deleting : d.item # i) => scores[i] = NoScores

\* A present item gets its score in each of its categories, unless it is
\* deleted, loses the category or is lost before.
ItemIsScored ==
  \A i \in Items, c \in Categories :
    item[i] = "present" /\ c \in category[i] ~>
      \/ scores[i][c] # "none"
      \/ item[i] # "present" \/ c \notin category[i] \/ i \in lost
=============================================================================
