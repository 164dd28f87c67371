---------------------------- MODULE ScoreSnapshot ----------------------------
(***************************************************************************)
(* The hourly pass that stores a snapshot of every item's score and rank   *)
(* and publishes the ranking of a category                                 *)
(* (ScoreSnapshotConsumer.handleSaveScoreByCategory), beside the votes and *)
(* activations that move the ranking it reads.                             *)
(*                                                                         *)
(* A pass handles one category; the cron job starts one every hour and an  *)
(* administrator (POST /snapshot) starts one at any time, so passes may    *)
(* overlap.  Items are those of the category; none is created or deleted.  *)
(***************************************************************************)
EXTENDS Integers, FiniteSets

CONSTANTS
  Items, Passes,
  ScoreValues,   \* the scores votes give
  Unscored,      \* no ItemScore document: sorted last, like null
  InitialScores,
  InitialActive, \* the items active at first
  PageSize,      \* items read per page: 10 in the code
  MaxChanges,    \* bound: scores changed by votes, items (de)activated
  MaxFaults      \* bound: failed queries and crashes

ASSUME SnapshotAssumption ==
  /\ IsFiniteSet(Items)
  /\ ScoreValues \subseteq Int
  /\ Unscored \in Int \ ScoreValues
  /\ \A s \in ScoreValues : Unscored < s
  /\ InitialScores \in [Items -> ScoreValues \cup {Unscored}]
  /\ PageSize \in Nat \ {0}
  /\ InitialActive \subseteq Items
  /\ MaxChanges \in Nat
  /\ MaxFaults \in Nat

VARIABLES
  scores,     \* [Items -> score], the newest ItemScore of each
  active,     \* the active items
  pc,         \* [Passes -> Step], the query the pass makes next
  local,      \* [Passes -> Local], its local variables
  pending,    \* snapshots whose insert is under way; nobody awaits it
  snapshots,  \* the ScoreSnapshot collection
  published,  \* categoryRankingItems: the newest snapshot of each item, 0 for
              \* none
  clock,      \* the place of the next snapshot in the collection
  changes, faults,   \* how often each has happened
  moved,      \* history: the passes while whose pages were read a score or
              \* an activation changed
  grown       \* history: the passes that saw an activation between reading a
              \* page and counting the items

bounds == <<changes, faults>>
vars == <<scores, active, pc, local, pending, snapshots, published, clock,
          bounds, moved, grown>>

Step == {"idle", "page", "count", "rank", "publish", "done", "failed"}

Finished == {"done", "failed"}

\* What a page says of an item, what a pass asks to store, and what is stored.
Row == [item : Items, score : ScoreValues \cup {Unscored}, ranking : Nat]
Request == [pass : Passes, item : Items, score : ScoreValues, ranking : Nat]
Snapshot == [pass : Passes, item : Items, score : ScoreValues, ranking : Nat,
             at : Nat]

Local == [page : Nat, total : Nat, data : SUBSET Row, newest : [Items -> Nat]]

TypeOK ==
  /\ scores \in [Items -> ScoreValues \cup {Unscored}]
  /\ active \subseteq Items
  /\ pc \in [Passes -> Step]
  /\ local \in [Passes -> Local]
  /\ pending \subseteq Request
  /\ snapshots \subseteq Snapshot
  /\ published \in [Items -> Nat]
  /\ clock \in Nat
  /\ changes \in 0..MaxChanges
  /\ faults \in 0..MaxFaults
  /\ moved \subseteq Passes
  /\ grown \subseteq Passes

None == [i \in Items |-> 0]

\* The local variables of a pass that has not read anything.
OnPage(page) == [page |-> page, total |-> 0, data |-> {}, newest |-> None]

Init ==
  /\ scores = InitialScores
  /\ active = InitialActive
  /\ pc = [p \in Passes |-> "idle"]
  /\ local = [p \in Passes |-> OnPage(0)]
  /\ pending = {}
  /\ snapshots = {}
  /\ published = None
  /\ clock = 1
  /\ changes = 0 /\ faults = 0
  /\ moved = {}
  /\ grown = {}
-----------------------------------------------------------------------------
\* Variant: the sort is by ascending score.
RankingsAscending ==
  {f \in [active -> 1..Cardinality(active)] :
     \A i, j \in active : /\ f[i] = f[j] => i = j
                          /\ scores[i] < scores[j] => f[i] < f[j]}

\* scoreSort: the active items by descending score, numbered from 1.  The sort
\* has no second key, so a query may order equal scores as it likes.
Rankings ==
  {f \in [active -> 1..Cardinality(active)] :
     \A i, j \in active : /\ f[i] = f[j] => i = j
                          /\ scores[i] > scores[j] => f[i] < f[j]}

Goto(p, step) == pc' = [pc EXCEPT ![p] = step]

StartPass(p) ==
  /\ pc[p] = "idle"
  /\ local' = [local EXCEPT ![p] = OnPage(1)]
  /\ Goto(p, "page")
  /\ UNCHANGED <<scores, active, pending, snapshots, published, clock, bounds,
                 moved, grown>>

\* pagination.currentPage * pagination.limit
Skip(page) == (page - 1) * PageSize

\* The aggregate of findAllWithRanking: the page's items, scored and ranked.
ReadPage(p) ==
  /\ pc[p] = "page"
  /\ \E f \in Rankings :
       LET skip == Skip(local[p].page)
           onPage == {i \in active : f[i] \in skip + 1 .. skip + PageSize}
       IN local' = [local EXCEPT ![p].data =
            {[item |-> i, score |-> scores[i], ranking |-> f[i]] : i \in onPage}]
  /\ Goto(p, "count")
  /\ UNCHANGED <<scores, active, pending, snapshots, published, clock, bounds,
                 moved, grown>>

\* if (item.score.score): a score of 0 is passed over like a missing one.
Storable(p) ==
  {[pass |-> p, item |-> d.item, score |-> d.score, ranking |-> d.ranking] :
     d \in {e \in local[p].data : e.score \notin {0, Unscored}}}

\* Variant: page += 1 is missing.
SamePage(page) == page

\* A page beyond the last item is empty, and so is every page after it: the
\* model stays on it.
NextPage(page) ==
  IF Skip(page) >= Cardinality(Items) THEN page ELSE page + 1

\* The body of the loop after findAllWithRanking has returned: the inserts are
\* started and left to themselves, page and total advance.
TakePage(p) ==
  /\ pending' = pending \cup Storable(p)
  /\ local' = [local EXCEPT ![p] =
       [page |-> NextPage(@.page), total |-> @.total + Cardinality(@.data),
        data |-> {}, newest |-> @.newest]]

\* Variant: the loop goes on when it has read as many items as there are.
CountItemsInclusive(p) ==
  /\ pc[p] = "count"
  /\ TakePage(p)
  /\ Goto(p, IF local'[p].total <= Cardinality(active) THEN "page" ELSE "rank")
  /\ UNCHANGED <<scores, active, snapshots, published, clock, bounds,
                 moved, grown>>

\* Its second query, the number of active items, decides on another page.
CountItems(p) ==
  /\ pc[p] = "count"
  /\ TakePage(p)
  /\ Goto(p, IF local'[p].total < Cardinality(active) THEN "page" ELSE "rank")
  /\ UNCHANGED <<scores, active, snapshots, published, clock, bounds,
                 moved, grown>>

Newest(i) ==
  {s.at : s \in {t \in snapshots :
     /\ t.item = i
     /\ \A u \in snapshots : u.item = i => u.at <= t.at}}

\* Variant: without the group by day and its $last any snapshot of the item is
\* taken.
ReadAnySnapshot(p) ==
  /\ pc[p] = "rank"
  /\ \E found \in [Items -> {0} \cup {s.at : s \in snapshots}] :
       /\ \A i \in Items :
            IF Newest(i) = {} THEN found[i] = 0
            ELSE found[i] \in {s.at : s \in {t \in snapshots : t.item = i}}
       /\ local' = [local EXCEPT ![p].newest = found]
  /\ Goto(p, "publish")
  /\ UNCHANGED <<scores, active, pending, snapshots, published, clock, bounds,
                 moved, grown>>

\* findAllWithRankingFromSnapshot: the newest snapshot of every item, active or
\* not: $last of the last day in the order of the collection, with the last of
\* up to nine days before, which are left out here.  (Its limit, the number of
\* all items, cuts nothing off.)
ReadRanking(p) ==
  /\ pc[p] = "rank"
  /\ local' = [local EXCEPT ![p].newest =
       [i \in Items |-> IF Newest(i) = {} THEN 0 ELSE CHOOSE a \in Newest(i) : TRUE]]
  /\ Goto(p, "publish")
  /\ UNCHANGED <<scores, active, pending, snapshots, published, clock, bounds,
                 moved, grown>>

\* updateCategory, then "saving snapshots complete" is logged.
Publish(p) ==
  /\ pc[p] = "publish"
  /\ published' = local[p].newest
  /\ Goto(p, "done")
  /\ UNCHANGED <<scores, active, local, pending, snapshots, clock, bounds,
                 moved, grown>>

\* addSnapshot completes.
StoreSnapshot(s) ==
  /\ s \in pending
  /\ pending' = pending \ {s}
  /\ snapshots' = snapshots \cup
       {[pass |-> s.pass, item |-> s.item, score |-> s.score,
         ranking |-> s.ranking, at |-> clock]}
  /\ clock' = clock + 1
  /\ UNCHANGED <<scores, active, pc, local, published, bounds, moved, grown>>
-----------------------------------------------------------------------------
\* The passes that have read a page and may read another.
Paging == {p \in Passes : \/ pc[p] = "page" /\ local[p].page > 1
                          \/ pc[p] = "count"}

\* A vote's listener stores a new score.
UpdateScore(i) ==
  /\ changes < MaxChanges
  /\ changes' = changes + 1
  /\ \E s \in ScoreValues : scores' = [scores EXCEPT ![i] = s]
  /\ moved' = moved \cup Paging
  /\ UNCHANGED <<active, pc, local, pending, snapshots, published, clock,
                 faults, grown>>

\* toggleActiveComparisonItem.
ToggleActive(i) ==
  /\ changes < MaxChanges
  /\ changes' = changes + 1
  /\ active' = IF i \in active THEN active \ {i} ELSE active \cup {i}
  /\ moved' = moved \cup Paging
  /\ grown' = IF i \in active THEN grown
              ELSE grown \cup {p \in Passes : pc[p] = "count"}
  /\ UNCHANGED <<scores, pc, local, pending, snapshots, published, clock,
                 faults>>
-----------------------------------------------------------------------------
Fault == faults < MaxFaults /\ faults' = faults + 1

\* A query fails and the pass's catch block logs it.  (When the aggregate of
\* a page fails, findAllWithRanking returns no data, and forEach throws.)
FailPass(p) ==
  /\ pc[p] \in {"page", "rank", "publish"}
  /\ Fault
  /\ Goto(p, "failed")
  /\ UNCHANGED <<scores, active, local, pending, snapshots, published, clock,
                 changes, moved, grown>>

\* When the count fails, findAllWithRanking returns the page without a count:
\* total < undefined is false, and the pass goes on as if it had read all.
MissCount(p) ==
  /\ pc[p] = "count"
  /\ Fault
  /\ TakePage(p)
  /\ Goto(p, "rank")
  /\ UNCHANGED <<scores, active, snapshots, published, clock,
                 changes, moved, grown>>

\* An insert fails: nobody hears of it.
LoseSnapshot(s) ==
  /\ s \in pending
  /\ Fault
  /\ pending' = pending \ {s}
  /\ UNCHANGED <<scores, active, pc, local, snapshots, published, clock,
                 changes, moved, grown>>

\* The process restarts: passes and inserts under way are gone.
Crash ==
  /\ \E p \in Passes : pc[p] \notin Finished \cup {"idle"}
  /\ Fault
  /\ pc' = [p \in Passes |->
              IF pc[p] = "idle" THEN "idle"
              ELSE IF pc[p] \in Finished THEN pc[p] ELSE "failed"]
  /\ pending' = {}
  /\ UNCHANGED <<scores, active, local, snapshots, published, clock,
                 changes, moved, grown>>
-----------------------------------------------------------------------------
PassStep(p) == ReadPage(p) \/ CountItems(p) \/ ReadRanking(p) \/ Publish(p)

Next ==
  \/ \E p \in Passes : StartPass(p) \/ PassStep(p) \/ FailPass(p) \/ MissCount(p)
  \/ \E s \in pending : StoreSnapshot(s) \/ LoseSnapshot(s)
  \/ \E i \in Items : UpdateScore(i) \/ ToggleActive(i)
  \/ Crash

Spec == Init /\ [][Next]_vars

Running(p) == pc[p] \notin Finished \cup {"idle"}

\* No pass starts while another one runs.
OneAtATime == \A p, q \in Passes : Running(p) /\ Running(q) => p = q

SerialSpec == Init /\ [][Next /\ OneAtATime']_vars

\* A running pass goes on; nobody has to start one.
FairSerialSpec == SerialSpec /\ \A p \in Passes : WF_vars(PassStep(p))
-----------------------------------------------------------------------------
\* What a pass has asked to store, stored or not.
Asked(p) ==
  {[item |-> s.item, score |-> s.score, ranking |-> s.ranking] :
     s \in {r \in pending \cup snapshots : r.pass = p}}

\* A pass whose pages nothing moved, without ties and failures, asks for one
\* snapshot of each active item with a score other than 0, at its score and at
\* its place: the pages neither overlap nor leave a gap.
StillPassIsExact ==
  [][\A p \in Passes :
       LET tie == \E i, j \in active : i # j /\ scores[i] = scores[j]
           Place(i) == 1 + Cardinality({j \in active : scores[j] > scores[i]})
       IN pc[p] = "count" /\ pc'[p] = "rank" /\ p \notin moved /\ ~tie
            /\ faults' = 0
          => Asked(p)' = {[item |-> i, score |-> scores[i], ranking |-> Place(i)] :
                            i \in {j \in active : scores[j] \notin {0, Unscored}}}]_vars

\* Whatever moves while a pass reads its pages, it gives no place twice: items
\* that change places may be snapshotted twice or not at all, but every place
\* of a pass is taken by one item.
DistinctPlaces ==
  \A r, s \in pending \cup snapshots :
    r.pass = s.pass /\ r.ranking = s.ranking => r.item = s.item

\* When passes do not overlap, a pass never publishes an older snapshot of an
\* item than the pass before it, although inserts of both may still be under way.
PublishedAdvances == [][\A i \in Items : published[i] <= published'[i]]_vars

\* Every pass ends, though items are voted on and deactivated, unless an item
\* is activated between the two queries of a page.
PassEnds ==
  \A p \in Passes : pc[p] = "page" ~> pc[p] \in Finished \/ p \in grown

\* "saving snapshots complete": the snapshots the pass asked for are stored
\* when it ends without a failure.
CompleteMeansStored ==
  \A p \in Passes : pc[p] = "done" => \A s \in pending : s.pass # p
=============================================================================
