------------------------------- MODULE Retention -------------------------------
(***************************************************************************)
(* The end of score snapshots: the nightly clean-up, which drops those of  *)
(* more than two months (ScoreSnapshotV1Service.houseKeepingSnapshot), and *)
(* the administrator's deletion of those made after a date                 *)
(* (ComparisonItemV1Service.deleteRecordsAfterDate).  How snapshots are    *)
(* made is in ScoreSnapshot; here one is of an item and a category, with   *)
(* the date its pass began and the day it was stored.                      *)
(***************************************************************************)
EXTENDS Integers, Handlers

CONSTANTS
  SnapshotItems, SnapshotCategories,
  KeepDays,   \* two months
  FirstDay,   \* of the run; there may be older snapshots
  LastDay     \* bound: the day the run ends

Snapshot == [item : SnapshotItems, category : SnapshotCategories, date : Int, createdAt : Int]

ASSUME RetentionAssumption ==
  /\ KeepDays \in Nat /\ FirstDay \in Nat /\ LastDay \in Nat
  /\ \A w \in Workloads : \A r \in Requests :
       w[r].kind \in {"cleanUp", "deleteAfter"} => w[r].day \in Nat

VARIABLES
  snapshots,  \* the ScoreSnapshot collection
  today,
  chosen      \* [Requests -> SUBSET SnapshotItems], the items a clean-up found

retention == <<snapshots, today, chosen>>

RetentionTypeOK ==
  /\ snapshots \subseteq Snapshot
  /\ today \in FirstDay..LastDay
  /\ chosen \in [Requests -> SUBSET SnapshotItems]

RetentionInit ==
  /\ snapshots = {}
  /\ today = FirstDay
  /\ chosen = [r \in Requests |-> {}]

OfItem(i) == {s \in snapshots : s.item = i}

\* The consumer of ScoreSnapshot stores one, dated the day its pass began: a pass
\* may run over midnight.
TakeSnapshot(r) ==
  /\ Starts(r, "snapshot", "done")
  /\ \E date \in {today - 1, today} :
       snapshots' = snapshots \cup
         {[item |-> op[r].item, category |-> op[r].category, date |-> date, createdAt |-> today]}
  /\ UNCHANGED <<today, chosen>>

\* Its dateLimit stays what it was when the clean-up began; op[r].day is the day
\* the cron starts it.
Limit(r) == op[r].day - KeepDays

\* Variant: every item that has old snapshots is cleaned.
CleanAny(limit) == {i \in SnapshotItems : \E s \in OfItem(i) : s.date < limit}

\* The items that have snapshots on both sides of the limit.
Clean(limit) == {i \in SnapshotItems : /\ \E s \in OfItem(i) : s.date < limit
                                       /\ \E s \in OfItem(i) : s.date >= limit}

\* aggregate: snapshots are grouped by item, whatever their category.
FindItems(r) ==
  /\ today = op[r].day
  /\ Starts(r, "cleanUp", "deleteOld")
  /\ chosen' = [chosen EXCEPT ![r] = Clean(Limit(r))]
  /\ UNCHANGED <<snapshots, today>>

\* deleteMany({ itemId: { $in }, date: { $lt } })
DeleteOld(r) ==
  /\ Steps(r, "deleteOld", "done")
  /\ snapshots' = {s \in snapshots : s.item \notin chosen[r] \/ s.date >= Limit(r)}
  /\ UNCHANGED <<today, chosen>>

\* deleteMany({ createdAt: { $gt } }): the end of the day given is the limit.
DeleteAfter(r) ==
  /\ Starts(r, "deleteAfter", "done")
  /\ snapshots' = {s \in snapshots : s.createdAt <= op[r].day}
  /\ UNCHANGED <<today, chosen>>

Midnight ==
  /\ today < LastDay /\ today' = today + 1
  /\ UNCHANGED <<handlers, snapshots, chosen>>

RetentionStep(r) == TakeSnapshot(r) \/ FindItems(r) \/ DeleteOld(r) \/ DeleteAfter(r)
-----------------------------------------------------------------------------
Kept(i, c) == \E s \in snapshots : s.item = i /\ s.category = c

\* The clean-up takes an item's last snapshots of a category only if the item has
\* snapshots of another one that are not old, and so never all there are of it,
\* unless an administrator deleted the newer ones after it had found them.
RetentionKeepsNewest ==
  [][\A r \in Requests :
       pc[r] = "deleteOld" /\ pc'[r] = "done" =>
         \A i \in SnapshotItems, c \in SnapshotCategories :
           Kept(i, c) /\ ~Kept(i, c)' =>
             \/ \E s \in OfItem(i)' : s.category # c /\ s.date >= Limit(r)
             \/ \E q \in Requests : op[q].kind = "deleteAfter" /\ Overlapped(r, q)]_retention
=============================================================================
