------------------------- MODULE ScoreSnapshotProofs -------------------------
(***************************************************************************)
(* Proofs about ScoreSnapshot, for any number of items and overlapping     *)
(* passes, and any votes, activations and faults between them.             *)
(***************************************************************************)
EXTENDS ScoreSnapshot, FiniteSetTheorems, FunctionTheorems, WellFoundedInduction,
        TLAPS

\* Counting the items of a page needs a finite page.
TypeInv == TypeOK /\ \A p \in Passes : IsFiniteSet(local[p].data)

\* Where the places a pass has asked for lie: below the page it reads next.
\* The page in hand holds places of that page, each once.
PlacesInv ==
  /\ \A p \in Passes : pc[p] = "idle" => local[p].page = 0
  /\ \A s \in pending \cup snapshots : s.ranking <= Skip(local[s.pass].page)
  /\ \A p \in Passes : pc[p] = "count" =>
       \A d \in local[p].data :
         /\ Skip(local[p].page) < d.ranking
         /\ d.ranking <= Skip(local[p].page) + PageSize
         /\ d.ranking <= Cardinality(Items)
         /\ \A e \in local[p].data : d.ranking = e.ranking => d.item = e.item
  /\ DistinctPlaces

SnapshotInv == TypeInv /\ PlacesInv
-----------------------------------------------------------------------------
\* The skip of a page is an integer, and a page later it is a page more.
LEMMA SkipGrows ==
  ASSUME NEW page \in Nat
  PROVE  /\ Skip(page) \in Int
         /\ Skip(page + 1) = Skip(page) + PageSize
         /\ page = 0 => Skip(page) < 0
<1>1. PageSize \in Nat /\ PageSize > 0
  BY SnapshotAssumption
<1>2. Skip(page) \in Int /\ Skip(page + 1) = Skip(page) + PageSize
  BY <1>1 DEF Skip
<1>3. page = 0 => Skip(page) = -PageSize
  BY <1>1 DEF Skip
<1> QED BY <1>1, <1>2, <1>3

\* The count of the active items is a number, at most that of all items.
LEMMA ActiveCount ==
  ASSUME active \subseteq Items
  PROVE  /\ Cardinality(active) \in Nat
         /\ Cardinality(Items) \in Nat
         /\ Cardinality(active) <= Cardinality(Items)
BY SnapshotAssumption, FS_Subset, FS_CardinalityType
-----------------------------------------------------------------------------
(* Type correctness.                                                        *)

LEMMA InitTypeInv == Init => TypeInv
<1> SUFFICES ASSUME Init PROVE TypeInv
  OBVIOUS
<1>1. OnPage(0) \in Local /\ OnPage(0).data = {}
  BY DEF OnPage, Local, None
<1>2. /\ local \in [Passes -> Local]
      /\ \A p \in Passes : IsFiniteSet(local[p].data)
  BY <1>1, FS_EmptySet DEF Init
<1>3. TypeOK
  BY <1>2, SnapshotAssumption DEF Init, TypeOK, Step, None
<1> QED
  BY <1>2, <1>3 DEF TypeInv

\* What a page is taken for is well typed, as are page and total after it.
LEMMA TakePageType ==
  ASSUME TypeInv, NEW p \in Passes, TakePage(p)
  PROVE  /\ pending' \subseteq Request
         /\ local' \in [Passes -> Local]
         /\ \A q \in Passes : IsFiniteSet(local'[q].data)
<1>1. local[p] \in Local /\ local[p].data \subseteq Row
  BY DEF TypeInv, TypeOK, Local
<1>2. Storable(p) \subseteq Request
  BY <1>1 DEF Storable, Request, Row
<1>3. Cardinality(local[p].data) \in Nat
  BY FS_CardinalityType DEF TypeInv
<1>4. NextPage(local[p].page) \in Nat
  BY <1>1 DEF NextPage, Local
<1> DEFINE new == [page |-> NextPage(local[p].page),
                   total |-> local[p].total + Cardinality(local[p].data),
                   data |-> {}, newest |-> local[p].newest]
<1>5. new \in Local /\ new.data = {}
  BY <1>1, <1>3, <1>4 DEF Local
<1>6. local' = [local EXCEPT ![p] = new] /\ pending' = pending \cup Storable(p)
  BY DEF TakePage
<1> HIDE DEF new
<1>7. local \in [Passes -> Local] /\ pending \subseteq Request
  BY DEF TypeInv, TypeOK
<1>8. ASSUME NEW q \in Passes PROVE IsFiniteSet(local'[q].data)
  <2>1. local'[q] = IF q = p THEN new ELSE local[q]
    BY <1>6, <1>7
  <2>2. CASE q = p
    BY <2>1, <2>2, <1>5, FS_EmptySet
  <2>3. CASE q # p
    BY <2>1, <2>3 DEF TypeInv
  <2> QED BY <2>2, <2>3
<1> QED
  BY <1>2, <1>5, <1>6, <1>7, <1>8

\* A page that is read consists of rows.
LEMMA ReadPageType ==
  ASSUME TypeInv, NEW p \in Passes, ReadPage(p)
  PROVE  /\ local' \in [Passes -> Local]
         /\ \A q \in Passes : IsFiniteSet(local'[q].data)
<1>1. PICK f \in Rankings :
        local' = [local EXCEPT ![p].data =
          {[item |-> i, score |-> scores[i], ranking |-> f[i]] :
             i \in {j \in active : f[j] \in Skip(local[p].page) + 1
                                     .. Skip(local[p].page) + PageSize}}]
  BY DEF ReadPage
<1> DEFINE onPage == {j \in active : f[j] \in Skip(local[p].page) + 1
                                       .. Skip(local[p].page) + PageSize}
           row == [i \in onPage |-> [item |-> i, score |-> scores[i], ranking |-> f[i]]]
           rows == {[item |-> i, score |-> scores[i], ranking |-> f[i]] : i \in onPage}
<1>2. active \subseteq Items /\ scores \in [Items -> ScoreValues \cup {Unscored}]
  BY DEF TypeInv, TypeOK
<1>3. \A i \in active : f[i] \in Nat
  BY <1>2, ActiveCount DEF Rankings
<1>4. rows \subseteq Row
  BY <1>2, <1>3 DEF Row
<1>5. IsFiniteSet(onPage)
  BY <1>2, FS_Subset, SnapshotAssumption
<1>6. row \in Surjection(onPage, rows)
  BY DEF Surjection
<1>7. IsFiniteSet(rows)
  <2> HIDE DEF row, rows, onPage
  <2> QED BY <1>5, <1>6, FS_Surjection
<1>8. local' = [local EXCEPT ![p].data = rows]
  BY <1>1
<1> HIDE DEF rows
<1>9. [local[p] EXCEPT !.data = rows] \in Local
  BY <1>4 DEF TypeInv, TypeOK, Local
<1> QED
  BY <1>4, <1>7, <1>8, <1>9 DEF TypeInv, TypeOK, Local

\* Every step keeps the types.
LEMMA NextTypeInv == TypeInv /\ [Next]_vars => TypeInv'
<1> SUFFICES ASSUME TypeInv, [Next]_vars PROVE TypeInv'
  OBVIOUS
<1> USE DEF TypeInv, TypeOK, Step, Goto, bounds
<1>1. ASSUME NEW p \in Passes, StartPass(p) PROVE TypeInv'
  <2>1. OnPage(1) \in Local /\ IsFiniteSet(OnPage(1).data)
    BY FS_EmptySet DEF OnPage, Local, None
  <2>2. local' \in [Passes -> Local] /\ \A q \in Passes : IsFiniteSet(local'[q].data)
    BY <1>1, <2>1 DEF StartPass
  <2> QED BY <1>1, <2>2 DEF StartPass
<1>2. ASSUME NEW p \in Passes, ReadPage(p) PROVE TypeInv'
  BY <1>2, ReadPageType DEF ReadPage
<1>3. ASSUME NEW p \in Passes, CountItems(p) PROVE TypeInv'
  BY <1>3, TakePageType DEF CountItems
<1>4. ASSUME NEW p \in Passes, ReadRanking(p) PROVE TypeInv'
  <2> DEFINE found == [i \in Items |-> IF Newest(i) = {} THEN 0
                                       ELSE CHOOSE a \in Newest(i) : TRUE]
  <2>1. \A i \in Items : Newest(i) \subseteq Nat
    BY DEF Newest, Snapshot
  <2>2. found \in [Items -> Nat]
    BY <2>1
  <2>3. local' = [local EXCEPT ![p].newest = found]
    BY <1>4 DEF ReadRanking
  <2> HIDE DEF found
  <2>4. local' \in [Passes -> Local] /\ \A q \in Passes : local'[q].data = local[q].data
    BY <2>2, <2>3 DEF Local
  <2> QED BY <1>4, <2>4 DEF ReadRanking
<1>5. ASSUME NEW p \in Passes, Publish(p) PROVE TypeInv'
  BY <1>5 DEF Publish, Local
<1>6. ASSUME NEW p \in Passes, FailPass(p) PROVE TypeInv'
  BY <1>6, SnapshotAssumption DEF FailPass, Fault
<1>7. ASSUME NEW p \in Passes, MissCount(p) PROVE TypeInv'
  BY <1>7, TakePageType, SnapshotAssumption DEF MissCount, Fault
<1>8. ASSUME NEW s \in pending, StoreSnapshot(s) PROVE TypeInv'
  BY <1>8 DEF StoreSnapshot, Request, Snapshot
<1>9. ASSUME NEW s \in pending, LoseSnapshot(s) PROVE TypeInv'
  BY <1>9, SnapshotAssumption DEF LoseSnapshot, Fault
<1>10. ASSUME NEW i \in Items, UpdateScore(i) PROVE TypeInv'
  BY <1>10, SnapshotAssumption DEF UpdateScore, Paging
<1>11. ASSUME NEW i \in Items, ToggleActive(i) PROVE TypeInv'
  BY <1>11, SnapshotAssumption DEF ToggleActive, Paging
<1>12. ASSUME Crash PROVE TypeInv'
  BY <1>12, SnapshotAssumption DEF Crash, Fault, Finished
<1>13. ASSUME UNCHANGED vars PROVE TypeInv'
  BY <1>13 DEF vars
<1> QED
  BY <1>1, <1>2, <1>3, <1>4, <1>5, <1>6, <1>7, <1>8, <1>9, <1>10, <1>11, <1>12,
     <1>13 DEF Next, PassStep

\* Every reachable state is well typed.
THEOREM SnapshotTypeCorrect == Spec => []TypeOK
<1>1. TypeInv => TypeOK
  BY DEF TypeInv
<1> QED BY InitTypeInv, NextTypeInv, <1>1, PTL DEF Spec
-----------------------------------------------------------------------------
(* Distinct places.                                                         *)

LEMMA InitPlaces == Init => PlacesInv
<1> SUFFICES ASSUME Init PROVE PlacesInv
  OBVIOUS
<1>1. \A p \in Passes : pc[p] = "idle" /\ local[p].page = 0
  BY DEF Init, OnPage
<1>2. pending \cup snapshots = {}
  BY DEF Init
<1> QED BY <1>1, <1>2 DEF PlacesInv, DistinctPlaces

\* The page that is read holds places of that page, each once.
LEMMA ReadPagePlaces ==
  ASSUME SnapshotInv, NEW p \in Passes, ReadPage(p)
  PROVE  PlacesInv'
<1>1. PICK f \in Rankings :
        local' = [local EXCEPT ![p].data =
          {[item |-> i, score |-> scores[i], ranking |-> f[i]] :
             i \in {j \in active : f[j] \in Skip(local[p].page) + 1
                                     .. Skip(local[p].page) + PageSize}}]
  BY DEF ReadPage
<1> DEFINE low == Skip(local[p].page)
           rows == {[item |-> i, score |-> scores[i], ranking |-> f[i]] :
                      i \in {j \in active : f[j] \in low + 1 .. low + PageSize}}
<1>2. /\ local \in [Passes -> Local] /\ active \subseteq Items
      /\ local[p].page \in Nat
      /\ pending \subseteq Request /\ snapshots \subseteq Snapshot
  BY DEF SnapshotInv, TypeInv, TypeOK, Local
<1>3. low \in Int /\ PageSize \in Nat
  BY <1>2, SkipGrows, SnapshotAssumption
<1>4. /\ \A i \in active : f[i] \in Nat /\ f[i] <= Cardinality(Items)
      /\ \A i, j \in active : f[i] = f[j] => i = j
  BY <1>2, ActiveCount DEF Rankings
<1> HIDE DEF low
<1>5. \A d \in rows : /\ low < d.ranking /\ d.ranking <= low + PageSize
                      /\ d.ranking <= Cardinality(Items)
                      /\ \A e \in rows : d.ranking = e.ranking => d.item = e.item
  BY <1>3, <1>4
<1>6. local' = [local EXCEPT ![p].data = rows]
  BY <1>1 DEF low
<1> HIDE DEF rows
<1>7. /\ local'[p].data = rows
      /\ \A q \in Passes : local'[q].page = local[q].page
      /\ \A q \in Passes \ {p} : local'[q] = local[q]
  BY <1>2, <1>6 DEF Local
<1>8. /\ pc' = [pc EXCEPT ![p] = "count"] /\ pc \in [Passes -> Step]
      /\ pending' = pending /\ snapshots' = snapshots
  BY DEF ReadPage, Goto, SnapshotInv, TypeInv, TypeOK
<1>9. \A q \in Passes : pc'[q] = "idle" => local'[q].page = 0
  BY <1>7, <1>8 DEF SnapshotInv, PlacesInv
<1>10. \A s \in (pending \cup snapshots)' : s.ranking <= Skip(local[s.pass].page)'
  BY <1>2, <1>7, <1>8 DEF SnapshotInv, PlacesInv, Skip, Request, Snapshot
<1>11. ASSUME NEW q \in Passes, pc'[q] = "count", NEW d \in local'[q].data
       PROVE  /\ Skip(local[q].page)' < d.ranking
              /\ d.ranking <= Skip(local[q].page)' + PageSize
              /\ d.ranking <= Cardinality(Items)
              /\ \A e \in local'[q].data : d.ranking = e.ranking => d.item = e.item
  <2>1. CASE q = p
    BY <1>5, <1>7, <1>11, <2>1 DEF low, Skip
  <2>2. CASE q # p
    BY <1>7, <1>8, <1>11, <2>2 DEF SnapshotInv, PlacesInv, Skip
  <2> QED BY <2>1, <2>2
<1>12. DistinctPlaces'
  BY <1>8 DEF SnapshotInv, PlacesInv, DistinctPlaces
<1> QED BY <1>9, <1>10, <1>11, <1>12 DEF PlacesInv

\* What is taken from a page lies between what was asked before and the next
\* page.
LEMMA TakePagePlaces ==
  ASSUME SnapshotInv, NEW p \in Passes, pc[p] = "count", TakePage(p),
         pc' \in {[pc EXCEPT ![p] = "page"], [pc EXCEPT ![p] = "rank"]},
         snapshots' = snapshots
  PROVE  PlacesInv'
<1> DEFINE page == local[p].page
           next == NextPage(page)
<1>1. /\ local \in [Passes -> Local] /\ local[p].data \subseteq Row
      /\ page \in Nat /\ PageSize \in Nat /\ Cardinality(Items) \in Nat
      /\ pending \subseteq Request /\ snapshots \subseteq Snapshot
      /\ pc \in [Passes -> Step]
  BY SnapshotAssumption, FS_CardinalityType DEF SnapshotInv, TypeInv, TypeOK, Local
<1>2. /\ local'[p].page = next /\ local'[p].data = {}
      /\ \A q \in Passes \ {p} : local'[q] = local[q]
      /\ pending' = pending \cup Storable(p)
  BY <1>1 DEF TakePage
<1>3. Skip(page) \in Int /\ Skip(next) \in Int /\ Skip(page) <= Skip(next)
  BY <1>1, SkipGrows DEF NextPage
<1>4. \A d \in local[p].data : Skip(page) < d.ranking /\ d.ranking <= Skip(next)
  <2>1. CASE Skip(page) >= Cardinality(Items)
    BY <1>1, <1>3, <2>1 DEF SnapshotInv, PlacesInv, Row
  <2>2. CASE ~(Skip(page) >= Cardinality(Items))
    <3>1. Skip(next) = Skip(page) + PageSize
      BY <1>1, <2>2, SkipGrows DEF NextPage
    <3> QED BY <3>1 DEF SnapshotInv, PlacesInv
  <2> QED BY <2>1, <2>2
<1>5. \A s \in Storable(p) : /\ s.pass = p
                             /\ \E d \in local[p].data :
                                  s.item = d.item /\ s.ranking = d.ranking
  BY DEF Storable
<1>6. \A s \in Storable(p) : /\ s.pass = p /\ s.ranking \in Nat
                             /\ Skip(page) < s.ranking /\ s.ranking <= Skip(next)
  BY <1>1, <1>4, <1>5 DEF Row
<1>7. \A s \in pending \cup snapshots :
        /\ s.pass \in Passes /\ s.ranking \in Nat
        /\ s.ranking <= Skip(local[s.pass].page)
  BY <1>1 DEF SnapshotInv, PlacesInv, Request, Snapshot
<1>8. \A q \in Passes : pc'[q] = "idle" => local'[q].page = 0
  BY <1>1, <1>2 DEF SnapshotInv, PlacesInv
<1>9. \A s \in (pending \cup snapshots)' : s.ranking <= Skip(local[s.pass].page)'
  <2> SUFFICES ASSUME NEW s \in pending' \cup snapshots
               PROVE  s.ranking <= Skip(local'[s.pass].page)
    BY DEF Skip
  <2>1. CASE s \in Storable(p)
    BY <1>2, <1>6, <2>1
  <2>2. CASE s \in pending \cup snapshots /\ s.pass = p
    BY <1>2, <1>3, <1>7, <2>2
  <2>3. CASE s \in pending \cup snapshots /\ s.pass # p
    BY <1>2, <1>7, <2>3
  <2> QED BY <1>2, <2>1, <2>2, <2>3
<1>10. ASSUME NEW q \in Passes, pc'[q] = "count"
       PROVE  q # p /\ pc[q] = "count" /\ local'[q] = local[q]
  BY <1>1, <1>2, <1>10
<1>11. DistinctPlaces'
  <2> SUFFICES ASSUME NEW r \in pending' \cup snapshots, NEW s \in pending' \cup snapshots,
                      r.pass = s.pass, r.ranking = s.ranking
               PROVE  r.item = s.item
    BY DEF DistinctPlaces
  <2>1. CASE r \in Storable(p) /\ s \in Storable(p)
    BY <1>5, <2>1 DEF SnapshotInv, PlacesInv
  <2>2. CASE r \in pending \cup snapshots /\ s \in pending \cup snapshots
    BY <2>2 DEF SnapshotInv, PlacesInv, DistinctPlaces
  <2>3. CASE r \in Storable(p) /\ s \in pending \cup snapshots
    BY <1>3, <1>6, <1>7, <2>3
  <2>4. CASE r \in pending \cup snapshots /\ s \in Storable(p)
    BY <1>3, <1>6, <1>7, <2>4
  <2> QED BY <1>2, <2>1, <2>2, <2>3, <2>4
<1> QED
  BY <1>8, <1>9, <1>10, <1>11 DEF SnapshotInv, PlacesInv, Skip

\* Every step keeps the places of a pass apart.
LEMMA NextPlaces == SnapshotInv /\ [Next]_vars => PlacesInv'
<1> SUFFICES ASSUME SnapshotInv, [Next]_vars PROVE PlacesInv'
  OBVIOUS
<1> DEFINE Quiet == /\ local' = local
                    /\ pending' \cup snapshots' \subseteq pending \cup snapshots
                    /\ \A p \in Passes : \/ pc'[p] = pc[p]
                                         \/ pc'[p] \notin {"idle", "count"}
<1>0. ASSUME Quiet PROVE PlacesInv'
  BY <1>0 DEF SnapshotInv, PlacesInv, DistinctPlaces, Skip
<1> HIDE DEF Quiet
<1>t. /\ pc \in [Passes -> Step] /\ local \in [Passes -> Local]
      /\ pending \subseteq Request /\ snapshots \subseteq Snapshot
  BY DEF SnapshotInv, TypeInv, TypeOK
<1>1. ASSUME NEW p \in Passes, StartPass(p) PROVE PlacesInv'
  <2>1. /\ pc' = [pc EXCEPT ![p] = "page"] /\ pc[p] = "idle"
        /\ local' = [local EXCEPT ![p] = OnPage(1)]
        /\ pending' = pending /\ snapshots' = snapshots
    BY <1>1 DEF StartPass, Goto
  <2>2. \A s \in pending \cup snapshots : s.pass # p
    <3>1. local[p].page = 0 /\ Skip(local[p].page) < 0
      BY <2>1, SkipGrows DEF SnapshotInv, PlacesInv
    <3> QED BY <1>t, <3>1, SkipGrows DEF SnapshotInv, PlacesInv, Request, Snapshot
  <2>3. \A q \in Passes \ {p} : pc'[q] = pc[q] /\ local'[q] = local[q]
    BY <1>t, <2>1
  <2>4. \A s \in pending \cup snapshots : s.pass \in Passes
    BY <1>t DEF Request, Snapshot
  <2>5. pc'[p] = "page"
    BY <1>t, <2>1
  <2> QED
    BY <2>1, <2>2, <2>3, <2>4, <2>5 DEF SnapshotInv, PlacesInv, DistinctPlaces, Skip
<1>2. ASSUME NEW p \in Passes, ReadPage(p) PROVE PlacesInv'
  BY <1>2, ReadPagePlaces
<1>3. ASSUME NEW p \in Passes, CountItems(p) PROVE PlacesInv'
  BY <1>3, TakePagePlaces DEF CountItems, Goto
<1>4. ASSUME NEW p \in Passes, ReadRanking(p) PROVE PlacesInv'
  <2>1. /\ \A q \in Passes : /\ local'[q].page = local[q].page
                             /\ local'[q].data = local[q].data
        /\ pc' = [pc EXCEPT ![p] = "publish"]
        /\ pending' = pending /\ snapshots' = snapshots
    BY <1>t, <1>4 DEF ReadRanking, Goto, Local
  <2>2. \A q \in Passes : pc'[q] = pc[q] \/ pc'[q] = "publish"
    BY <1>t, <2>1
  <2>3. \A s \in pending \cup snapshots : s.pass \in Passes
    BY <1>t DEF Request, Snapshot
  <2> QED
    BY <2>1, <2>2, <2>3 DEF SnapshotInv, PlacesInv, DistinctPlaces, Skip
<1>5. ASSUME NEW p \in Passes, Publish(p) PROVE PlacesInv'
  BY <1>t, <1>5, <1>0 DEF Publish, Goto, Quiet
<1>6. ASSUME NEW p \in Passes, FailPass(p) PROVE PlacesInv'
  BY <1>t, <1>6, <1>0 DEF FailPass, Goto, Quiet
<1>7. ASSUME NEW p \in Passes, MissCount(p) PROVE PlacesInv'
  BY <1>7, TakePagePlaces DEF MissCount, Goto
<1>8. ASSUME NEW s \in pending, StoreSnapshot(s) PROVE PlacesInv'
  <2> DEFINE new == [pass |-> s.pass, item |-> s.item, score |-> s.score,
                     ranking |-> s.ranking, at |-> clock]
  <2>1. /\ pc' = pc /\ local' = local
        /\ pending' = pending \ {s} /\ snapshots' = snapshots \cup {new}
    BY <1>8 DEF StoreSnapshot
  <2>2. /\ new.pass = s.pass /\ new.item = s.item /\ new.ranking = s.ranking
    OBVIOUS
  <2> HIDE DEF new
  <2>3. \A r \in (pending \cup snapshots)' :
          \E u \in pending \cup snapshots :
            r.pass = u.pass /\ r.item = u.item /\ r.ranking = u.ranking
    BY <2>1, <2>2
  <2> QED
    BY <2>1, <2>3 DEF SnapshotInv, PlacesInv, DistinctPlaces, Skip
<1>9. ASSUME NEW s \in pending, LoseSnapshot(s) PROVE PlacesInv'
  BY <1>9, <1>0 DEF LoseSnapshot, Quiet
<1>10. ASSUME NEW i \in Items, UpdateScore(i) PROVE PlacesInv'
  BY <1>10, <1>0 DEF UpdateScore, Quiet
<1>11. ASSUME NEW i \in Items, ToggleActive(i) PROVE PlacesInv'
  BY <1>11, <1>0 DEF ToggleActive, Quiet
<1>12. ASSUME Crash PROVE PlacesInv'
  BY <1>12, <1>0 DEF Crash, Quiet
<1>13. ASSUME UNCHANGED vars PROVE PlacesInv'
  BY <1>13, <1>0 DEF vars, Quiet
<1> QED
  BY <1>1, <1>2, <1>3, <1>4, <1>5, <1>6, <1>7, <1>8, <1>9, <1>10, <1>11, <1>12,
     <1>13 DEF Next, PassStep

\* No place of a pass is given to two items, however passes, votes, activations
\* and faults interleave.
THEOREM PlacesDistinct == Spec => []DistinctPlaces
<1>1. SnapshotInv /\ [Next]_vars => SnapshotInv'
  BY NextTypeInv, NextPlaces DEF SnapshotInv
<1>2. Init => SnapshotInv
  BY InitTypeInv, InitPlaces DEF SnapshotInv
<1>3. SnapshotInv => DistinctPlaces
  BY DEF SnapshotInv, PlacesInv
<1> QED BY <1>1, <1>2, <1>3, PTL DEF Spec
-----------------------------------------------------------------------------
(* What is published, when passes do not overlap.                           *)

Shown(i, a) == a = 0 \/ \E s \in snapshots : s.item = i /\ s.at = a

\* What is published, and what a pass is about to publish, are places of stored
\* snapshots; and the pass has read no older ones than those it replaces.
PublishInv ==
  /\ \A s \in snapshots : s.at < clock
  /\ \A i \in Items : Shown(i, published[i])
  /\ \A p \in Passes : pc[p] = "publish" =>
       \A i \in Items : /\ Shown(i, local[p].newest[i])
                        /\ published[i] <= local[p].newest[i]
  /\ OneAtATime

\* An item with a snapshot has a newest one.
LEMMA NewestExists ==
  ASSUME TypeInv, PublishInv, NEW i \in Items,
         NEW s \in snapshots, s.item = i
  PROVE  Newest(i) # {}
<1> DEFINE Age(t) == clock - t.at
           ages == {Age(t) : t \in {u \in snapshots : u.item = i}}
           less == OpToRel(<, Nat)
<1>1. clock \in Nat /\ \A t \in snapshots : t.at \in Nat /\ t.at < clock
  BY DEF TypeInv, TypeOK, Snapshot, PublishInv
<1>2. ages \subseteq Nat /\ ages # {}
  BY <1>1
<1>3. PICK a \in ages : \A b \in ages : ~ (<<b, a>> \in less)
  <2> HIDE DEF ages, less
  <2> QED BY <1>2, NatLessThanWellFounded, WFMin DEF less
<1>4. PICK t \in snapshots : t.item = i /\ a = clock - t.at
  OBVIOUS
<1>5. \A u \in snapshots : u.item = i => u.at <= t.at
  <2> SUFFICES ASSUME NEW u \in snapshots, u.item = i, ~(u.at <= t.at) PROVE FALSE
    OBVIOUS
  <2>1. clock - u.at \in ages /\ clock - u.at < a
    BY <1>1, <1>4
  <2>2. <<clock - u.at, a>> \in less
    BY <1>2, <2>1 DEF OpToRel
  <2> QED BY <1>3, <2>1, <2>2
<1> QED BY <1>4, <1>5 DEF Newest

LEMMA InitPublish == Init => PublishInv
<1> SUFFICES ASSUME Init PROVE PublishInv
  OBVIOUS
<1>1. snapshots = {} /\ \A i \in Items : published[i] = 0
  BY DEF Init, None
<1>2. \A p \in Passes : pc[p] = "idle"
  BY DEF Init
<1> QED BY <1>1, <1>2 DEF PublishInv, Shown, OneAtATime, Running, Finished

\* What a pass reads is no older than what is published.
LEMMA ReadRankingPublish ==
  ASSUME TypeInv, PublishInv, NEW p \in Passes, ReadRanking(p), OneAtATime'
  PROVE  PublishInv'
<1> DEFINE found == [i \in Items |-> IF Newest(i) = {} THEN 0
                                     ELSE CHOOSE a \in Newest(i) : TRUE]
<1>1. /\ local' = [local EXCEPT ![p].newest = found]
      /\ pc' = [pc EXCEPT ![p] = "publish"]
      /\ snapshots' = snapshots /\ published' = published /\ clock' = clock
  BY DEF ReadRanking, Goto
<1>2. /\ local \in [Passes -> Local] /\ pc \in [Passes -> Step]
      /\ published \in [Items -> Nat] /\ snapshots \subseteq Snapshot
  BY DEF TypeInv, TypeOK
<1>3. ASSUME NEW i \in Items
      PROVE  Shown(i, found[i]) /\ published[i] <= found[i]
  <2>1. CASE Newest(i) = {}
    <3>1. \A s \in snapshots : s.item # i
      BY <2>1, NewestExists
    <3>2. published[i] = 0 /\ found[i] = 0
      BY <2>1, <3>1 DEF PublishInv, Shown
    <3> HIDE DEF found
    <3> QED BY <3>2 DEF Shown
  <2>2. CASE Newest(i) # {}
    <3>1. found[i] \in Newest(i)
      BY <2>2
    <3> HIDE DEF found
    <3>2. PICK s \in snapshots : /\ s.item = i /\ s.at = found[i]
                                 /\ \A u \in snapshots : u.item = i => u.at <= s.at
      BY <3>1 DEF Newest
    <3>3. published[i] <= found[i]
      BY <1>2, <3>2 DEF PublishInv, Shown, Snapshot
    <3> QED BY <3>2, <3>3 DEF Shown
  <2> QED BY <2>1, <2>2
<1> HIDE DEF found
<1>4. /\ local'[p].newest = found
      /\ \A q \in Passes \ {p} : local'[q] = local[q] /\ pc'[q] = pc[q]
  BY <1>1, <1>2 DEF Local
<1> QED
  BY <1>1, <1>3, <1>4 DEF PublishInv, Shown

\* Every step of passes that do not overlap keeps the invariant and publishes
\* no older snapshot.
LEMMA NextPublish ==
  ASSUME TypeInv, PublishInv, [Next /\ OneAtATime']_vars
  PROVE  PublishInv' /\ \A i \in Items : published[i] <= published'[i]
<1>t. /\ pc \in [Passes -> Step] /\ local \in [Passes -> Local]
      /\ published \in [Items -> Nat] /\ clock \in Nat
      /\ snapshots \subseteq Snapshot
  BY DEF TypeInv, TypeOK
<1>a. CASE UNCHANGED vars
  BY <1>t, <1>a DEF vars, PublishInv, Shown, OneAtATime, Running
<1>b. ASSUME NEW p \in Passes, Publish(p), OneAtATime'
      PROVE  PublishInv' /\ \A i \in Items : published[i] <= published'[i]
  <2>1. /\ pc[p] = "publish" /\ published' = local[p].newest
        /\ pc' = [pc EXCEPT ![p] = "done"]
        /\ snapshots' = snapshots /\ clock' = clock /\ local' = local
    BY <1>b DEF Publish, Goto
  <2>2. \A i \in Items : published[i] <= published'[i] /\ Shown(i, published'[i])
    BY <2>1 DEF PublishInv
  <2>3. \A q \in Passes : pc'[q] # "publish"
    BY <1>t, <2>1 DEF PublishInv, OneAtATime, Running, Finished
  <2> QED
    BY <1>b, <2>1, <2>2, <2>3 DEF PublishInv, Shown
<1> DEFINE Apart == /\ published' = published
                    /\ snapshots \subseteq snapshots'
                    /\ \A s \in snapshots' : s.at < clock'
                    /\ \A p \in Passes : pc'[p] = "publish" =>
                         pc[p] = "publish" /\ local'[p].newest = local[p].newest
<1>c. ASSUME Apart, OneAtATime'
      PROVE  PublishInv' /\ \A i \in Items : published[i] <= published'[i]
  BY <1>t, <1>c DEF PublishInv, Shown
<1> HIDE DEF Apart
<1>d. ASSUME NEW p \in Passes, TakePage(p)
      PROVE  \A q \in Passes : q # p => local'[q] = local[q]
  BY <1>t, <1>d DEF TakePage
<1>1. ASSUME NEW p \in Passes, StartPass(p) PROVE Apart
  BY <1>t, <1>1 DEF StartPass, Goto, Apart, PublishInv
<1>2. ASSUME NEW p \in Passes, ReadPage(p) PROVE Apart
  BY <1>t, <1>2 DEF ReadPage, Goto, Apart, PublishInv
<1>3. ASSUME NEW p \in Passes, CountItems(p) PROVE Apart
  BY <1>t, <1>3, <1>d DEF CountItems, Goto, Apart, PublishInv
<1>4. ASSUME NEW p \in Passes, FailPass(p) PROVE Apart
  BY <1>t, <1>4 DEF FailPass, Goto, Apart, PublishInv
<1>5. ASSUME NEW p \in Passes, MissCount(p) PROVE Apart
  BY <1>t, <1>5, <1>d DEF MissCount, Goto, Apart, PublishInv
<1>6. ASSUME NEW s \in pending, StoreSnapshot(s) PROVE Apart
  <2>1. \A u \in snapshots : u.at \in Nat /\ u.at < clock
    BY <1>t DEF PublishInv, Snapshot
  <2> QED BY <1>t, <1>6, <2>1 DEF StoreSnapshot, Apart
<1>7. ASSUME NEW s \in pending, LoseSnapshot(s) PROVE Apart
  BY <1>7 DEF LoseSnapshot, Apart, PublishInv
<1>8. ASSUME NEW i \in Items, UpdateScore(i) PROVE Apart
  BY <1>8 DEF UpdateScore, Apart, PublishInv
<1>9. ASSUME NEW i \in Items, ToggleActive(i) PROVE Apart
  BY <1>9 DEF ToggleActive, Apart, PublishInv
<1>10. ASSUME Crash PROVE Apart
  BY <1>t, <1>10 DEF Crash, Apart, PublishInv
<1>11. ASSUME NEW p \in Passes, ReadRanking(p), OneAtATime'
       PROVE  PublishInv' /\ \A i \in Items : published[i] <= published'[i]
  <2>1. published' = published
    BY <1>11 DEF ReadRanking
  <2> QED BY <1>t, <1>11, <2>1, ReadRankingPublish
<1> QED
  BY <1>a, <1>b, <1>c, <1>1, <1>2, <1>3, <1>4, <1>5, <1>6, <1>7, <1>8, <1>9,
     <1>10, <1>11 DEF Next, PassStep

\* When passes do not overlap, the published ranking never goes back to an older
\* snapshot of an item, whatever inserts are late, lost or cut off by a crash.
THEOREM PublishedForward == SerialSpec => PublishedAdvances
<1>1. Init => TypeInv /\ PublishInv
  BY InitTypeInv, InitPublish
<1>2. TypeInv /\ PublishInv /\ [Next /\ OneAtATime']_vars => (TypeInv /\ PublishInv)'
  BY NextTypeInv, NextPublish
<1>3. TypeInv /\ PublishInv /\ [Next /\ OneAtATime']_vars
        => [\A i \in Items : published[i] <= published'[i]]_vars
  BY NextPublish
<1> QED BY <1>1, <1>2, <1>3, PTL DEF SerialSpec, PublishedAdvances
-----------------------------------------------------------------------------
(* A pass that nothing moves.                                               *)

\* The place of an item, the rankings, what is to be stored of the first places
\* and the rows of a page, as functions of the scores and the active items.
PlaceIn(sc, ac, i) == 1 + Cardinality({j \in ac : sc[j] > sc[i]})

TiedIn(sc, ac) == \E i, j \in ac : i # j /\ sc[i] = sc[j]

RankingsIn(sc, ac) ==
  {f \in [ac -> 1..Cardinality(ac)] :
     \A i, j \in ac : /\ f[i] = f[j] => i = j
                      /\ sc[i] > sc[j] => f[i] < f[j]}

ExactIn(sc, ac, high) ==
  {[item |-> i, score |-> sc[i], ranking |-> PlaceIn(sc, ac, i)] :
     i \in {j \in ac : sc[j] \notin {0, Unscored} /\ PlaceIn(sc, ac, j) <= high}}

RowsIn(sc, ac, f, low) ==
  {[item |-> i, score |-> sc[i], ranking |-> f[i]] :
     i \in {j \in ac : f[j] \in low + 1 .. low + PageSize}}

\* On its first page a pass has asked for nothing.
First(p) ==
  /\ pc[p] \in {"page", "count"} => local[p].page >= 1
  /\ pc[p] = "page" /\ local[p].page = 1 => local[p].total = 0 /\ Asked(p) = {}

\* While nothing moves, the pages before the next one have been asked for, the
\* first places exactly, and the page in hand is that of some ranking.
Still(p) ==
  faults = 0 /\ p \notin moved /\ ~TiedIn(scores, active)
    /\ pc[p] \in {"page", "count"} =>
    /\ local[p].page > 1 => Skip(local[p].page) < Cardinality(active)
    /\ local[p].total = Skip(local[p].page)
    /\ Asked(p) = ExactIn(scores, active, Skip(local[p].page))
    /\ pc[p] = "count" => \E f \in RankingsIn(scores, active) :
         local[p].data = RowsIn(scores, active, f, Skip(local[p].page))

StillInv == \A p \in Passes : First(p) /\ Still(p)

\* A ranking is a bijection, onto the places.
LEMMA RankingBijects ==
  ASSUME NEW sc, NEW ac \in SUBSET Items, NEW f \in RankingsIn(sc, ac)
  PROVE  f \in Bijection(ac, 1..Cardinality(ac)) /\ Cardinality(ac) \in Nat
<1> DEFINE n == Cardinality(ac)
<1>1. IsFiniteSet(ac) /\ n \in Nat
  BY SnapshotAssumption, FS_Subset, FS_CardinalityType
<1>2. f \in Injection(ac, 1..n)
  BY DEF RankingsIn, Injection, IsInjective
<1>3. IsFiniteSet(1..n) /\ Cardinality(1..n) = n
  BY <1>1, FS_Interval
<1>4. f \in Surjection(ac, 1..n)
  BY <1>2, <1>3, FS_Injection
<1> QED BY <1>1, <1>2, <1>4 DEF Bijection

\* Without ties there is one ranking: every item is at its place.
LEMMA RankIsPlace ==
  ASSUME NEW sc, NEW ac \in SUBSET Items, \A i \in ac : sc[i] \in Int,
         ~TiedIn(sc, ac), NEW f \in RankingsIn(sc, ac), NEW i \in ac
  PROVE  f[i] = PlaceIn(sc, ac, i)
<1> DEFINE n == Cardinality(ac)
           above == {j \in ac : sc[j] > sc[i]}
           g == [j \in above |-> f[j]]
<1>1. f \in Bijection(ac, 1..n) /\ n \in Nat
  BY RankingBijects
<1>2. \A j \in ac : f[j] \in 1..n
  BY DEF RankingsIn
<1>3. ASSUME NEW j \in ac PROVE sc[j] > sc[i] <=> f[j] < f[i]
  <2>1. CASE sc[j] > sc[i]
    BY <2>1 DEF RankingsIn
  <2>2. CASE sc[i] > sc[j]
    BY <1>2, <2>2 DEF RankingsIn
  <2>3. CASE sc[i] = sc[j]
    <3>1. i = j
      BY <2>3 DEF TiedIn
    <3> QED BY <1>2, <3>1
  <2> QED BY <2>1, <2>2, <2>3
<1>4. g \in [above -> 1..(f[i] - 1)]
  BY <1>1, <1>2, <1>3
<1>5. \A j, k \in above : g[j] = g[k] => j = k
  BY DEF RankingsIn
<1>6. ASSUME NEW m \in 1..(f[i] - 1) PROVE \E j \in above : g[j] = m
  <2>1. m \in 1..n
    BY <1>1, <1>2
  <2>2. PICK j \in ac : f[j] = m
    BY <1>1, <2>1 DEF Bijection, Surjection
  <2>3. j \in above
    BY <1>2, <1>3, <2>2
  <2> QED BY <2>2, <2>3
<1>7. g \in Bijection(above, 1..(f[i] - 1))
  BY <1>4, <1>5, <1>6 DEF Bijection, Injection, Surjection, IsInjective
<1>8. IsFiniteSet(above)
  BY SnapshotAssumption, FS_Subset
<1>9. Cardinality(1..(f[i] - 1)) = Cardinality(above)
  <2> HIDE DEF g, above
  <2> QED BY <1>7, <1>8, FS_Bijection DEF ExistsBijection
<1>10. Cardinality(1..(f[i] - 1)) = f[i] - 1
  <2> DEFINE m == f[i] - 1
  <2>1. m \in Int /\ 1 <= m + 1
    BY <1>1, <1>2
  <2> HIDE DEF m
  <2>2. Cardinality(1..m) = IF 1 > m THEN 0 ELSE m - 1 + 1
    BY <2>1, FS_Interval
  <2>3. Cardinality(1..m) = m
    BY <2>1, <2>2
  <2> QED BY <2>3 DEF m
<1> QED
  BY <1>1, <1>2, <1>9, <1>10 DEF PlaceIn

\* A page is full unless it is the last one.
LEMMA PageCount ==
  ASSUME NEW sc, NEW ac \in SUBSET Items, NEW f \in RankingsIn(sc, ac),
         NEW low \in Nat, low <= Cardinality(ac)
  PROVE  Cardinality(RowsIn(sc, ac, f, low)) =
           IF low + PageSize <= Cardinality(ac) THEN PageSize
           ELSE Cardinality(ac) - low
<1> DEFINE n == Cardinality(ac)
           high == IF low + PageSize <= n THEN low + PageSize ELSE n
           rows == RowsIn(sc, ac, f, low)
           g == [d \in rows |-> d.ranking]
<1>1. f \in Bijection(ac, 1..n) /\ n \in Nat /\ PageSize \in Nat
  BY RankingBijects, SnapshotAssumption
<1>2. \A j \in ac : f[j] \in 1..n
  BY DEF RankingsIn
<1>3. \A d \in rows : \E i \in ac : /\ d = [item |-> i, score |-> sc[i], ranking |-> f[i]]
                                    /\ f[i] \in low + 1 .. low + PageSize
  BY DEF RowsIn
<1>4. g \in [rows -> low + 1 .. high]
  BY <1>1, <1>2, <1>3
<1>5. \A d, e \in rows : g[d] = g[e] => d = e
  BY <1>3 DEF RankingsIn
<1>6. ASSUME NEW m \in low + 1 .. high PROVE \E d \in rows : g[d] = m
  <2>1. m \in 1..n /\ m \in low + 1 .. low + PageSize
    BY <1>1
  <2>2. PICK i \in ac : f[i] = m
    BY <1>1, <2>1 DEF Bijection, Surjection
  <2>3. [item |-> i, score |-> sc[i], ranking |-> f[i]] \in rows
    BY <2>1, <2>2 DEF RowsIn
  <2> QED BY <2>2, <2>3
<1>7. g \in Bijection(rows, low + 1 .. high)
  BY <1>4, <1>5, <1>6 DEF Bijection, Injection, Surjection, IsInjective
<1>8. ExistsBijection(low + 1 .. high, rows)
  <2> HIDE DEF g, rows, high
  <2>1. ExistsBijection(rows, low + 1 .. high)
    BY <1>7 DEF ExistsBijection
  <2> QED BY <2>1, Fun_ExistsBijSymmetric
<1>9. high \in Int /\ low <= high
  BY <1>1
<1>10. Cardinality(rows) = Cardinality(low + 1 .. high)
  <2> HIDE DEF rows, high
  <2>1. IsFiniteSet(low + 1 .. high)
    BY <1>9, FS_Interval
  <2> QED BY <1>8, <2>1, FS_Bijection
<1>11. Cardinality(low + 1 .. high) = high - low
  <2> HIDE DEF high
  <2> DEFINE first == low + 1
  <2>1. first \in Int
    OBVIOUS
  <2> HIDE DEF first
  <2>2. Cardinality(first .. high) = IF first > high THEN 0 ELSE high - first + 1
    BY <1>9, <2>1, FS_Interval
  <2> QED BY <1>9, <2>2 DEF first
<1> QED BY <1>1, <1>10, <1>11

\* What is asked for of a page, beside the first places, makes the first places
\* up to the end of the page.
LEMMA PageIsExact ==
  ASSUME NEW sc, NEW ac \in SUBSET Items, \A i \in ac : sc[i] \in Int,
         ~TiedIn(sc, ac), NEW f \in RankingsIn(sc, ac), NEW low \in Int
  PROVE  ExactIn(sc, ac, low) \cup
           {d \in RowsIn(sc, ac, f, low) : d.score \notin {0, Unscored}}
         = ExactIn(sc, ac, low + PageSize)
<1> DEFINE R(i) == [item |-> i, score |-> sc[i], ranking |-> f[i]]
<1>1. \A i \in ac : f[i] = PlaceIn(sc, ac, i)
  BY RankIsPlace
<1>2. \A i \in ac : f[i] \in Int
  BY RankingBijects DEF RankingsIn
<1>3. PageSize \in Nat
  BY SnapshotAssumption
<1>4. \A high, d : d \in ExactIn(sc, ac, high) <=>
        \E i \in ac : d = R(i) /\ sc[i] \notin {0, Unscored} /\ f[i] <= high
  BY <1>1 DEF ExactIn
<1>5. \A d : d \in RowsIn(sc, ac, f, low) <=>
        \E i \in ac : d = R(i) /\ f[i] \in low + 1 .. low + PageSize
  BY DEF RowsIn
<1>6. \A i \in ac : R(i).score = sc[i]
  OBVIOUS
<1> HIDE DEF R
<1>7. ASSUME NEW d
      PROVE  d \in ExactIn(sc, ac, low + PageSize) <=>
             \/ d \in ExactIn(sc, ac, low)
             \/ d \in RowsIn(sc, ac, f, low) /\ d.score \notin {0, Unscored}
  BY <1>2, <1>3, <1>4, <1>5, <1>6
<1> QED BY <1>7

\* Nothing is to be stored of no places.
LEMMA NothingFirst ==
  ASSUME NEW sc, NEW ac \in SUBSET Items
  PROVE  ExactIn(sc, ac, 0) = {}
<1>1. ASSUME NEW i \in ac PROVE ~(PlaceIn(sc, ac, i) <= 0)
  <2>1. Cardinality({j \in ac : sc[j] > sc[i]}) \in Nat
    BY SnapshotAssumption, FS_Subset, FS_CardinalityType
  <2> QED BY <2>1 DEF PlaceIn
<1> QED BY <1>1 DEF ExactIn

\* What a pass asks to store, of the page it has in hand.
LEMMA AskedTakes ==
  ASSUME TypeInv, NEW p \in Passes, TakePage(p), snapshots' = snapshots,
         NEW q \in Passes
  PROVE  Asked(q)' = IF q # p THEN Asked(q)
                     ELSE Asked(p) \cup
                            {d \in local[p].data : d.score \notin {0, Unscored}}
<1> DEFINE A(s) == [item |-> s.item, score |-> s.score, ranking |-> s.ranking]
<1>1. pending' = pending \cup Storable(p)
  BY DEF TakePage
<1>2. \A a : a \in Asked(q)' <=>
        \E s \in pending' \cup snapshots' : s.pass = q /\ a = A(s)
  BY DEF Asked
<1>3. \A a : a \in Asked(q) <=>
        \E s \in pending \cup snapshots : s.pass = q /\ a = A(s)
  BY DEF Asked
<1>4. local[p].data \subseteq Row
  BY DEF TypeInv, TypeOK, Local
<1>5. \A s \in Storable(p) : s.pass = p /\ A(s) \in local[p].data
                             /\ A(s).score \notin {0, Unscored}
  BY <1>4 DEF Storable, Row
<1>6. \A d \in local[p].data : d.score \notin {0, Unscored} =>
        \E s \in Storable(p) : s.pass = p /\ A(s) = d
  <2> SUFFICES ASSUME NEW d \in local[p].data, d.score \notin {0, Unscored}
               PROVE  \E s \in Storable(p) : s.pass = p /\ A(s) = d
    OBVIOUS
  <2> DEFINE s == [pass |-> p, item |-> d.item, score |-> d.score,
                   ranking |-> d.ranking]
  <2>1. s \in Storable(p)
    BY DEF Storable
  <2>2. A(s) = d
    BY <1>4 DEF Row
  <2> QED BY <2>1, <2>2
<1> HIDE DEF A
<1>7. CASE q # p
  BY <1>1, <1>2, <1>3, <1>5, <1>7
<1>8. CASE q = p
  BY <1>1, <1>2, <1>3, <1>5, <1>6, <1>8
<1> QED BY <1>7, <1>8

\* A step that only starts or stops passes, or stores what was asked for, leaves
\* a pass as it was.
LEMMA StillKept ==
  ASSUME TypeInv, NEW p \in Passes, First(p), Still(p),
         scores' = scores, active' = active, moved \subseteq moved',
         faults' = 0 => faults = 0,
         \/ pc'[p] = pc[p] /\ local'[p] = local[p]
         \/ pc'[p] \notin {"page", "count"},
         Asked(p)' = Asked(p)
  PROVE  First(p)' /\ Still(p)'
BY DEF First, Still, Skip

\* The scores and the active items are as the lemmas above take them.
LEMMA ScoresTyped ==
  ASSUME TypeInv
  PROVE  active \in SUBSET Items /\ \A i \in active : scores[i] \in Int
BY SnapshotAssumption DEF TypeInv, TypeOK

\* A pass that starts has asked for nothing.
LEMMA StillStarts ==
  ASSUME SnapshotInv, NEW p \in Passes, StartPass(p)
  PROVE  First(p)' /\ Still(p)'
<1>1. /\ pc \in [Passes -> Step] /\ local \in [Passes -> Local]
      /\ pending \subseteq Request /\ snapshots \subseteq Snapshot
  BY DEF SnapshotInv, TypeInv, TypeOK
<1>2. /\ pc[p] = "idle" /\ pc' = [pc EXCEPT ![p] = "page"]
      /\ local' = [local EXCEPT ![p] = OnPage(1)]
      /\ UNCHANGED <<scores, active, pending, snapshots>>
  BY DEF StartPass, Goto
<1>3. pc'[p] = "page" /\ local'[p].page = 1 /\ local'[p].total = 0
  BY <1>1, <1>2 DEF OnPage
<1>4. local[p].page = 0 /\ Skip(local[p].page) < 0
  BY <1>2, SkipGrows DEF SnapshotInv, PlacesInv
<1>5. \A s \in pending \cup snapshots : s.pass # p
  BY <1>1, <1>4, SkipGrows DEF SnapshotInv, PlacesInv, Request, Snapshot
<1>6. Asked(p)' = {}
  BY <1>2, <1>5 DEF Asked
<1>7. PageSize \in Nat
  BY SnapshotAssumption
<1>8. Skip(local[p].page)' = 0
  BY <1>3, <1>7 DEF Skip
<1>9. ExactIn(scores', active', 0) = {}
  BY <1>2, ScoresTyped, NothingFirst DEF SnapshotInv
<1> QED
  BY <1>3, <1>6, <1>8, <1>9 DEF First, Still

\* The page in hand is that of a ranking of the items as they are.
LEMMA StillReads ==
  ASSUME TypeInv, NEW p \in Passes, First(p), Still(p), ReadPage(p)
  PROVE  First(p)' /\ Still(p)'
<1>1. pc \in [Passes -> Step] /\ local \in [Passes -> Local]
  BY DEF TypeInv, TypeOK
<1>2. /\ pc[p] = "page" /\ pc' = [pc EXCEPT ![p] = "count"]
      /\ UNCHANGED <<scores, active, pending, snapshots, faults, moved>>
  BY DEF ReadPage, Goto, bounds
<1>3. Rankings = RankingsIn(scores, active)
  BY DEF Rankings, RankingsIn
<1>4. PICK f \in RankingsIn(scores, active) :
        local' = [local EXCEPT ![p].data =
                    RowsIn(scores, active, f, Skip(local[p].page))]
  BY <1>3 DEF ReadPage, RowsIn
<1>5. /\ local'[p].data = RowsIn(scores, active, f, Skip(local[p].page))
      /\ local'[p].page = local[p].page /\ local'[p].total = local[p].total
      /\ pc'[p] = "count"
  BY <1>1, <1>2, <1>4 DEF Local
<1>6. Asked(p)' = Asked(p)
  BY <1>2 DEF Asked
<1>7. Skip(local[p].page)' = Skip(local[p].page)
  BY <1>5 DEF Skip
<1> QED
  BY <1>2, <1>5, <1>6, <1>7 DEF First, Still

\* What the property promises of a pass that ends.
ExactAtEnd(p) ==
  Asked(p)' = {[item |-> i, score |-> scores[i], ranking |-> PlaceIn(scores, active, i)] :
                 i \in {j \in active : scores[j] \notin {0, Unscored}}}

\* A pass that nothing moved goes from counting to the ranking exact.
EndsExact(p) ==
  pc[p] = "count" /\ pc'[p] = "rank" /\ p \notin moved /\ ~TiedIn(scores, active)
    /\ faults' = 0 => ExactAtEnd(p)

\* A full page leads to the next one; a page that is not full is the last.
LEMMA StillCounts ==
  ASSUME TypeInv, NEW p \in Passes, First(p), Still(p), CountItems(p)
  PROVE  First(p)' /\ Still(p)' /\ EndsExact(p)
<1>1. /\ pc \in [Passes -> Step] /\ local \in [Passes -> Local]
      /\ local[p].page \in Nat /\ local[p].total \in Nat
  BY DEF TypeInv, TypeOK, Local
<1>2. /\ pc[p] = "count" /\ TakePage(p)
      /\ pc' = [pc EXCEPT ![p] = IF local'[p].total < Cardinality(active)
                                 THEN "page" ELSE "rank"]
      /\ UNCHANGED <<scores, active, snapshots, faults, moved>>
  BY DEF CountItems, Goto, bounds
<1> DEFINE n == Cardinality(active)
           low == Skip(local[p].page)
<1>3. /\ local'[p].page = NextPage(local[p].page)
      /\ local'[p].total = local[p].total + Cardinality(local[p].data)
      /\ pc'[p] = IF local'[p].total < n THEN "page" ELSE "rank"
  BY <1>1, <1>2 DEF TakePage
<1>4. local[p].page >= 1
  BY <1>2 DEF First
<1>5. active \in SUBSET Items /\ \A i \in active : scores[i] \in Int
  BY ScoresTyped
<1>6. n \in Nat /\ Cardinality(Items) \in Nat /\ n <= Cardinality(Items)
  BY <1>5, ActiveCount
<1>7. PageSize \in Nat /\ PageSize > 0
  BY SnapshotAssumption
<1>8. First(p)'
  <2>1. CASE pc'[p] = "page"
    <3>1. local'[p].total < n /\ Cardinality(local[p].data) \in Nat
      BY <1>3, <2>1, FS_CardinalityType DEF TypeInv
    <3>2. Cardinality(Items) > 0
      BY <1>1, <1>3, <1>6, <3>1
    <3>3. local'[p].page > 1
      <4>1. CASE local[p].page = 1
        BY <1>3, <1>6, <1>7, <3>2, <4>1 DEF NextPage, Skip
      <4>2. CASE local[p].page > 1
        BY <1>1, <1>3, <4>2 DEF NextPage
      <4> QED BY <1>1, <1>4, <4>1, <4>2
    <3>4. local'[p].page \in Nat
      BY <1>1, <1>3 DEF NextPage
    <3> QED BY <2>1, <3>3, <3>4 DEF First
  <2>2. CASE pc'[p] = "rank"
    BY <2>2 DEF First
  <2> QED BY <1>3, <2>1, <2>2
<1> SUFFICES ASSUME faults' = 0, p \notin moved', ~TiedIn(scores, active)
             PROVE  Still(p)' /\ (pc'[p] = "rank" => ExactAtEnd(p))
  BY <1>2, <1>8 DEF Still, EndsExact
<1>9. /\ local[p].page > 1 => low < n
      /\ local[p].total = low
      /\ Asked(p) = ExactIn(scores, active, low)
      /\ \E f \in RankingsIn(scores, active) :
           local[p].data = RowsIn(scores, active, f, low)
  BY <1>2 DEF Still
<1>10. PICK f \in RankingsIn(scores, active) :
        local[p].data = RowsIn(scores, active, f, low)
  BY <1>9
<1>11. low \in Nat /\ low <= n
  <2>1. CASE local[p].page = 1
    BY <1>6, <1>7, <2>1 DEF Skip
  <2>2. CASE local[p].page > 1
    BY <1>1, <1>9, <1>6, <2>2, SkipGrows
  <2> QED BY <1>1, <1>4, <2>1, <2>2
<1>12. Cardinality(local[p].data) = IF low + PageSize <= n THEN PageSize ELSE n - low
  <2> HIDE DEF low
  <2> QED BY <1>10, <1>5, <1>11, PageCount
<1>13. Asked(p)' = ExactIn(scores, active, low + PageSize)
  <2> HIDE DEF low
  <2>1. Asked(p)' = Asked(p) \cup {d \in local[p].data : d.score \notin {0, Unscored}}
    BY <1>2, AskedTakes
  <2>2. low \in Int
    BY <1>11
  <2> QED BY <1>9, <1>10, <1>5, <2>1, <2>2, PageIsExact
<1>14. CASE pc'[p] = "page"
  <2>1. local'[p].total < n
    BY <1>3, <1>14
  <2>2. local'[p].total = low + PageSize
    BY <1>3, <1>9, <1>6, <1>7, <1>11, <1>12, <2>1
  <2>3. local'[p].page = local[p].page + 1
    BY <1>3, <1>6, <1>7, <1>11, <2>1, <2>2 DEF NextPage
  <2>4. Skip(local[p].page)' = low + PageSize
    <3>1. Skip(local[p].page + 1) = low + PageSize
      BY <1>1, SkipGrows
    <3> QED BY <2>3, <3>1 DEF Skip
  <2> HIDE DEF low
  <2> QED
    BY <1>2, <1>13, <1>14, <2>1, <2>2, <2>4 DEF Still
<1>15. CASE pc'[p] = "rank"
  <2>1. ~(local'[p].total < n)
    BY <1>3, <1>15
  <2>2. n <= low + PageSize
    BY <1>3, <1>9, <1>6, <1>7, <1>11, <1>12, <2>1
  <2>3. \A i \in active : PlaceIn(scores, active, i) <= low + PageSize
    <3>1. \A i \in active : f[i] = PlaceIn(scores, active, i)
      BY <1>5, RankIsPlace
    <3>2. \A i \in active : f[i] \in 1..n
      BY DEF RankingsIn
    <3> QED BY <1>6, <1>7, <1>11, <2>2, <3>1, <3>2
  <2> HIDE DEF low
  <2>4. ExactAtEnd(p)
    BY <1>13, <2>3 DEF ExactIn, ExactAtEnd
  <2>5. Still(p)'
    BY <1>15 DEF Still
  <2> QED BY <2>4, <2>5
<1> QED
  BY <1>3, <1>14, <1>15

\* A change of the items moves the passes that have read a page; the others
\* have asked for nothing.
LEMMA StillMoves ==
  ASSUME TypeInv, NEW p \in Passes, First(p), active' \subseteq Items,
         moved' = moved \cup Paging,
         UNCHANGED <<pc, local, pending, snapshots>>
  PROVE  First(p)' /\ Still(p)'
<1>1. Asked(p)' = Asked(p)
  BY DEF Asked
<1>2. First(p)'
  BY <1>1 DEF First
<1>3. local[p].page \in Nat
  BY DEF TypeInv, TypeOK, Local
<1>4. CASE pc[p] = "page" /\ local[p].page = 1
  <2>1. Asked(p) = {} /\ local[p].total = 0
    BY <1>4 DEF First
  <2>2. ExactIn(scores', active', 0) = {}
    BY NothingFirst
  <2>3. Skip(local[p].page)' = 0
    BY <1>4, SnapshotAssumption DEF Skip
  <2>4. Still(p)'
    BY <1>1, <1>4, <2>1, <2>2, <2>3 DEF Still
  <2> QED BY <1>2, <2>4
<1>5. CASE pc[p] \in {"page", "count"} /\ ~(pc[p] = "page" /\ local[p].page = 1)
  <2>1. p \in moved'
    BY <1>3, <1>5 DEF First, Paging
  <2>2. Still(p)'
    BY <2>1 DEF Still
  <2> QED BY <1>2, <2>2
<1>6. CASE pc[p] \notin {"page", "count"}
  BY <1>2, <1>6 DEF Still
<1> QED BY <1>4, <1>5, <1>6

\* At first no pass has begun.
LEMMA InitStill == Init => StillInv
<1> SUFFICES ASSUME Init, NEW p \in Passes PROVE First(p) /\ Still(p)
  BY DEF StillInv
<1>1. pc[p] = "idle"
  BY DEF Init
<1> QED BY <1>1 DEF First, Still

\* Every step keeps the passes nothing moves exact, to their end.
LEMMA NextStill ==
  ASSUME SnapshotInv, StillInv, [Next]_vars, NEW p \in Passes
  PROVE  First(p)' /\ Still(p)' /\ EndsExact(p)
<1> DEFINE Kept == First(p)' /\ Still(p)' /\ EndsExact(p)
           Calm == /\ scores' = scores /\ active' = active /\ moved \subseteq moved'
                   /\ faults' = 0 => faults = 0
                   /\ \/ pc'[p] = pc[p] /\ local'[p] = local[p]
                      \/ pc'[p] \notin {"page", "count"}
                   /\ pc[p] = "count" /\ pc'[p] = "rank" => faults' # 0
                   /\ Asked(p)' = Asked(p)
<1>t. /\ TypeInv /\ pc \in [Passes -> Step] /\ local \in [Passes -> Local]
      /\ faults \in Nat /\ active \subseteq Items
  BY SnapshotAssumption DEF SnapshotInv, TypeInv, TypeOK
<1>s. First(p) /\ Still(p)
  BY DEF StillInv
<1>0. ASSUME Calm PROVE Kept
  BY <1>0, <1>t, <1>s, StillKept DEF EndsExact
<1>a. ASSUME UNCHANGED <<pending, snapshots>> PROVE Asked(p)' = Asked(p)
  BY <1>a DEF Asked
<1>b. ASSUME NEW q \in Passes, q # p, TakePage(q), snapshots' = snapshots
      PROVE  Asked(p)' = Asked(p) /\ local'[p] = local[p]
  BY <1>b, <1>t, AskedTakes DEF TakePage
<1> HIDE DEF Kept
<1>1. ASSUME NEW q \in Passes, StartPass(q) PROVE Kept
  <2>1. CASE q = p
    <3>1. pc[p] # "count"
      BY <1>1, <2>1 DEF StartPass
    <3>2. First(p)' /\ Still(p)'
      BY <1>1, <2>1, StillStarts
    <3> QED BY <3>1, <3>2 DEF Kept, EndsExact
  <2>2. CASE q # p
    BY <1>1, <2>2, <1>0, <1>a, <1>t DEF StartPass, Goto, bounds
  <2> QED BY <2>1, <2>2
<1>2. ASSUME NEW q \in Passes, ReadPage(q) PROVE Kept
  <2>1. CASE q = p
    <3>1. pc[p] # "count"
      BY <1>2, <2>1 DEF ReadPage
    <3>2. First(p)' /\ Still(p)'
      BY <1>2, <1>s, <1>t, <2>1, StillReads
    <3> QED BY <3>1, <3>2 DEF Kept, EndsExact
  <2>2. CASE q # p
    BY <1>2, <2>2, <1>0, <1>a, <1>t DEF ReadPage, Goto, bounds
  <2> QED BY <2>1, <2>2
<1>3. ASSUME NEW q \in Passes, CountItems(q) PROVE Kept
  <2>1. CASE q = p
    BY <1>3, <1>s, <1>t, <2>1, StillCounts DEF Kept
  <2>2. CASE q # p
    BY <1>3, <2>2, <1>0, <1>b, <1>t DEF CountItems, Goto, bounds
  <2> QED BY <2>1, <2>2
<1>4. ASSUME NEW q \in Passes, ReadRanking(q) PROVE Kept
  BY <1>4, <1>0, <1>a, <1>t DEF ReadRanking, Goto, bounds
<1>5. ASSUME NEW q \in Passes, Publish(q) PROVE Kept
  BY <1>5, <1>0, <1>a, <1>t DEF Publish, Goto, bounds
<1>6. ASSUME NEW q \in Passes, FailPass(q) PROVE Kept
  BY <1>6, <1>0, <1>a, <1>t DEF FailPass, Fault, Goto
<1>7. ASSUME NEW q \in Passes, MissCount(q) PROVE Kept
  <2>1. faults' # 0 /\ faults' = faults + 1
    BY <1>7, <1>t DEF MissCount, Fault
  <2>2. CASE q = p
    <3>1. pc'[p] = "rank"
      BY <1>7, <1>t, <2>2 DEF MissCount, Goto
    <3> QED BY <2>1, <3>1 DEF Kept, First, Still, EndsExact
  <2>3. CASE q # p
    BY <1>7, <1>0, <1>b, <1>t, <2>1, <2>3 DEF MissCount, Goto
  <2> QED BY <2>2, <2>3
<1>8. ASSUME NEW s \in pending, StoreSnapshot(s) PROVE Kept
  <2>1. Asked(p)' = Asked(p)
    <3> DEFINE A(u) == [item |-> u.item, score |-> u.score, ranking |-> u.ranking]
               new == [pass |-> s.pass, item |-> s.item, score |-> s.score,
                       ranking |-> s.ranking, at |-> clock]
    <3>1. /\ \A a : a \in Asked(p) <=>
                \E u \in pending \cup snapshots : u.pass = p /\ a = A(u)
          /\ \A a : a \in Asked(p)' <=>
                \E u \in pending' \cup snapshots' : u.pass = p /\ a = A(u)
      BY DEF Asked
    <3>2. new.pass = s.pass /\ A(new) = A(s)
      OBVIOUS
    <3>3. pending' = pending \ {s} /\ snapshots' = snapshots \cup {new}
      BY <1>8 DEF StoreSnapshot
    <3> HIDE DEF A, new
    <3>4. \A a : a \in Asked(p) <=> a \in Asked(p)'
      BY <3>1, <3>2, <3>3
    <3>5. \A a \in Asked(p) : a \in Asked(p)'
      BY <3>4
    <3>6. \A a \in Asked(p)' : a \in Asked(p)
      BY <3>4
    <3> QED BY <3>5, <3>6, Zenon
  <2> QED BY <1>8, <1>0, <2>1 DEF StoreSnapshot, bounds
<1>9. ASSUME NEW s \in pending, LoseSnapshot(s) PROVE Kept
  <2>1. faults' # 0
    BY <1>9, <1>t DEF LoseSnapshot, Fault
  <2>2. First(p)'
    BY <1>9, <1>s DEF LoseSnapshot, First, Asked
  <2> QED BY <2>1, <2>2 DEF Kept, Still, EndsExact
<1>10. ASSUME NEW i \in Items, UpdateScore(i) PROVE Kept
  <2>1. First(p)' /\ Still(p)'
    BY <1>10, <1>s, <1>t, StillMoves DEF UpdateScore
  <2>2. pc' = pc
    BY <1>10 DEF UpdateScore
  <2> QED BY <2>1, <2>2 DEF Kept, EndsExact
<1>11. ASSUME NEW i \in Items, ToggleActive(i) PROVE Kept
  <2>1. active' \subseteq Items
    BY <1>11, <1>t DEF ToggleActive
  <2>2. First(p)' /\ Still(p)'
    BY <1>11, <1>s, <1>t, <2>1, StillMoves DEF ToggleActive
  <2>3. pc' = pc
    BY <1>11 DEF ToggleActive
  <2> QED BY <2>2, <2>3 DEF Kept, EndsExact
<1>12. ASSUME Crash PROVE Kept
  <2>1. pc'[p] \notin {"page", "count", "rank"}
    BY <1>12, <1>t DEF Crash, Finished
  <2> QED BY <2>1 DEF Kept, First, Still, EndsExact
<1>13. ASSUME UNCHANGED vars PROVE Kept
  BY <1>13, <1>0, <1>a DEF vars, bounds
<1> QED
  BY <1>1, <1>2, <1>3, <1>4, <1>5, <1>6, <1>7, <1>8, <1>9, <1>10, <1>11, <1>12,
     <1>13 DEF Next, PassStep, Kept

\* The property in the words of the lemmas.
LEMMA ExactEnds ==
  ASSUME \A p \in Passes : EndsExact(p)
  PROVE  [\A p \in Passes :
            LET tie == \E i, j \in active : i # j /\ scores[i] = scores[j]
                Place(i) == 1 + Cardinality({j \in active : scores[j] > scores[i]})
            IN pc[p] = "count" /\ pc'[p] = "rank" /\ p \notin moved /\ ~tie
                 /\ faults' = 0
               => Asked(p)' =
                    {[item |-> i, score |-> scores[i], ranking |-> Place(i)] :
                       i \in {j \in active : scores[j] \notin {0, Unscored}}}]_vars
BY DEF EndsExact, ExactAtEnd, TiedIn, PlaceIn

\* A pass whose pages nothing moves, without ties and failures, asks for exactly
\* one snapshot of each scored active item, at its score and place: its pages
\* neither overlap nor leave a gap, however many there are, and whatever other
\* passes do.
THEOREM StillPassExact == Spec => StillPassIsExact
<1> DEFINE I == SnapshotInv /\ StillInv
<1>1. Init => I
  BY InitTypeInv, InitPlaces, InitStill DEF SnapshotInv
<1>2. I /\ [Next]_vars => I'
  <2>1. I /\ [Next]_vars => SnapshotInv'
    BY NextTypeInv, NextPlaces DEF SnapshotInv
  <2>2. I /\ [Next]_vars => StillInv'
    BY NextStill DEF StillInv
  <2> QED BY <2>1, <2>2
<1>3. I /\ [Next]_vars => \A p \in Passes : EndsExact(p)
  BY NextStill
<1> QED BY <1>1, <1>2, <1>3, ExactEnds, PTL DEF Spec, StillPassIsExact
=============================================================================
