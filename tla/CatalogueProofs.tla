---------------------------- MODULE CatalogueProofs ----------------------------
(***************************************************************************)
(* Theorems about Catalogue: what flags, items, favorites and snapshots    *)
(* keep to, however its requests overlap, fail or stop.                    *)
(*                                                                         *)
(* Each part has an invariant of its own.  A step of another part leaves   *)
(* its documents and the steps of its requests alone, so that each part's  *)
(* invariant needs one frame lemma and the steps of that part.             *)
(***************************************************************************)
EXTENDS Catalogue, FiniteSetTheorems, SequenceTheorems, TLAPS

ModerationSteps == {"flagPending", "createRequest", "updateRequests", "saveCategory",
                    "createItem", "saveMark", "findItem"}
ModerationKinds == {"flag", "decide", "resubmit", "setCategory", "activate", "activateAll",
                    "updateItem", "deleteItem", "toggle", "delete"}
FavoriteSteps == {"insertFavorite"}
FavoriteKinds == {"favor", "unfavor"}
ListingSteps == {"category", "items", "snapshots", "count", "store"}
ListingKinds == {"list", "favorites", "publish"}
RetentionSteps == {"deleteOld"}
RetentionKinds == {"snapshot", "cleanUp", "deleteAfter"}
Step == {"idle"} \cup ModerationSteps \cup FavoriteSteps \cup ListingSteps \cup RetentionSteps
        \cup Finished
-----------------------------------------------------------------------------
(* Requests.                                                               *)

\* Only requests that have begun are overlapped, and those that end in one
\* query are never under way.
HandlersInv ==
  /\ op \in Workloads
  /\ pc \in [Requests -> Step]
  /\ \A S \in overlap : \A r \in S \cap Requests : pc[r] # "idle"
  /\ \A r \in Requests : pc[r] \in ModerationSteps => op[r].kind \in ModerationKinds
  /\ \A r \in Requests : pc[r] \in RetentionSteps => op[r].kind = "cleanUp"
  /\ \A r \in Requests : pc[r] \in FavoriteSteps => op[r].kind = "favor"
  /\ \A r \in Requests : pc[r] \in ListingSteps => op[r].kind \in ListingKinds

\* A step of r that is of requests of these kinds, at these queries.
StepOf(r, kinds, steps) ==
  /\ op' = op
  /\ \E s \in steps \cup Finished : pc' = [pc EXCEPT ![r] = s]
  /\ \/ pc[r] = "idle" /\ op[r].kind \in kinds /\ Meets(r)
     \/ pc[r] \in steps /\ overlap' = overlap

LEMMA ModerationStepOf ==
  ASSUME NEW r \in Requests, ModerationStep(r)
  PROVE  StepOf(r, ModerationKinds, ModerationSteps)
BY DEF ModerationStep, StepOf, ModerationKinds, ModerationSteps, Finished, Goto, Starts, Steps,
       FindRequest, FlagPending, CreateRequest, Decide, UpdateRequests, Resubmit, ReadProfile,
       SaveCategory, CreateItem, WritesItem, ToggleActive, ToggleActiveAll, UpdateItem, DeleteItem,
       ReadMark, SaveMark, DeleteProfile, DeleteItemByProfile

LEMMA FavoriteStepOf ==
  ASSUME NEW r \in Requests, FavoriteStep(r)
  PROVE  StepOf(r, FavoriteKinds, FavoriteSteps)
BY DEF FavoriteStep, StepOf, FavoriteKinds, FavoriteSteps, Finished, Goto, Starts, Steps,
       FindFavorite, InsertFavorite, RemoveFavorite

LEMMA ListingStepOf ==
  ASSUME NEW r \in Requests, ListingStep(r)
  PROVE  StepOf(r, ListingKinds, ListingSteps)
BY DEF ListingStep, StepOf, ListingKinds, ListingSteps, Finished, Goto, Starts, Steps,
       AskCache, FindFavorites, ReadCategory, ReadItems, ReadSnapshots, CountItems, Store,
       PublishRanking

LEMMA RetentionStepOf ==
  ASSUME NEW r \in Requests, RetentionStep(r)
  PROVE  StepOf(r, RetentionKinds, RetentionSteps)
BY DEF RetentionStep, StepOf, RetentionKinds, RetentionSteps, Finished, Goto, Starts, Steps,
       TakeSnapshot, FindItems, DeleteOld, DeleteAfter

\* A request breaks, or all that are under way do.
Breaking ==
  /\ UNCHANGED <<op, overlap>>
  /\ \E S \in SUBSET {r \in Requests : Running(r)} :
       pc' = [r \in Requests |-> IF r \in S THEN "broken" ELSE pc[r]]

LEMMA FaultBreaks ==
  ASSUME HandlersInv, Fault
  PROVE  Breaking /\ UNCHANGED <<moderation, favorites, listing, retention>>
<1>1. CASE BreakAll
  <2>1. pc' = [r \in Requests |-> IF r \in {q \in Requests : Running(q)} THEN "broken" ELSE pc[r]]
    BY <1>1 DEF BreakAll
  <2>2. QED
    BY <1>1, <2>1 DEF BreakAll, Breaking, Fault
<1>2. ASSUME NEW r \in Requests, Breaks(r)
      PROVE  Breaking
  <2>1. pc' = [q \in Requests |-> IF q \in {r} THEN "broken" ELSE pc[q]]
    BY <1>2 DEF Breaks, Goto, HandlersInv
  <2>2. {r} \in SUBSET {q \in Requests : Running(q)}
    BY <1>2 DEF Breaks
  <2>3. QED
    BY <1>2, <2>1, <2>2 DEF Breaks, Breaking
<1>3. QED
  BY <1>1, <1>2 DEF Fault

\* The four ways the requests go on together.
LEMMA NextCases ==
  ASSUME HandlersInv, [Next]_vars
  PROVE  \/ \E r \in Requests : Moderate(r) \/ Favor(r) \/ List(r) \/ Retain(r)
         \/ Pass
         \/ Breaking /\ UNCHANGED <<moderation, favorites, listing, retention>>
         \/ UNCHANGED <<handlers, moderation, favorites, listing, retention>>
BY FaultBreaks DEF Next, vars

\* What any such step keeps of the invariant.
LEMMA StepOfKeeps ==
  ASSUME HandlersInv, NEW r \in Requests, NEW kinds, NEW steps \in SUBSET Step,
         "idle" \notin steps, StepOf(r, kinds, steps)
  PROVE  /\ op' \in Workloads /\ pc' \in [Requests -> Step]
         /\ pc'[r] \in steps \cup Finished
         /\ \A q \in Requests \ {r} : pc'[q] = pc[q]
         /\ \A S \in overlap' : \A q \in S \cap Requests : pc'[q] # "idle"
<1>1. /\ op' \in Workloads /\ pc' \in [Requests -> Step]
      /\ pc'[r] \in steps \cup Finished
      /\ \A q \in Requests \ {r} : pc'[q] = pc[q]
  <2>1. PICK s \in steps \cup Finished : pc' = [pc EXCEPT ![r] = s]
    BY DEF StepOf
  <2>2. s \in Step
    BY DEF Step
  <2>3. QED
    BY <2>1, <2>2 DEF StepOf, HandlersInv
<1>2. ASSUME NEW q \in Requests, pc[q] # "idle" \/ q = r PROVE pc'[q] # "idle"
  BY <1>1, <1>2 DEF Finished
<1>3. ASSUME NEW S \in overlap', NEW q \in S \cap Requests PROVE pc'[q] # "idle"
  <2>1. CASE S \in overlap
    BY <1>2, <2>1 DEF HandlersInv
  <2>2. CASE S \notin overlap
    <3>1. PICK p \in Requests : Running(p) /\ S = {r, p}
      BY <2>2 DEF StepOf, Meets
    <3>2. QED
      BY <1>2, <3>1 DEF Running
  <2>3. QED
    BY <2>1, <2>2
<1>4. QED
  BY <1>1, <1>3

LEMMA HandlersStepInv == HandlersInv /\ [Next]_vars => HandlersInv'
<1> SUFFICES ASSUME HandlersInv, [Next]_vars PROVE HandlersInv'
  OBVIOUS
<1> USE DEF ModerationSteps, FavoriteSteps, ListingSteps, RetentionSteps, ModerationKinds,
            FavoriteKinds, ListingKinds, RetentionKinds, Finished
<1>0. /\ ModerationSteps \in SUBSET Step /\ FavoriteSteps \in SUBSET Step
      /\ ListingSteps \in SUBSET Step /\ RetentionSteps \in SUBSET Step /\ "broken" \in Step
      /\ "idle" \notin ModerationSteps \cup FavoriteSteps \cup ListingSteps \cup RetentionSteps
  BY DEF Step
<1>1. ASSUME NEW r \in Requests, Moderate(r) PROVE HandlersInv'
  <2>1. StepOf(r, ModerationKinds, ModerationSteps)
    BY <1>1, ModerationStepOf DEF Moderate
  <2>2. op[r].kind \in ModerationKinds /\ op' = op
    BY <2>1 DEF StepOf, HandlersInv
  <2>3. /\ op' \in Workloads /\ pc' \in [Requests -> Step]
        /\ pc'[r] \in ModerationSteps \cup Finished
        /\ \A q \in Requests \ {r} : pc'[q] = pc[q]
        /\ \A S \in overlap' : \A q \in S \cap Requests : pc'[q] # "idle"
    BY <1>0, <2>1, StepOfKeeps
  <2>4. QED
    BY <2>2, <2>3 DEF HandlersInv
<1>2. ASSUME NEW r \in Requests, Favor(r) PROVE HandlersInv'
  <2>1. StepOf(r, FavoriteKinds, FavoriteSteps)
    BY <1>2, FavoriteStepOf DEF Favor
  <2>2. op' = op /\ (pc'[r] = "insertFavorite" => op[r].kind = "favor")
    BY <1>2 DEF Favor, FavoriteStep, FindFavorite, InsertFavorite, RemoveFavorite, HandlersInv,
                Starts, Steps, Goto
  <2>3. /\ op' \in Workloads /\ pc' \in [Requests -> Step]
        /\ pc'[r] \in FavoriteSteps \cup Finished
        /\ \A q \in Requests \ {r} : pc'[q] = pc[q]
        /\ \A S \in overlap' : \A q \in S \cap Requests : pc'[q] # "idle"
    BY <1>0, <2>1, StepOfKeeps
  <2>4. QED
    BY <2>2, <2>3 DEF HandlersInv
<1>3. ASSUME NEW r \in Requests, List(r) PROVE HandlersInv'
  <2>1. StepOf(r, ListingKinds, ListingSteps)
    BY <1>3, ListingStepOf DEF List
  <2>2. op' = op /\ (pc'[r] \in ListingSteps => op[r].kind \in ListingKinds)
    BY <2>1 DEF StepOf, HandlersInv
  <2>3. /\ op' \in Workloads /\ pc' \in [Requests -> Step]
        /\ pc'[r] \in ListingSteps \cup Finished
        /\ \A q \in Requests \ {r} : pc'[q] = pc[q]
        /\ \A S \in overlap' : \A q \in S \cap Requests : pc'[q] # "idle"
    BY <1>0, <2>1, StepOfKeeps
  <2>4. QED
    BY <2>2, <2>3 DEF HandlersInv
<1>4. ASSUME NEW r \in Requests, Retain(r) PROVE HandlersInv'
  <2>1. StepOf(r, RetentionKinds, RetentionSteps)
    BY <1>4, RetentionStepOf DEF Retain
  <2>2. op' = op /\ (pc'[r] = "deleteOld" => op[r].kind = "cleanUp")
    BY <1>4 DEF Retain, RetentionStep, TakeSnapshot, FindItems, DeleteOld, DeleteAfter,
                HandlersInv, Starts, Steps, Goto
  <2>3. /\ op' \in Workloads /\ pc' \in [Requests -> Step]
        /\ pc'[r] \in RetentionSteps \cup Finished
        /\ \A q \in Requests \ {r} : pc'[q] = pc[q]
        /\ \A S \in overlap' : \A q \in S \cap Requests : pc'[q] # "idle"
    BY <1>0, <2>1, StepOfKeeps
  <2>4. QED
    BY <2>2, <2>3 DEF HandlersInv
<1>5. CASE Breaking
  <2>1. pc' \in [Requests -> Step] /\ \A q \in Requests : pc'[q] \in {pc[q], "broken"}
    BY <1>0, <1>5 DEF Breaking, HandlersInv
  <2>2. QED
    BY <1>5, <2>1 DEF Breaking, HandlersInv
<1>6. CASE UNCHANGED handlers
  BY <1>6 DEF handlers, HandlersInv
<1>7. QED
  BY <1>1, <1>2, <1>3, <1>4, <1>5, <1>6, NextCases DEF Pass, Tick, Midnight

LEMMA HandlersInitInv == Init => HandlersInv
BY DEF Init, HandlersInit, HandlersInv, Step, ModerationSteps, FavoriteSteps, ListingSteps,
       RetentionSteps

\* A step of the requests of other parts leaves what is at these queries there.
LEMMA OtherSteps ==
  ASSUME HandlersInv, NEW r \in Requests, NEW kinds, NEW steps \in SUBSET Step,
         "idle" \notin steps, StepOf(r, kinds, steps)
  PROVE  /\ op' = op /\ overlap \subseteq overlap'
         /\ \A q \in Requests : pc'[q] \notin steps \cup Finished => pc'[q] = pc[q]
         /\ \A q \in Requests : pc[q] \notin steps \cup {"idle"} => pc'[q] = pc[q]
BY StepOfKeeps DEF StepOf, Meets
-----------------------------------------------------------------------------
(* Favorites.                                                              *)

\* A request that keeps, or is about to keep, its item among the favorites.
Keeping(r) == pc[r] = "insertFavorite" \/ \E f \in favorites : f.by = r

FavoritesInv ==
  /\ \A f \in favorites : /\ f.by \in Requests
                          /\ f.user = op[f.by].user /\ f.item = op[f.by].item
  /\ \A r, q \in Requests :
       /\ r # q /\ Keeping(r) /\ Keeping(q)
       /\ op[r].user = op[q].user /\ op[r].item = op[q].item
       => Overlapped(r, q)

LEMMA FavoritesFrame ==
  ASSUME FavoritesInv, UNCHANGED <<op, favorites>>, overlap \subseteq overlap',
         \A r \in Requests : pc'[r] = "insertFavorite" => pc[r] = "insertFavorite"
  PROVE  FavoritesInv'
BY DEF FavoritesInv, Keeping, Overlapped

LEMMA FavoriteStepInv ==
  ASSUME HandlersInv, FavoritesInv, NEW r \in Requests, FavoriteStep(r)
  PROVE  FavoritesInv'
<1>1. CASE FindFavorite(r)
  <2>1. /\ op' = op /\ favorites' = favorites
        /\ \A q \in Requests \ {r} : pc'[q] = pc[q]
        /\ overlap' = overlap \cup {{r, q} : q \in {p \in Requests : Running(p)}}
        /\ pc'[r] = "insertFavorite" => Found(r) = {}
    BY <1>1 DEF FindFavorite, Starts, Goto, Meets, HandlersInv
  <2>2. ASSUME NEW q \in Requests, q # r, Keeping(r)', Keeping(q)',
               op[r].user = op[q].user, op[r].item = op[q].item
        PROVE  Overlapped(r, q)' /\ Overlapped(q, r)'
    <3>1. CASE pc'[r] = "insertFavorite"
      <4>1. pc[q] = "insertFavorite"
        BY <2>1, <2>2, <3>1 DEF Keeping, Found, FavoritesInv
      <4>2. QED
        BY <2>1, <2>2, <4>1 DEF Running, Finished, Overlapped
    <3>2. CASE Keeping(r)
      BY <2>1, <2>2, <3>2 DEF FavoritesInv, Keeping, Overlapped
    <3>3. QED
      BY <2>1, <2>2, <3>1, <3>2 DEF Keeping
  <2>3. QED
    BY <2>1, <2>2 DEF FavoritesInv, Keeping, Overlapped
<1>2. CASE InsertFavorite(r)
  <2>1. /\ \A q \in Requests : Keeping(q)' => Keeping(q)
        /\ UNCHANGED <<op, overlap>>
    BY <1>2 DEF InsertFavorite, Steps, Goto, Keeping, HandlersInv
  <2>2. QED
    BY <1>2, <2>1 DEF InsertFavorite, FavoritesInv, Overlapped
<1>3. CASE RemoveFavorite(r)
  <2>1. favorites' \subseteq favorites
    BY <1>3 DEF RemoveFavorite
  <2>2. /\ \A q \in Requests : Keeping(q)' => Keeping(q)
        /\ op' = op /\ overlap \subseteq overlap'
    BY <1>3, <2>1 DEF RemoveFavorite, Starts, Goto, Meets, Keeping, HandlersInv
  <2>3. QED
    BY <2>1, <2>2 DEF FavoritesInv, Overlapped
<1>4. QED
  BY <1>1, <1>2, <1>3 DEF FavoriteStep

LEMMA FavoritesStepInv == HandlersInv /\ FavoritesInv /\ [Next]_vars => FavoritesInv'
<1> SUFFICES ASSUME HandlersInv, FavoritesInv, [Next]_vars PROVE FavoritesInv'
  OBVIOUS
<1>0. /\ ModerationSteps \in SUBSET Step /\ ListingSteps \in SUBSET Step
      /\ RetentionSteps \in SUBSET Step
      /\ (ModerationSteps \cup ListingSteps \cup RetentionSteps \cup Finished)
           \cap {"idle", "insertFavorite"} = {}
  BY DEF Step, ModerationSteps, ListingSteps, RetentionSteps, Finished
<1>1. ASSUME NEW r \in Requests, Moderate(r) PROVE FavoritesInv'
  BY <1>0, <1>1, ModerationStepOf, OtherSteps, FavoritesFrame DEF Moderate
<1>2. ASSUME NEW r \in Requests, Favor(r) PROVE FavoritesInv'
  BY <1>2, FavoriteStepInv DEF Favor
<1>3. ASSUME NEW r \in Requests, List(r) PROVE FavoritesInv'
  BY <1>0, <1>3, ListingStepOf, OtherSteps, FavoritesFrame DEF List
<1>4. ASSUME NEW r \in Requests, Retain(r) PROVE FavoritesInv'
  BY <1>0, <1>4, RetentionStepOf, OtherSteps, FavoritesFrame DEF Retain
<1>5. CASE Breaking /\ UNCHANGED favorites
  BY <1>5, FavoritesFrame DEF Breaking
<1>6. CASE UNCHANGED <<handlers, favorites>>
  BY <1>6, FavoritesFrame DEF handlers
<1>7. QED
  BY <1>1, <1>2, <1>3, <1>4, <1>5, <1>6, NextCases DEF Pass, Tick, Midnight

\* A user has an item among his favorites twice only from two requests that
\* overlapped: whichever requests remove it, fail or stop between.
THEOREM FavoritesOnce == Spec => []FavoriteTwinsOverlap
<1>1. Init => FavoritesInv
  BY DEF Init, HandlersInit, FavoritesInit, FavoritesInv, Keeping
<1>2. FavoritesInv => FavoriteTwinsOverlap
  BY DEF FavoritesInv, FavoriteTwinsOverlap, Keeping
<1>3. QED
  BY <1>1, <1>2, HandlersInitInv, HandlersStepInv, FavoritesStepInv, PTL DEF Spec
-----------------------------------------------------------------------------
(* Profiles, flag requests and items: their types.                         *)

ModerationInv ==
  /\ ModerationTypeOK
  /\ \A r \in Requests :
       /\ pc[r] = "updateRequests" => op[r].kind = "decide"
       /\ pc[r] \in {"saveCategory", "createItem"} => op[r].kind = "setCategory"

LEMMA ModerationFrame ==
  ASSUME ModerationInv, UNCHANGED <<op, moderation>>,
         \A r \in Requests : pc'[r] \in {"updateRequests", "saveCategory", "createItem"}
                                => pc'[r] = pc[r]
  PROVE  ModerationInv'
BY DEF ModerationInv, ModerationTypeOK, moderation

\* What a step of the requests of this part writes.
LEMMA WriteTypes ==
  ASSUME ModerationTypeOK, NEW r \in Requests, NEW field \in {"flag", "category", "favorite"},
         NEW value,
         field = "flag" => value \in Flags,
         field = "category" => value \in Categories,
         field = "favorite" => value \in BOOLEAN,
         profile' = IF Exists(r)
                    THEN [profile EXCEPT ![op[r].profile] = [@ EXCEPT ![field] = value]]
                    ELSE profile
  PROVE  /\ profile' \in [DOMAIN profile' -> Profile] /\ DOMAIN profile' = DOMAIN profile
         /\ \A p \in DOMAIN profile : \A g \in {"flag", "category", "favorite"} :
              p # op[r].profile \/ g # field => profile'[p][g] = profile[p][g]
         /\ Exists(r) => profile'[op[r].profile][field] = value
BY DEF ModerationTypeOK, Exists, Profile

\* The administrators' requests about items are of one query.
AdministersItem(r) ==
  ToggleActive(r) \/ ToggleActiveAll(r) \/ UpdateItem(r) \/ DeleteItem(r)

LEMMA ItemTypes ==
  ASSUME HandlersInv, ModerationTypeOK, NEW r \in Requests, AdministersItem(r)
  PROVE  /\ UNCHANGED <<profile, flagRequests, mark>> /\ op' = op
         /\ DOMAIN item' \subseteq DOMAIN item /\ item' \in [DOMAIN item' -> Item]
         /\ \E s \in {"done", "failed"} : pc' = [pc EXCEPT ![r] = s]
<1>1. /\ UNCHANGED <<profile, flagRequests, mark>> /\ op' = op
      /\ \E s \in {"done", "failed"} : pc' = [pc EXCEPT ![r] = s]
  BY DEF AdministersItem, ToggleActive, ToggleActiveAll, UpdateItem, DeleteItem, WritesItem,
         Starts, Goto, moderation
<1>2. /\ item \in [DOMAIN item -> Item] /\ op[r].active \in BOOLEAN
      /\ op[r].kind = "updateItem" => op[r].category \in Categories
  BY ModerationAssumption DEF HandlersInv, ModerationTypeOK
<1>3. CASE item' = item
  BY <1>1, <1>2, <1>3
<1>4. CASE op[r].item \in DOMAIN item /\ ToggleActive(r)
  <2>1. [item[op[r].item] EXCEPT !.active = op[r].active] \in Item
    BY <1>2, <1>4 DEF Item
  <2>2. QED
    BY <1>1, <1>2, <1>4, <2>1 DEF ToggleActive, WritesItem, moderation
<1>5. CASE ToggleActiveAll(r)
  BY <1>1, <1>2, <1>5 DEF ToggleActiveAll, Item
<1>6. CASE op[r].item \in DOMAIN item /\ UpdateItem(r)
  <2>1. op[r].kind = "updateItem"
    BY <1>6 DEF UpdateItem, WritesItem, Starts
  <2>2. Updated(item[op[r].item], op[r]) \in Item
    BY <1>2, <1>6, <2>1 DEF Updated, Item
  <2>3. QED
    BY <1>1, <1>2, <1>6, <2>2 DEF UpdateItem, WritesItem, moderation
<1>7. CASE op[r].item \in DOMAIN item /\ DeleteItem(r)
  BY <1>1, <1>2, <1>7 DEF DeleteItem, WritesItem, moderation
<1>8. QED
  BY <1>1, <1>3, <1>4, <1>5, <1>6, <1>7
  DEF AdministersItem, ToggleActive, UpdateItem, DeleteItem, WritesItem, moderation

LEMMA ModerationStepTypes ==
  ASSUME HandlersInv, ModerationInv, NEW r \in Requests, ModerationStep(r)
  PROVE  ModerationInv'
<1>0. pc \in [Requests -> Step] /\ op \in Workloads
  BY DEF HandlersInv
<1>1. /\ op[r].profile \in Profiles /\ op[r].active \in BOOLEAN
      /\ op[r].kind \in {"setCategory", "updateItem"} => op[r].category \in Categories
      /\ op[r].kind = "decide" => op[r].status \in {"approved", "rejected"}
  BY <1>0, ModerationAssumption
<1> USE <1>0, <1>1 DEF Goto, Starts, Steps, Meets, ModerationInv, ModerationTypeOK
<1>2. CASE FindRequest(r) \/ ReadProfile(r) \/ DeleteItemByProfile(r)
  BY <1>2 DEF FindRequest, ReadProfile, DeleteItemByProfile, moderation
<1>3. CASE FlagPending(r)
  BY <1>3, WriteTypes DEF FlagPending, Write, Flagged, Flags
<1>4. CASE CreateRequest(r)
  BY <1>4 DEF CreateRequest, FlagRequest
<1>5. CASE Decide(r)
  BY <1>5, WriteTypes DEF Decide, Write, Flagged, Flags
<1>6. CASE UpdateRequests(r)
  BY <1>6 DEF UpdateRequests, Decided, FlagRequest
<1>7. CASE Resubmit(r)
  BY <1>7, WriteTypes DEF Resubmit, Write, Flagged, Flags
<1>8. CASE SaveCategory(r)
  BY <1>8, WriteTypes DEF SaveCategory, Write, Saved
<1>9. CASE CreateItem(r)
  <2>1. NewItem(r) \in Item
    BY <1>9 DEF CreateItem, NewItem, Item
  <2>2. CASE op[r].profile \in DOMAIN item
    BY <1>9, <2>2 DEF CreateItem, moderation
  <2>3. CASE op[r].profile \notin DOMAIN item
    <3>1. /\ DOMAIN item' = DOMAIN item \cup {op[r].profile}
          /\ item' \in [DOMAIN item' -> Item]
      BY <1>9, <2>1, <2>3 DEF CreateItem
    <3>2. QED
      BY <1>9, <2>3, <3>1 DEF CreateItem, Items
  <2>4. QED
    BY <2>2, <2>3
<1>10. CASE AdministersItem(r)
  <2>1. /\ UNCHANGED <<profile, flagRequests, mark>> /\ op' = op
        /\ DOMAIN item' \subseteq DOMAIN item /\ item' \in [DOMAIN item' -> Item]
        /\ \E s \in {"done", "failed"} : pc' = [pc EXCEPT ![r] = s]
    BY <1>10, ItemTypes
  <2>2. QED
    BY <2>1
<1>11. CASE ReadMark(r)
  BY <1>11 DEF ReadMark, Exists, Profile
<1>12. CASE SaveMark(r)
  BY <1>12, WriteTypes DEF SaveMark, Write, MarkAfter
<1>13. CASE DeleteProfile(r)
  BY <1>13 DEF DeleteProfile
<1>14. QED
  BY <1>2, <1>3, <1>4, <1>5, <1>6, <1>7, <1>8, <1>9, <1>10, <1>11, <1>12, <1>13
  DEF ModerationStep, AdministersItem

\* What the rest of the system does to this part: it breaks some of its requests.
LEMMA OtherParts ==
  ASSUME HandlersInv, [Next]_vars, ~\E r \in Requests : Moderate(r)
  PROVE  /\ UNCHANGED <<op, moderation>> /\ overlap \subseteq overlap'
         /\ \A q \in Requests : pc'[q] \in ModerationSteps => pc'[q] = pc[q]
         /\ \A q \in Requests : pc[q] \in Finished => pc'[q] = pc[q]
         /\ \A q \in Requests : pc[q] \in ModerationSteps => pc'[q] \in {pc[q], "broken"}
<1> DEFINE Others == FavoriteSteps \cup ListingSteps \cup RetentionSteps
           Goal == /\ op' = op /\ overlap \subseteq overlap'
                   /\ \A q \in Requests : pc'[q] \in ModerationSteps => pc'[q] = pc[q]
                   /\ \A q \in Requests : pc[q] \in Finished => pc'[q] = pc[q]
                   /\ \A q \in Requests : pc[q] \in ModerationSteps => pc'[q] \in {pc[q], "broken"}
<1>1. /\ Others \subseteq Step /\ "idle" \notin Others
      /\ Others \cap (ModerationSteps \cup Finished) = {}
      /\ Finished \cap (ModerationSteps \cup {"idle"}) = {} /\ "idle" \notin ModerationSteps
      /\ "broken" \in Finished /\ "broken" \notin ModerationSteps
  BY DEF Step, FavoriteSteps, ListingSteps, RetentionSteps, ModerationSteps, Finished
<1>2. ASSUME NEW r \in Requests, NEW kinds, NEW steps \in SUBSET Others, StepOf(r, kinds, steps)
      PROVE  Goal
  <2>1. /\ op' = op /\ overlap \subseteq overlap'
        /\ \A q \in Requests : pc'[q] \notin steps \cup Finished => pc'[q] = pc[q]
        /\ \A q \in Requests : pc[q] \notin steps \cup {"idle"} => pc'[q] = pc[q]
    BY <1>1, <1>2, OtherSteps
  <2>2. QED
    BY <1>1, <2>1
<1>3. ASSUME NEW r \in Requests, Favor(r) \/ List(r) \/ Retain(r) PROVE Goal
  BY <1>2, <1>3, FavoriteStepOf, ListingStepOf, RetentionStepOf DEF Favor, List, Retain
<1>4. ASSUME Breaking PROVE Goal
  <2>1. \A q \in Requests : pc'[q] = pc[q] \/ (Running(q) /\ pc'[q] = "broken")
    BY <1>4 DEF Breaking, HandlersInv
  <2>2. op' = op /\ overlap' = overlap
    BY <1>4 DEF Breaking
  <2>3. \A q \in Requests : pc[q] \in Finished => pc'[q] = pc[q]
    BY <2>1 DEF Running
  <2>4. QED
    BY <1>1, <2>1, <2>2, <2>3
<1>5. ASSUME UNCHANGED handlers PROVE Goal
  BY <1>5 DEF handlers
<1>6. CASE \E r \in Requests : Favor(r) \/ List(r) \/ Retain(r)
  BY <1>3, <1>6 DEF Favor, List, Retain
<1>7. CASE Pass
  BY <1>5, <1>7 DEF Pass, Tick, Midnight
<1>8. CASE Breaking /\ UNCHANGED <<moderation, favorites, listing, retention>>
  BY <1>4, <1>8 DEF Breaking
<1>9. CASE UNCHANGED <<handlers, moderation, favorites, listing, retention>>
  BY <1>5, <1>9
<1>10. QED
  BY <1>6, <1>7, <1>8, <1>9, NextCases

LEMMA ModerationInitInv == Init => ModerationInv
<1> SUFFICES ASSUME Init PROVE ModerationInv
  OBVIOUS
<1>1. (CHOOSE c \in Categories : TRUE) \in Categories
  BY ModerationAssumption
<1>2. QED
  BY <1>1 DEF Init, HandlersInit, ModerationInit, ModerationInv, ModerationTypeOK, Profile, Item,
              Items, Flags

LEMMA ModerationStepInv == HandlersInv /\ ModerationInv /\ [Next]_vars => ModerationInv'
<1> SUFFICES ASSUME HandlersInv, ModerationInv, [Next]_vars PROVE ModerationInv'
  OBVIOUS
<1>1. CASE \E r \in Requests : Moderate(r)
  BY <1>1, ModerationStepTypes DEF Moderate
<1>2. CASE ~\E r \in Requests : Moderate(r)
  BY <1>2, OtherParts, ModerationFrame DEF ModerationSteps
<1>3. QED
  BY <1>1, <1>2
-----------------------------------------------------------------------------
(* Flag requests.                                                          *)

\* Why a request may be pending, or about to be, with the profile not flagged.
Excused(p, by) ==
  \/ \E r \in Of("resubmit", p) : pc[r] = "done"
  \/ \E r \in Of("decide", p) : Overlapped(r, by)

Undecided(p) == \E r \in Of("decide", p) : pc[r] \in {"updateRequests", "broken"}

NotFlagged(p) == p \in DOMAIN profile /\ profile[p].flag # "pending"

StoredInv ==
  \A q \in flagRequests :
    q.status = "pending" /\ NotFlagged(q.profile)
            => Excused(q.profile, q.by) \/ Undecided(q.profile)

StoringInv ==
  \A r \in Requests :
    pc[r] = "createRequest" /\ NotFlagged(op[r].profile) => Excused(op[r].profile, r)

PendingInv == StoredInv /\ StoringInv

\* Nothing that excuses goes away, and no decision but by its second step.
LEMMA ExcusedStays ==
  ASSUME op' = op, overlap \subseteq overlap',
         \A q \in Requests : pc[q] \in Finished => pc'[q] = pc[q], NEW p, NEW by
  PROVE  Excused(p, by) => Excused(p, by)'
BY DEF Excused, Of, Overlapped, Finished

LEMMA UndecidedStays ==
  ASSUME op' = op, NEW p,
         \A q \in Requests : pc[q] \in {"updateRequests", "broken"}
                 => pc'[q] \in {"updateRequests", "broken"}
  PROVE  Undecided(p) => Undecided(p)'
BY DEF Undecided, Of

\* Steps that take no flag away, change no request and end no decision.
LEMMA PendingFrame ==
  ASSUME PendingInv, UNCHANGED <<op, flagRequests>>, overlap \subseteq overlap',
         \A q \in Requests : pc[q] \in Finished => pc'[q] = pc[q],
         \A p : NotFlagged(p)' => NotFlagged(p),
         \A q \in Requests : pc'[q] = "createRequest" => pc[q] = "createRequest",
         \A q \in Requests : pc[q] \in {"updateRequests", "broken"}
                 => pc'[q] \in {"updateRequests", "broken"}
  PROVE  PendingInv'
<1>1. \A p, by : Excused(p, by) => Excused(p, by)'
  BY ExcusedStays
<1>2. \A p : Undecided(p) => Undecided(p)'
  BY UndecidedStays
<1>3. QED
  BY <1>1, <1>2 DEF PendingInv, StoredInv, StoringInv

\* The steps that write no flag and no request.
LEMMA PendingQuiet ==
  ASSUME HandlersInv, ModerationInv, PendingInv, NEW r \in Requests,
         \/ FindRequest(r) \/ ReadProfile(r) \/ SaveCategory(r) \/ CreateItem(r)
         \/ ToggleActive(r) \/ ToggleActiveAll(r) \/ UpdateItem(r) \/ DeleteItem(r)
         \/ ReadMark(r) \/ SaveMark(r) \/ DeleteProfile(r) \/ DeleteItemByProfile(r)
  PROVE  PendingInv'
<1>0. pc \in [Requests -> Step]
  BY DEF HandlersInv
<1>1. /\ UNCHANGED <<op, flagRequests>> /\ overlap \subseteq overlap'
      /\ \A q \in Requests : pc[q] \in Finished \cup {"updateRequests"} => pc'[q] = pc[q]
      /\ \A q \in Requests : pc'[q] = "createRequest" => pc[q] = "createRequest"
  BY <1>0 DEF FindRequest, ReadProfile, SaveCategory, CreateItem, WritesItem, ToggleActive,
     ToggleActiveAll, UpdateItem, DeleteItem, ReadMark, SaveMark, DeleteProfile,
     DeleteItemByProfile, Starts, Steps, Goto, Meets, moderation, Finished
<1>2. ASSUME NEW p PROVE NotFlagged(p)' => NotFlagged(p)
  <2>1. CASE UNCHANGED profile
    BY <2>1 DEF NotFlagged
  <2>2. CASE SaveCategory(r) \/ SaveMark(r)
    <3>1. \/ profile' = profile
          \/ profile' = [profile EXCEPT ![op[r].profile] = [@ EXCEPT !.category = op[r].category]]
          \/ profile' = [profile EXCEPT ![op[r].profile] =
                            [@ EXCEPT !.favorite = MarkAfter(mark[r])]]
      BY <2>2 DEF SaveCategory, SaveMark, Write, Saved
    <3>2. QED
      BY <3>1 DEF NotFlagged, ModerationInv, ModerationTypeOK, Profile
  <2>3. CASE DeleteProfile(r)
    BY <2>3 DEF DeleteProfile, NotFlagged
  <2>4. QED
    BY <2>1, <2>2, <2>3 DEF FindRequest, ReadProfile, CreateItem, WritesItem, ToggleActive,
       ToggleActiveAll, UpdateItem, DeleteItem, ReadMark, DeleteItemByProfile, moderation
<1>3. QED
  BY <1>1, <1>2, PendingFrame DEF Finished

\* A step that flags the profile of its request.
LEMMA FlagWrites ==
  ASSUME ModerationInv, NEW r \in Requests, NEW flag,
         \/ profile' = [profile EXCEPT ![op[r].profile] = [@ EXCEPT !.flag = flag]]
         \/ profile' = profile /\ op[r].profile \notin DOMAIN profile
  PROVE  /\ DOMAIN profile' = DOMAIN profile
         /\ \A p : p # op[r].profile /\ NotFlagged(p)' => NotFlagged(p)
         /\ flag = "pending" => \A p : NotFlagged(p)' => NotFlagged(p) /\ p # op[r].profile
BY DEF NotFlagged, ModerationInv, ModerationTypeOK, Profile

LEMMA PendingModeration ==
  ASSUME HandlersInv, ModerationInv, PendingInv, NEW r \in Requests, ModerationStep(r)
  PROVE  PendingInv'
<1>0. pc \in [Requests -> Step] /\ op \in Workloads
  BY DEF HandlersInv
<1>1. CASE FlagPending(r)
  <2>1. /\ UNCHANGED <<op, overlap, flagRequests>>
        /\ \A q \in Requests \ {r} : pc'[q] = pc[q]
        /\ pc[r] = "flagPending" /\ pc'[r] \in {"createRequest", "failed"}
        /\ \A p : NotFlagged(p)' => NotFlagged(p) /\ p # op[r].profile
    <3>1. \/ profile' = [profile EXCEPT ![op[r].profile] = [@ EXCEPT !.flag = "pending"]]
          \/ profile' = profile /\ op[r].profile \notin DOMAIN profile
      BY <1>1 DEF FlagPending, Write, Flagged, Exists
    <3>2. \A p : NotFlagged(p)' => NotFlagged(p) /\ p # op[r].profile
      BY <3>1, FlagWrites
    <3>3. QED
      BY <1>0, <1>1, <3>2 DEF FlagPending, Steps, Goto
  <2>2. /\ \A p, by : Excused(p, by) => Excused(p, by)'
        /\ \A p : Undecided(p) => Undecided(p)'
    BY <2>1, ExcusedStays, UndecidedStays DEF Finished
  <2>3. QED
    BY <2>1, <2>2 DEF PendingInv, StoredInv, StoringInv
<1>2. CASE CreateRequest(r)
  <2>1. /\ UNCHANGED <<op, overlap, profile>>
        /\ \A q \in Requests \ {r} : pc'[q] = pc[q]
        /\ pc[r] = "createRequest" /\ pc'[r] = "done"
        /\ flagRequests' = flagRequests \cup
             {[by |-> r, profile |-> op[r].profile, status |-> "pending"]}
    BY <1>0, <1>2 DEF CreateRequest, Steps, Goto
  <2>2. /\ \A p, by : Excused(p, by) => Excused(p, by)'
        /\ \A p : Undecided(p) => Undecided(p)'
        /\ \A p : NotFlagged(p)' => NotFlagged(p)
    BY <2>1, ExcusedStays, UndecidedStays DEF Finished, NotFlagged
  <2>3. QED
    BY <2>1, <2>2 DEF PendingInv, StoredInv, StoringInv
<1>3. CASE Decide(r)
  <2>1. /\ UNCHANGED <<op, flagRequests>> /\ op[r].kind = "decide"
        /\ \A q \in Requests \ {r} : pc'[q] = pc[q]
        /\ pc[r] = "idle"
        /\ pc'[r] = IF op[r].profile \in DOMAIN profile THEN "updateRequests" ELSE "failed"
        /\ overlap' = overlap \cup {{r, q} : q \in {p \in Requests : Running(p)}}
        /\ DOMAIN profile' = DOMAIN profile
        /\ \A p : p # op[r].profile /\ NotFlagged(p)' => NotFlagged(p)
    <3>1. \/ profile' = [profile EXCEPT ![op[r].profile] = [@ EXCEPT !.flag = op[r].status]]
          \/ profile' = profile /\ op[r].profile \notin DOMAIN profile
      BY <1>3 DEF Decide, Write, Flagged, Exists
    <3>2. /\ DOMAIN profile' = DOMAIN profile
          /\ \A p : p # op[r].profile /\ NotFlagged(p)' => NotFlagged(p)
      BY <3>1, FlagWrites
    <3>3. /\ pc' = [pc EXCEPT ![r] =
                      IF op[r].profile \in DOMAIN profile THEN "updateRequests" ELSE "failed"]
          /\ UNCHANGED <<op, flagRequests>> /\ op[r].kind = "decide" /\ pc[r] = "idle"
          /\ overlap' = overlap \cup {{r, q} : q \in {p \in Requests : Running(p)}}
      BY <1>3 DEF Decide, Starts, Meets, Goto, Exists
    <3>4. QED
      BY <1>0, <3>2, <3>3
  <2>2. /\ \A p, by : Excused(p, by) => Excused(p, by)'
        /\ \A p : Undecided(p) => Undecided(p)'
    BY <2>1, ExcusedStays, UndecidedStays DEF Finished
  <2>3. NotFlagged(op[r].profile)' => Undecided(op[r].profile)'
    BY <2>1 DEF NotFlagged, Undecided, Of
  <2>4. \A q \in Requests : pc[q] = "createRequest" => Excused(op[r].profile, q)'
    BY <2>1 DEF Excused, Of, Overlapped, Running, Finished
  <2>5. QED
    BY <2>1, <2>2, <2>3, <2>4 DEF PendingInv, StoredInv, StoringInv
<1>4. CASE UpdateRequests(r)
  <2>1. /\ UNCHANGED <<op, overlap, profile>>
        /\ \A q \in Requests \ {r} : pc'[q] = pc[q]
        /\ pc[r] = "updateRequests" /\ pc'[r] = "done"
    BY <1>0, <1>4 DEF UpdateRequests, Steps, Goto
  <2>2. op[r].status # "pending"
    BY <1>0, <2>1, ModerationAssumption DEF ModerationInv
  <2>3. \A q \in flagRequests' : q.status # "pending"
    BY <1>4, <2>2 DEF UpdateRequests, Decided, ModerationInv, ModerationTypeOK, FlagRequest
  <2>4. /\ \A p, by : Excused(p, by) => Excused(p, by)'
        /\ \A p : NotFlagged(p)' => NotFlagged(p)
    BY <2>1, ExcusedStays DEF Finished, NotFlagged
  <2>5. QED
    BY <2>1, <2>3, <2>4 DEF PendingInv, StoredInv, StoringInv
<1>5. CASE Resubmit(r)
  <2>1. /\ UNCHANGED <<op, flagRequests>> /\ op[r].kind = "resubmit"
        /\ \A q \in Requests \ {r} : pc'[q] = pc[q]
        /\ pc[r] = "idle" /\ overlap \subseteq overlap'
        /\ pc'[r] = IF op[r].profile \in DOMAIN profile THEN "done" ELSE "failed"
        /\ DOMAIN profile' = DOMAIN profile
        /\ \A p : p # op[r].profile /\ NotFlagged(p)' => NotFlagged(p)
    <3>1. \/ profile' = [profile EXCEPT ![op[r].profile] = [@ EXCEPT !.flag = "submitted"]]
          \/ profile' = profile /\ op[r].profile \notin DOMAIN profile
      BY <1>5 DEF Resubmit, Write, Flagged, Exists
    <3>2. /\ DOMAIN profile' = DOMAIN profile
          /\ \A p : p # op[r].profile /\ NotFlagged(p)' => NotFlagged(p)
      BY <3>1, FlagWrites
    <3>3. /\ pc' = [pc EXCEPT ![r] = IF op[r].profile \in DOMAIN profile THEN "done" ELSE "failed"]
          /\ UNCHANGED <<op, flagRequests>> /\ op[r].kind = "resubmit" /\ pc[r] = "idle"
          /\ overlap' = overlap \cup {{r, q} : q \in {p \in Requests : Running(p)}}
      BY <1>5 DEF Resubmit, Starts, Meets, Goto, Exists
    <3>4. QED
      BY <1>0, <3>2, <3>3
  <2>2. /\ \A p, by : Excused(p, by) => Excused(p, by)'
        /\ \A p : Undecided(p) => Undecided(p)'
    BY <2>1, ExcusedStays, UndecidedStays DEF Finished
  <2>3. NotFlagged(op[r].profile)' => \A by : Excused(op[r].profile, by)'
    BY <2>1 DEF NotFlagged, Excused, Of
  <2>4. QED
    BY <2>1, <2>2, <2>3 DEF PendingInv, StoredInv, StoringInv
<1>6. QED
  BY <1>1, <1>2, <1>3, <1>4, <1>5, PendingQuiet DEF ModerationStep

LEMMA PendingStepInv == HandlersInv /\ ModerationInv /\ PendingInv /\ [Next]_vars => PendingInv'
<1> SUFFICES ASSUME HandlersInv, ModerationInv, PendingInv, [Next]_vars PROVE PendingInv'
  OBVIOUS
<1>1. CASE \E r \in Requests : Moderate(r)
  BY <1>1, PendingModeration DEF Moderate
<1>2. CASE ~\E r \in Requests : Moderate(r)
  <2>1. /\ UNCHANGED <<op, profile, flagRequests>> /\ overlap \subseteq overlap'
        /\ \A q \in Requests : pc[q] \in Finished => pc'[q] = pc[q]
        /\ \A q \in Requests : pc'[q] = "createRequest" => pc[q] = "createRequest"
        /\ \A q \in Requests : pc[q] \in {"updateRequests", "broken"}
                                 => pc'[q] \in {"updateRequests", "broken"}
    BY <1>2, OtherParts DEF ModerationSteps, Finished, moderation
  <2>2. QED
    BY <2>1, PendingFrame DEF NotFlagged
<1>3. QED
  BY <1>1, <1>2

\* A request is pending with its profile not flagged pending only after the owner
\* resubmitted, or because of a decision that is between its two writes, broke
\* there, or overlapped the request.
THEOREM PendingFlagged == Spec => []PendingIsFlagged
<1>1. Init => PendingInv
  BY DEF Init, HandlersInit, ModerationInit, PendingInv, StoredInv, StoringInv
<1>2. PendingInv => PendingIsFlagged
  BY DEF PendingInv, StoredInv, NotFlagged, Excused, Undecided, PendingIsFlagged
<1>3. QED
  BY <1>1, <1>2, HandlersInitInv, HandlersStepInv, ModerationInitInv, ModerationStepInv,
     PendingStepInv, PTL DEF Spec
-----------------------------------------------------------------------------
(* Profiles and their items.                                               *)

\* A request that has begun set the category of the profile to c, or is to.
SetTo(p, c) == \E r \in Of("setCategory", p) : pc[r] # "idle" /\ op[r].category = c

Making(p) == \E r \in Of("setCategory", p) : pc[r] \in {"createItem", "broken"}

HasCategory(p) == p \in DOMAIN profile /\ profile[p].category # NoCategory

\* An administrator deleted the item, or wrote its category.
Deleted(p) ==
  \E r \in Requests : op[r].kind = "deleteItem" /\ op[r].item = p /\ pc[r] = "done"

Rewritten(p) ==
  \E r \in Requests : /\ op[r].kind = "updateItem" /\ op[r].item = p
                      /\ "category" \in op[r].sets /\ pc[r] # "idle"

ItemsInv ==
  /\ \A p : HasCategory(p) =>
       /\ p \in DOMAIN item \/ Making(p) \/ Deleted(p)
       /\ SetTo(p, profile[p].category)
  /\ \A p \in DOMAIN profile \cap DOMAIN item :
       HasCategory(p) /\ (SetTo(p, item[p].category) \/ Rewritten(p))
  /\ \A r \in Requests : pc[r] = "createItem" /\ Exists(r) => HasCategory(op[r].profile)

LEMMA BegunStays ==
  ASSUME HandlersInv, [Next]_vars, NEW q \in Requests, pc[q] # "idle"
  PROVE  pc'[q] # "idle"
<1>1. ASSUME NEW r \in Requests, NEW kinds, NEW steps, "idle" \notin steps, StepOf(r, kinds, steps)
      PROVE  pc'[q] # "idle"
  BY <1>1 DEF StepOf, HandlersInv, Finished
<1>2. "idle" \notin ModerationSteps \cup FavoriteSteps \cup ListingSteps \cup RetentionSteps
  BY DEF ModerationSteps, FavoriteSteps, ListingSteps, RetentionSteps
<1>3. CASE \E r \in Requests : Moderate(r) \/ Favor(r) \/ List(r) \/ Retain(r)
  BY <1>1, <1>2, <1>3, ModerationStepOf, FavoriteStepOf, ListingStepOf, RetentionStepOf
  DEF Moderate, Favor, List, Retain
<1>4. CASE Breaking
  BY <1>4 DEF Breaking, HandlersInv
<1>5. CASE UNCHANGED handlers
  BY <1>5 DEF handlers
<1>6. QED
  BY <1>3, <1>4, <1>5, NextCases DEF Pass, Tick, Midnight

\* Steps that set no profile's category and make no item.
LEMMA ItemsFrame ==
  ASSUME ItemsInv, op' = op,
         DOMAIN profile' \subseteq DOMAIN profile, DOMAIN item' \subseteq DOMAIN item,
         \A p \in DOMAIN item : p \in DOMAIN item' \/ Deleted(p)',
         \A p \in DOMAIN profile' : profile'[p].category = profile[p].category,
         \A p \in DOMAIN item' : item'[p].category = item[p].category \/ Rewritten(p)',
         \A q \in Requests : pc[q] # "idle" => pc'[q] # "idle",
         \A q \in Requests : pc'[q] = "createItem" => pc[q] = "createItem",
         \A q \in Requests : pc[q] \in {"createItem", "broken"}
                 => pc'[q] \in {"createItem", "broken"},
         \A q \in Requests : pc[q] = "done" => pc'[q] = "done"
  PROVE  ItemsInv'
<1>1. /\ \A p, c : SetTo(p, c) => SetTo(p, c)'
      /\ \A p : Making(p) => Making(p)'
      /\ \A p : Deleted(p) => Deleted(p)'
      /\ \A p : Rewritten(p) => Rewritten(p)'
  BY DEF SetTo, Making, Deleted, Rewritten, Of
<1>2. \A p \in DOMAIN profile' : HasCategory(p)' <=> HasCategory(p)
  BY DEF HasCategory
<1>3. QED
  BY <1>1, <1>2 DEF ItemsInv, HasCategory, Exists

\* What those requests leave of the items.
LEMMA AdministeredItem ==
  ASSUME HandlersInv, ModerationInv, NEW r \in Requests, AdministersItem(r)
  PROVE  /\ DOMAIN item' \subseteq DOMAIN item
         /\ \A p \in DOMAIN item : p \in DOMAIN item' \/ Deleted(p)'
         /\ \A p \in DOMAIN item' : item'[p].category = item[p].category \/ Rewritten(p)'
<1>1. /\ pc \in [Requests -> Step] /\ item \in [DOMAIN item -> Item]
  BY DEF HandlersInv, ModerationInv, ModerationTypeOK
<1>2. CASE item' = item
  BY <1>2
<1>3. CASE op[r].item \in DOMAIN item /\ ToggleActive(r)
  <2>1. item' = [item EXCEPT ![op[r].item] = [@ EXCEPT !.active = op[r].active]]
    BY <1>3 DEF ToggleActive, WritesItem
  <2>2. QED
    BY <1>1, <2>1 DEF Item
<1>4. CASE ToggleActiveAll(r)
  BY <1>1, <1>4 DEF ToggleActiveAll, Item
<1>5. CASE op[r].item \in DOMAIN item /\ UpdateItem(r)
  <2>1. /\ item' = [item EXCEPT ![op[r].item] = Updated(@, op[r])] /\ op' = op
        /\ op[r].kind = "updateItem" /\ pc'[r] # "idle"
    BY <1>1, <1>5 DEF UpdateItem, WritesItem, Starts, Goto
  <2>2. "category" \in op[r].sets => Rewritten(op[r].item)'
    BY <2>1 DEF Rewritten
  <2>3. "category" \notin op[r].sets
          => Updated(item[op[r].item], op[r]).category = item[op[r].item].category
    BY DEF Updated
  <2>4. QED
    BY <1>1, <2>1, <2>2, <2>3
<1>6. CASE op[r].item \in DOMAIN item /\ DeleteItem(r)
  <2>1. /\ op[r].kind = "deleteItem" /\ pc'[r] = "done" /\ op' = op
        /\ item' = [i \in DOMAIN item \ {op[r].item} |-> item[i]]
    BY <1>1, <1>6 DEF DeleteItem, WritesItem, Starts, Goto
  <2>2. Deleted(op[r].item)'
    BY <2>1 DEF Deleted
  <2>3. QED
    BY <2>1, <2>2
<1>7. QED
  BY <1>2, <1>3, <1>4, <1>5, <1>6
  DEF AdministersItem, ToggleActive, UpdateItem, DeleteItem, WritesItem, moderation

LEMMA ItemsModeration ==
  ASSUME HandlersInv, ModerationInv, ItemsInv, [Next]_vars, NEW r \in Requests, ModerationStep(r)
  PROVE  ItemsInv'
<1>0. pc \in [Requests -> Step] /\ op \in Workloads /\ profile \in [DOMAIN profile -> Profile]
      /\ item \in [DOMAIN item -> Item] /\ op' = op
      /\ \A q \in Requests : pc[q] # "idle" => pc'[q] # "idle"
  BY BegunStays, ModerationStepOf DEF HandlersInv, ModerationInv, ModerationTypeOK, StepOf
<1>1. CASE ~(SaveCategory(r) \/ CreateItem(r))
  <2>1. /\ \A q \in Requests : pc'[q] = "createItem" => pc[q] = "createItem"
        /\ \A q \in Requests : pc[q] \in {"createItem", "broken", "done"} => pc'[q] = pc[q]
    BY <1>0, <1>1 DEF ModerationStep, FindRequest, FlagPending, CreateRequest, Decide,
       UpdateRequests, Resubmit, ReadProfile, WritesItem, ToggleActive, ToggleActiveAll,
       UpdateItem, DeleteItem, ReadMark, SaveMark, DeleteProfile, DeleteItemByProfile, Starts,
       Steps, Goto
  <2>2. \/ profile' = profile
        \/ profile' = [profile EXCEPT ![op[r].profile] = [@ EXCEPT !.flag = "pending"]]
        \/ profile' = [profile EXCEPT ![op[r].profile] = [@ EXCEPT !.flag = "submitted"]]
        \/ profile' = [profile EXCEPT ![op[r].profile] = [@ EXCEPT !.flag = op[r].status]]
        \/ profile' = [profile EXCEPT ![op[r].profile] = [@ EXCEPT !.favorite = MarkAfter(mark[r])]]
        \/ profile' = [p \in DOMAIN profile \ {op[r].profile} |-> profile[p]]
    BY <1>1 DEF ModerationStep, FindRequest, FlagPending, CreateRequest, Decide, UpdateRequests,
       Resubmit, ReadProfile, WritesItem, ToggleActive, ToggleActiveAll, UpdateItem, DeleteItem,
       ReadMark, SaveMark, DeleteProfile, DeleteItemByProfile, Write, Flagged, moderation
  <2>3. /\ DOMAIN profile' \subseteq DOMAIN profile
        /\ \A p \in DOMAIN profile' : profile'[p].category = profile[p].category
    BY <1>0, <2>2 DEF Profile
  <2>4. CASE item' = item
    BY <1>0, <2>1, <2>3, <2>4, ItemsFrame
  <2>5. CASE AdministersItem(r)
    BY <1>0, <2>1, <2>3, <2>5, AdministeredItem, ItemsFrame
  <2>6. QED
    BY <1>1, <2>4, <2>5 DEF ModerationStep, FindRequest, FlagPending, CreateRequest, Decide,
       UpdateRequests, Resubmit, ReadProfile, AdministersItem, ReadMark, SaveMark, DeleteProfile,
       DeleteItemByProfile, moderation
<1>2. CASE SaveCategory(r)
  <2>1. /\ item' = item /\ pc[r] = "saveCategory"
        /\ pc' = [pc EXCEPT ![r] = IF Exists(r) THEN "createItem" ELSE "failed"]
        /\ \/ profile' = [profile EXCEPT ![op[r].profile] = [@ EXCEPT !.category = op[r].category]]
           \/ profile' = profile /\ ~Exists(r)
    BY <1>2 DEF SaveCategory, Steps, Goto, Write, Saved
  <2>2. /\ op[r].kind = "setCategory" /\ op[r].category # NoCategory
    BY <1>0, <2>1, ModerationAssumption DEF ModerationInv
  <2>3. /\ \A p, c : SetTo(p, c) => SetTo(p, c)'
        /\ \A p : Making(p) => Making(p)'
        /\ \A p : (Deleted(p) => Deleted(p)') /\ (Rewritten(p) => Rewritten(p)')
        /\ SetTo(op[r].profile, op[r].category)'
        /\ Exists(r) => Making(op[r].profile)'
    BY <1>0, <2>1, <2>2 DEF SetTo, Making, Deleted, Rewritten, Of
  <2>4. /\ DOMAIN profile' = DOMAIN profile
        /\ \A p \in DOMAIN profile : p # op[r].profile => profile'[p].category = profile[p].category
        /\ Exists(r) => profile'[op[r].profile].category = op[r].category
    BY <1>0, <2>1 DEF Exists, Profile
  <2>5. \A p : HasCategory(p) => HasCategory(p)'
    BY <2>2, <2>4 DEF HasCategory, Exists
  <2>6. \A p : HasCategory(p)' => \/ HasCategory(p) /\ p # op[r].profile
                                  \/ Exists(r) /\ p = op[r].profile
    BY <2>4 DEF HasCategory, Exists
  <2>7. \A q \in Requests : pc'[q] = "createItem" /\ Exists(q)' => HasCategory(op[q].profile)'
    BY <1>0, <2>1, <2>2, <2>4, <2>5 DEF ItemsInv, HasCategory, Exists
  <2>8. QED
    BY <1>0, <2>1, <2>3, <2>4, <2>5, <2>6, <2>7 DEF ItemsInv, HasCategory
<1>3. CASE CreateItem(r)
  <2>1. /\ profile' = profile /\ pc[r] = "createItem"
        /\ \E s \in {"done", "failed"} : pc' = [pc EXCEPT ![r] = s]
        /\ op[r].profile \in DOMAIN item'
        /\ DOMAIN item' = DOMAIN item \cup {op[r].profile}
        /\ \A p \in DOMAIN item : item'[p] = item[p]
        /\ op[r].profile \notin DOMAIN item => item'[op[r].profile].category = op[r].category
    BY <1>3 DEF CreateItem, Steps, Goto, NewItem, moderation
  <2>2. op[r].kind = "setCategory"
    BY <2>1 DEF ModerationInv
  <2>3. /\ \A p, c : SetTo(p, c) => SetTo(p, c)'
        /\ \A p : Making(p) => Making(p)' \/ p = op[r].profile
        /\ \A p : (Deleted(p) => Deleted(p)') /\ (Rewritten(p) => Rewritten(p)')
        /\ SetTo(op[r].profile, op[r].category)'
    BY <1>0, <2>1, <2>2 DEF SetTo, Making, Deleted, Rewritten, Of
  <2>4. \A p : HasCategory(p)' <=> HasCategory(p)
    BY <2>1 DEF HasCategory
  <2>5. \A q \in Requests : pc'[q] = "createItem" /\ Exists(q)' => HasCategory(op[q].profile)'
    BY <1>0, <2>1, <2>4 DEF ItemsInv, Exists
  <2>6. ASSUME NEW p \in DOMAIN profile' \cap DOMAIN item'
        PROVE  HasCategory(p)' /\ (SetTo(p, item[p].category)' \/ Rewritten(p)')
    <3>1. CASE p \in DOMAIN item
      BY <2>1, <2>3, <2>4, <2>6, <3>1 DEF ItemsInv
    <3>2. CASE p \notin DOMAIN item
      <4>1. p = op[r].profile /\ HasCategory(p) /\ item'[p].category = op[r].category
        BY <2>1, <2>6, <3>2 DEF ItemsInv, Exists
      <4>2. op'[r].kind = "setCategory" /\ op'[r].profile = p /\ pc'[r] # "idle"
        BY <1>0, <2>1, <2>2, <4>1
      <4>3. SetTo(p, item[p].category)'
        BY <1>0, <4>1, <4>2 DEF SetTo, Of
      <4>4. QED
        BY <2>4, <4>1, <4>3
    <3>3. QED
      BY <3>1, <3>2
  <2>7. QED
    BY <1>0, <2>1, <2>3, <2>4, <2>5, <2>6 DEF ItemsInv
<1>4. QED
  BY <1>1, <1>2, <1>3

LEMMA ItemsStepInv == HandlersInv /\ ModerationInv /\ ItemsInv /\ [Next]_vars => ItemsInv'
<1> SUFFICES ASSUME HandlersInv, ModerationInv, ItemsInv, [Next]_vars PROVE ItemsInv'
  OBVIOUS
<1>1. CASE \E r \in Requests : Moderate(r)
  BY <1>1, ItemsModeration DEF Moderate
<1>2. CASE ~\E r \in Requests : Moderate(r)
  <2>1. /\ UNCHANGED <<op, profile, item>>
        /\ \A q \in Requests : pc'[q] = "createItem" => pc[q] = "createItem"
        /\ \A q \in Requests : pc[q] \in {"createItem", "broken"}
                => pc'[q] \in {"createItem", "broken"}
        /\ \A q \in Requests : pc[q] = "done" => pc'[q] = "done"
    BY <1>2, OtherParts DEF ModerationSteps, Finished, moderation
  <2>2. QED
    BY <2>1, ItemsFrame, BegunStays
<1>3. QED
  BY <1>1, <1>2

LEMMA ItemsInitInv == Init => ItemsInv
BY ModerationAssumption DEF Init, HandlersInit, ModerationInit, ItemsInv, HasCategory, Exists

\* A profile with a category has its item, unless a request that sets it is at it
\* or broke, or an administrator deleted the item; the two are of different
\* categories only after two requests to set it, or after an administrator wrote
\* the item's.
THEOREM ItemsFollowProfiles == Spec => []ItemFollowsProfile
<1>1. ItemsInv => ItemFollowsProfile
  <2> SUFFICES ASSUME ItemsInv, NEW p \in DOMAIN profile
               PROVE  /\ profile[p].category # NoCategory =>
                            p \in DOMAIN item \/ Making(p) \/ Deleted(p)
                      /\ p \in DOMAIN item /\ item[p].category # profile[p].category =>
                            \/ \E r, q \in Of("setCategory", p) :
                                 r # q /\ {pc[r], pc[q]} \cap {"idle"} = {}
                            \/ Rewritten(p)
    BY DEF ItemFollowsProfile, Making, Deleted, Rewritten
  <2>1. profile[p].category # NoCategory => p \in DOMAIN item \/ Making(p) \/ Deleted(p)
    BY DEF ItemsInv, HasCategory
  <2>2. ASSUME p \in DOMAIN item, item[p].category # profile[p].category, ~Rewritten(p)
        PROVE  \E r, q \in Of("setCategory", p) : r # q /\ {pc[r], pc[q]} \cap {"idle"} = {}
    <3>1. SetTo(p, profile[p].category) /\ SetTo(p, item[p].category)
      BY <2>2 DEF ItemsInv
    <3>2. QED
      BY <2>2, <3>1 DEF SetTo
  <2>3. QED
    BY <2>1, <2>2
<1>2. QED
  BY <1>1, HandlersInitInv, HandlersStepInv, ModerationInitInv, ModerationStepInv, ItemsInitInv,
     ItemsStepInv, PTL DEF Spec
-----------------------------------------------------------------------------
(* Snapshots.                                                              *)

\* The administrator's deletions that ran while a clean-up did.
DeletedBeside(r) == {d \in Requests : op[d].kind = "deleteAfter" /\ Overlapped(r, d)}

\* An item a clean-up has chosen has a snapshot it will leave.
Leaves(r, i) == \E s \in OfItem(i) : s.date >= Limit(r)

\* The third part compares clean-ups of two nights: the one of the earlier night
\* began first, and so met whatever the other one did.
RetentionInv ==
  /\ chosen \in [Requests -> SUBSET SnapshotItems]
  /\ today \in Nat /\ \A s \in snapshots : s.date \in Int
  /\ \A r \in Requests : pc[r] = "deleteOld" =>
       op[r].day <= today /\ (DeletedBeside(r) # {} \/ \A i \in chosen[r] : Leaves(r, i))
  /\ \A r, q \in Requests :
       pc[r] = "deleteOld" /\ pc[q] = "deleteOld" /\ op[r].day < op[q].day
       => DeletedBeside(q) \subseteq DeletedBeside(r)

\* The day a clean-up began is a number, and so is the limit it goes by.
LEMMA Days ==
  ASSUME HandlersInv, NEW r \in Requests, op[r].kind = "cleanUp"
  PROVE  op[r].day \in Nat /\ Limit(r) \in Int /\ Limit(r) = op[r].day - KeepDays
BY RetentionAssumption DEF HandlersInv, Limit

\* A deletion after a date is one query: no request that begins meets one.
LEMMA NoneUnderWay ==
  ASSUME HandlersInv, NEW d \in Requests, op[d].kind = "deleteAfter"
  PROVE  ~Running(d)
<1>1. /\ pc[d] \in Step
      /\ "deleteAfter" \notin ModerationKinds \cup ListingKinds \cup {"favor", "cleanUp"}
  BY DEF HandlersInv, ModerationKinds, ListingKinds
<1>2. pc[d] \in {"idle"} \cup Finished
  BY <1>1 DEF HandlersInv, Step
<1>3. QED
  BY <1>2 DEF Running

LEMMA SameDeletions ==
  ASSUME HandlersInv, NEW r \in Requests, op[r].kind # "deleteAfter", op' = op,
         overlap' = overlap \/ Meets(r)
  PROVE  \A q \in Requests : DeletedBeside(q)' = DeletedBeside(q)
<1>1. ASSUME NEW q \in Requests, NEW d \in Requests, op[d].kind = "deleteAfter"
      PROVE  Overlapped(q, d)' <=> Overlapped(q, d)
  <2>1. CASE overlap' = overlap
    BY <2>1 DEF Overlapped
  <2>2. CASE Meets(r)
    <3>1. ASSUME {q, d} \notin overlap, NEW p \in Requests, Running(p), {q, d} = {r, p} PROVE FALSE
      <4>1. d = r \/ d = p
        BY <3>1
      <4>2. QED
        BY <1>1, <3>1, <4>1, NoneUnderWay
    <3>2. QED
      BY <2>2, <3>1 DEF Meets, Overlapped
  <2>3. QED
    BY <2>1, <2>2
<1>2. QED
  BY <1>1 DEF DeletedBeside

\* Steps that delete nothing and begin no clean-up; a day may end.
LEMMA RetentionFrame ==
  ASSUME RetentionInv, UNCHANGED <<op, chosen>>, snapshots \subseteq snapshots',
         \A s \in snapshots' : s.date \in Int, today' \in {today, today + 1},
         HandlersInv,
         \A q \in Requests : pc'[q] = "deleteOld" => pc[q] = "deleteOld",
         \A q \in Requests : DeletedBeside(q)' = DeletedBeside(q)
  PROVE  RetentionInv'
<1>1. \A r, i : Leaves(r, i) => Leaves(r, i)'
  BY DEF Leaves, OfItem, Limit
<1>2. \A r \in Requests : pc[r] = "deleteOld" => op[r].day \in Nat
  BY Days DEF HandlersInv, RetentionSteps
<1>3. QED
  BY <1>1, <1>2 DEF RetentionInv

LEMMA RetentionOwnSteps ==
  ASSUME HandlersInv, RetentionInv, NEW r \in Requests, RetentionStep(r)
  PROVE  RetentionInv'
<1>0. /\ pc \in [Requests -> Step]
      /\ \A q \in Requests : pc[q] = "deleteOld" =>
           op[q].kind = "cleanUp" /\ op[q].day \in Nat /\ Limit(q) \in Int
                                 /\ Limit(q) = op[q].day - KeepDays
  BY Days DEF HandlersInv, RetentionSteps
<1>1. CASE TakeSnapshot(r)
  <2>1. /\ UNCHANGED <<op, chosen, today>> /\ snapshots \subseteq snapshots' /\ Meets(r)
        /\ op[r].kind = "snapshot" /\ \A s \in snapshots' : s.date \in Int
        /\ \A q \in Requests : pc'[q] = "deleteOld" => pc[q] = "deleteOld"
    BY <1>0, <1>1 DEF TakeSnapshot, Starts, Goto, RetentionInv
  <2>2. QED
    BY <2>1, SameDeletions, RetentionFrame
<1>2. CASE FindItems(r)
  <2>1. /\ UNCHANGED <<op, snapshots, today>> /\ Meets(r) /\ pc[r] = "idle"
        /\ op[r].kind = "cleanUp" /\ op[r].day = today
        /\ \A q \in Requests \ {r} : pc'[q] = pc[q]
        /\ chosen' = [chosen EXCEPT ![r] = Clean(Limit(r))]
    BY <1>0, <1>2 DEF FindItems, Starts, Goto
  <2>2. /\ \A q \in Requests \ {r} : chosen'[q] = chosen[q]
        /\ \A i \in chosen'[r] : Leaves(r, i)
        /\ chosen' \in [Requests -> SUBSET SnapshotItems]
    BY <2>1 DEF Clean, Leaves, RetentionInv
  <2>3. \A q \in Requests : DeletedBeside(q)' = DeletedBeside(q)
    BY <2>1, SameDeletions
  <2>4. DeletedBeside(r) = {}
    BY <2>1 DEF HandlersInv, DeletedBeside, Overlapped
  <2>5. \A q, i : Leaves(q, i)' <=> Leaves(q, i)
    BY <2>1 DEF Leaves, OfItem, Limit
  <2>6. QED
    BY <1>0, <2>1, <2>2, <2>3, <2>4, <2>5 DEF RetentionInv
<1>3. CASE DeleteOld(r)
  <2>1. /\ UNCHANGED <<op, overlap, today, chosen>> /\ pc[r] = "deleteOld"
        /\ \A q \in Requests : pc'[q] = "deleteOld" => q # r /\ pc[q] = "deleteOld"
        /\ snapshots' = {s \in snapshots : s.item \notin chosen[r] \/ s.date >= Limit(r)}
    BY <1>0, <1>3 DEF DeleteOld, Steps, Goto
  <2>2. \A q \in Requests : DeletedBeside(q)' = DeletedBeside(q)
    BY <2>1 DEF DeletedBeside, Overlapped
  <2>3. ASSUME NEW q \in Requests, pc[q] = "deleteOld", DeletedBeside(q) = {}, NEW i \in chosen[q]
        PROVE  Leaves(q, i)'
    <3>1. PICK s \in snapshots : s.item = i /\ s.date >= Limit(q)
      BY <2>3 DEF RetentionInv, Leaves, OfItem
    <3>2. CASE i \notin chosen[r] \/ s.date >= Limit(r)
      BY <2>1, <3>1, <3>2 DEF Leaves, OfItem, Limit
    <3>3. CASE i \in chosen[r] /\ ~(s.date >= Limit(r))
      <4>1. Limit(q) < Limit(r) /\ op[q].day < op[r].day
        BY <1>0, <2>1, <2>3, <3>1, <3>3, RetentionAssumption DEF RetentionInv
      <4>2. DeletedBeside(r) = {}
        BY <2>1, <2>3, <4>1 DEF RetentionInv
      <4>3. PICK t \in snapshots : t.item = i /\ t.date >= Limit(r)
        BY <2>1, <3>3, <4>2 DEF RetentionInv, Leaves, OfItem
      <4>4. t.date >= Limit(q) /\ t \in snapshots'
        BY <1>0, <2>1, <2>3, <4>1, <4>3 DEF RetentionInv
      <4>5. QED
        BY <2>1, <4>3, <4>4 DEF Leaves, OfItem, Limit
    <3>4. QED
      BY <3>2, <3>3
  <2>4. QED
    BY <2>1, <2>2, <2>3 DEF RetentionInv
<1>4. CASE DeleteAfter(r)
  <2>1. /\ UNCHANGED <<op, today, chosen>> /\ Meets(r) /\ op[r].kind = "deleteAfter"
        /\ snapshots' \subseteq snapshots
        /\ \A q \in Requests : pc'[q] = "deleteOld" => q # r /\ pc[q] = "deleteOld"
    BY <1>0, <1>4 DEF DeleteAfter, Starts, Goto
  <2>2. ASSUME NEW q \in Requests, pc[q] = "deleteOld"
        PROVE  DeletedBeside(q)' = DeletedBeside(q) \cup {r}
    <3>1. Running(q) /\ Overlapped(q, r)'
      BY <2>1, <2>2 DEF Running, Finished, Meets, Overlapped
    <3>2. ASSUME NEW d \in Requests, d # r, op[d].kind = "deleteAfter", Overlapped(q, d)'
          PROVE  Overlapped(q, d)
      <4>1. ASSUME NEW p \in Requests, Running(p), {q, d} = {r, p} PROVE FALSE
        <5>1. d = p
          BY <3>2, <4>1
        <5>2. QED
          BY <3>2, <4>1, <5>1, NoneUnderWay
      <4>2. QED
        BY <2>1, <3>2, <4>1 DEF Meets, Overlapped
    <3>3. \A d : Overlapped(q, d) => Overlapped(q, d)'
      BY <2>1 DEF Meets, Overlapped
    <3>4. QED
      BY <2>1, <3>1, <3>2, <3>3 DEF DeletedBeside
  <2>3. QED
    BY <2>1, <2>2 DEF RetentionInv
<1>5. QED
  BY <1>1, <1>2, <1>3, <1>4 DEF RetentionStep

LEMMA RetentionStepInv == HandlersInv /\ RetentionInv /\ [Next]_vars => RetentionInv'
<1> SUFFICES ASSUME HandlersInv, RetentionInv, [Next]_vars PROVE RetentionInv'
  OBVIOUS
<1>1. ASSUME NEW r \in Requests, NEW kinds, NEW steps \in SUBSET Step,
             "idle" \notin steps, "deleteOld" \notin steps, "deleteAfter" \notin kinds,
             StepOf(r, kinds, steps), UNCHANGED retention
      PROVE  RetentionInv'
  <2>1. \A q \in Requests : pc'[q] = "deleteOld" => pc[q] = "deleteOld"
    BY <1>1, OtherSteps DEF Finished
  <2>2. \A q \in Requests : DeletedBeside(q)' = DeletedBeside(q)
    <3>1. CASE Meets(r) /\ op[r].kind \in kinds
      BY <1>1, <3>1, SameDeletions DEF StepOf
    <3>2. CASE overlap' = overlap
      BY <1>1, <3>2 DEF StepOf, DeletedBeside, Overlapped
    <3>3. QED
      BY <1>1, <3>1, <3>2 DEF StepOf
  <2>3. QED
    BY <1>1, <2>1, <2>2, RetentionFrame DEF StepOf, retention, RetentionInv
<1>2. /\ ModerationSteps \in SUBSET Step /\ FavoriteSteps \in SUBSET Step
      /\ ListingSteps \in SUBSET Step
      /\ (ModerationSteps \cup FavoriteSteps \cup ListingSteps) \cap {"idle", "deleteOld"} = {}
      /\ "deleteAfter" \notin ModerationKinds \cup FavoriteKinds \cup ListingKinds
  BY DEF Step, ModerationSteps, FavoriteSteps, ListingSteps, ModerationKinds, FavoriteKinds,
         ListingKinds
<1>3. ASSUME NEW r \in Requests, Moderate(r) PROVE RetentionInv'
  BY <1>1, <1>2, <1>3, ModerationStepOf DEF Moderate
<1>4. ASSUME NEW r \in Requests, Favor(r) PROVE RetentionInv'
  BY <1>1, <1>2, <1>4, FavoriteStepOf DEF Favor
<1>5. ASSUME NEW r \in Requests, List(r) PROVE RetentionInv'
  BY <1>1, <1>2, <1>5, ListingStepOf DEF List
<1>6. ASSUME NEW r \in Requests, Retain(r) PROVE RetentionInv'
  BY <1>6, RetentionOwnSteps DEF Retain
<1>7. ASSUME UNCHANGED <<op, overlap, snapshots, chosen>>, today' \in {today, today + 1},
             \A q \in Requests : pc'[q] = "deleteOld" => pc[q] = "deleteOld"
      PROVE  RetentionInv'
  <2>1. \A q \in Requests : DeletedBeside(q)' = DeletedBeside(q)
    BY <1>7 DEF DeletedBeside, Overlapped
  <2>2. QED
    BY <1>7, <2>1, RetentionFrame DEF RetentionInv
<1>8. CASE Pass
  BY <1>7, <1>8 DEF Pass, Tick, Midnight, retention, handlers
<1>9. CASE Breaking /\ UNCHANGED retention
  BY <1>7, <1>9 DEF Breaking, retention, HandlersInv
<1>10. CASE UNCHANGED <<handlers, retention>>
  BY <1>7, <1>10 DEF handlers, retention
<1>11. QED
  BY <1>3, <1>4, <1>5, <1>6, <1>8, <1>9, <1>10, NextCases

\* The clean-up takes an item's last snapshots of a category only while it has
\* newer ones of another category, or an administrator deleted those meanwhile:
\* also when the clean-ups of two nights overlap.
THEOREM RetentionKeeps == Spec => RetentionKeepsNewest
<1>1. Init => RetentionInv
  BY RetentionAssumption DEF Init, HandlersInit, RetentionInit, RetentionInv
<1>2. ASSUME HandlersInv, RetentionInv, [Next]_vars, NEW r \in Requests,
             pc[r] = "deleteOld", pc'[r] = "done", NEW i \in SnapshotItems,
             NEW c \in SnapshotCategories, Kept(i, c), ~Kept(i, c)'
      PROVE  \/ \E s \in OfItem(i)' : s.category # c /\ s.date >= Limit(r)
             \/ \E q \in Requests : op[q].kind = "deleteAfter" /\ Overlapped(r, q)
  <2>1. snapshots' # snapshots
    BY <1>2 DEF Kept
  <2>2. PICK q \in Requests : RetentionStep(q)
    BY <1>2, <2>1, NextCases DEF Moderate, Favor, List, Retain, Pass, Tick, Midnight, retention
  <2>3. q = r
    BY <1>2, <2>2, RetentionStepOf DEF StepOf, HandlersInv
  <2>4. /\ UNCHANGED <<op, chosen>>
        /\ snapshots' = {s \in snapshots : s.item \notin chosen[r] \/ s.date >= Limit(r)}
    BY <1>2, <2>2, <2>3 DEF RetentionStep, TakeSnapshot, FindItems, DeleteOld, DeleteAfter, Starts,
                            Steps
  <2>5. i \in chosen[r]
    BY <1>2, <2>4 DEF Kept
  <2>6. CASE DeletedBeside(r) # {}
    BY <2>6 DEF DeletedBeside
  <2>7. CASE DeletedBeside(r) = {}
    <3>1. PICK s \in snapshots : s.item = i /\ s.date >= Limit(r)
      BY <1>2, <2>5, <2>7 DEF RetentionInv, Leaves, OfItem
    <3>2. s \in snapshots' /\ s.category # c
      BY <1>2, <2>4, <3>1 DEF Kept
    <3>3. QED
      BY <3>1, <3>2 DEF OfItem
  <2>8. QED
    BY <2>6, <2>7
<1>3. HandlersInv /\ RetentionInv /\ [Next]_vars =>
        [\A r \in Requests :
           pc[r] = "deleteOld" /\ pc'[r] = "done" =>
             \A i \in SnapshotItems, c \in SnapshotCategories :
               Kept(i, c) /\ ~Kept(i, c)' =>
                 \/ \E s \in OfItem(i)' : s.category # c /\ s.date >= Limit(r)
                 \/ \E q \in Requests : op[q].kind = "deleteAfter" /\ Overlapped(r, q)]_retention
  BY <1>2
<1>4. QED
  BY <1>1, <1>3, HandlersInitInv, HandlersStepInv, RetentionStepInv, PTL
  DEF Spec, RetentionKeepsNewest
-----------------------------------------------------------------------------
(* The owner's mark.                                                       *)

Toggled(p) == {r \in Of("toggle", p) : pc[r] = "done"}

Crossed(p) == \E r, q \in Of("toggle", p) : r # q /\ Overlapped(r, q)

\* The mark of a profile whose toggles did not overlap counts them, and is what
\* the one under way has read.
MarkInv ==
  /\ \A r \in Requests :
       pc[r] \in ModerationSteps => (op[r].kind = "toggle" <=> pc[r] = "saveMark")
  /\ \A r, q \in Requests :
       r # q /\ pc[r] = "saveMark" /\ pc[q] = "saveMark" => Overlapped(r, q)
  /\ \A p \in Profiles : IsFiniteSet(Toggled(p))
  /\ \A p \in DOMAIN profile : ~Crossed(p) =>
       /\ profile[p].favorite <=> Cardinality(Toggled(p)) % 2 = 1
       /\ \A r \in Of("toggle", p) : pc[r] = "saveMark" => mark[r] = profile[p].favorite

\* Steps that begin, end and write no toggle.
LEMMA MarkFrame ==
  ASSUME HandlersInv, MarkInv, op' = op, overlap \subseteq overlap',
         DOMAIN profile' \subseteq DOMAIN profile, DOMAIN profile \subseteq Profiles,
         \A p \in DOMAIN profile' : profile'[p].favorite = profile[p].favorite,
         \A q \in Requests :
           pc'[q] \in ModerationSteps => (op[q].kind = "toggle" <=> pc'[q] = "saveMark"),
         \A q \in Requests : pc'[q] = "saveMark" => pc[q] = "saveMark" /\ mark'[q] = mark[q],
         \A q \in Requests : op[q].kind = "toggle" => (pc'[q] = "done" <=> pc[q] = "done")
  PROVE  MarkInv'
<1>1. \A p : Toggled(p)' = Toggled(p)
  BY DEF Toggled, Of
<1>2. \A p : Crossed(p) => Crossed(p)'
  BY DEF Crossed, Of, Overlapped
<1>3. ASSUME NEW p \in DOMAIN profile', ~Crossed(p)'
      PROVE  /\ profile'[p].favorite <=> Cardinality(Toggled(p)') % 2 = 1
             /\ \A r \in Of("toggle", p)' : pc'[r] = "saveMark" => mark'[r] = profile'[p].favorite
  BY <1>1, <1>2, <1>3 DEF MarkInv, Of
<1>4. QED
  BY <1>1, <1>3 DEF MarkInv, Overlapped

\* Two numbers that follow each other: one is odd.
LEMMA OddNext ==
  ASSUME NEW n \in Nat
  PROVE  (n + 1) % 2 = 1 <=> ~(n % 2 = 1)
OBVIOUS

LEMMA MarkModeration ==
  ASSUME HandlersInv, ModerationInv, MarkInv, NEW r \in Requests, ModerationStep(r)
  PROVE  MarkInv'
<1>0. /\ pc \in [Requests -> Step] /\ op \in Workloads /\ mark \in [Requests -> BOOLEAN]
      /\ profile \in [DOMAIN profile -> Profile] /\ DOMAIN profile \subseteq Profiles
      /\ op[r].profile \in Profiles
  BY ModerationAssumption DEF HandlersInv, ModerationInv, ModerationTypeOK
<1>1. CASE ~(ReadMark(r) \/ SaveMark(r))
  <2>1. op' = op /\ overlap \subseteq overlap' /\ mark' = mark
    BY <1>1 DEF ModerationStep, FindRequest, FlagPending, CreateRequest, Decide, UpdateRequests,
       Resubmit, ReadProfile, SaveCategory, CreateItem, WritesItem, ToggleActive,
       ToggleActiveAll, UpdateItem, DeleteItem, DeleteProfile, DeleteItemByProfile, Starts,
       Steps, Meets, moderation
  <2>2. \A q \in Requests \ {r} : pc'[q] = pc[q]
    BY <1>0, ModerationStepOf DEF StepOf
  <2>3. op[r].kind # "toggle" /\ pc'[r] # "saveMark"
    <3>1. op[r].kind # "toggle" \/ pc[r] \in ModerationSteps \ {"saveMark"}
      BY <1>1 DEF ModerationStep, FindRequest, FlagPending, CreateRequest, Decide,
         UpdateRequests, Resubmit, ReadProfile, SaveCategory, CreateItem, WritesItem,
         ToggleActive, ToggleActiveAll, UpdateItem, DeleteItem, DeleteProfile,
         DeleteItemByProfile, Starts, Steps, ModerationSteps
    <3>2. pc'[r] # "saveMark"
      BY <1>0, <1>1 DEF ModerationStep, FindRequest, FlagPending, CreateRequest, Decide,
         UpdateRequests, Resubmit, ReadProfile, SaveCategory, CreateItem, WritesItem,
         ToggleActive, ToggleActiveAll, UpdateItem, DeleteItem, DeleteProfile,
         DeleteItemByProfile, Starts, Steps, Goto
    <3>3. QED
      BY <3>1, <3>2 DEF MarkInv
  <2>4. \/ profile' = profile
        \/ profile' = [profile EXCEPT ![op[r].profile] = [@ EXCEPT !.flag = "pending"]]
        \/ profile' = [profile EXCEPT ![op[r].profile] = [@ EXCEPT !.flag = "submitted"]]
        \/ profile' = [profile EXCEPT ![op[r].profile] = [@ EXCEPT !.flag = op[r].status]]
        \/ profile' = [profile EXCEPT ![op[r].profile] = [@ EXCEPT !.category = op[r].category]]
        \/ profile' = [p \in DOMAIN profile \ {op[r].profile} |-> profile[p]]
    BY <1>1 DEF ModerationStep, FindRequest, FlagPending, CreateRequest, Decide, UpdateRequests,
       Resubmit, ReadProfile, SaveCategory, CreateItem, WritesItem, ToggleActive,
       ToggleActiveAll, UpdateItem, DeleteItem, DeleteProfile, DeleteItemByProfile, Write,
       Flagged, Saved, moderation
  <2>5. /\ DOMAIN profile' \subseteq DOMAIN profile
        /\ \A p \in DOMAIN profile' : profile'[p].favorite = profile[p].favorite
    BY <1>0, <2>4 DEF Profile
  <2>6. /\ \A q \in Requests : pc'[q] = "saveMark" => pc[q] = "saveMark"
        /\ \A q \in Requests : op[q].kind = "toggle" => (pc'[q] = "done" <=> pc[q] = "done")
        /\ \A q \in Requests :
             pc'[q] \in ModerationSteps => (op[q].kind = "toggle" <=> pc'[q] = "saveMark")
    BY <2>2, <2>3 DEF MarkInv
  <2>7. QED
    BY <1>0, <2>1, <2>5, <2>6, MarkFrame
<1>2. CASE ReadMark(r)
  <2>1. /\ UNCHANGED <<op, profile>> /\ op[r].kind = "toggle" /\ pc[r] = "idle"
        /\ pc'[r] = IF Exists(r) THEN "saveMark" ELSE "failed"
        /\ \A q \in Requests \ {r} : pc'[q] = pc[q] /\ mark'[q] = mark[q]
        /\ overlap' = overlap \cup {{r, q} : q \in {p \in Requests : Running(p)}}
        /\ Exists(r) => mark'[r] = profile[op[r].profile].favorite
    <3>1. mark' = [mark EXCEPT ![r] = Exists(r) /\ profile[op[r].profile].favorite]
      BY <1>2 DEF ReadMark
    <3>2. Exists(r) => (Exists(r) /\ profile[op[r].profile].favorite)
                         = profile[op[r].profile].favorite
      BY <1>0 DEF Exists, Profile
    <3>3. Exists(r) => mark'[r] = profile[op[r].profile].favorite
      BY <1>0, <3>1, <3>2
    <3>4. QED
      BY <1>0, <1>2, <3>1, <3>3 DEF ReadMark, Starts, Goto, Meets
  <2>2. \A p : Toggled(p)' = Toggled(p)
    BY <2>1 DEF Toggled, Of
  <2>3. \A p : Crossed(p) => Crossed(p)'
    BY <2>1 DEF Crossed, Of, Overlapped
  <2>4. \A q \in Requests : q # r /\ pc'[q] = "saveMark" => Overlapped(r, q)' /\ Overlapped(q, r)'
    BY <2>1 DEF Overlapped, Running, Finished
  <2>5. \A p, q \in Requests :
          p # q /\ pc'[p] = "saveMark" /\ pc'[q] = "saveMark" => Overlapped(p, q)'
    BY <2>1, <2>4 DEF MarkInv, Overlapped
  <2>6. \A q \in Requests :
          pc'[q] \in ModerationSteps => (op'[q].kind = "toggle" <=> pc'[q] = "saveMark")
    BY <2>1 DEF MarkInv, ModerationSteps
  <2>7. ASSUME NEW p \in DOMAIN profile, ~Crossed(p)'
        PROVE  /\ profile[p].favorite <=> Cardinality(Toggled(p)) % 2 = 1
               /\ \A q \in Of("toggle", p)' : pc'[q] = "saveMark" => mark'[q] = profile[p].favorite
    BY <2>1, <2>3, <2>7 DEF MarkInv, Of, Exists
  <2>8. QED
    BY <2>1, <2>2, <2>5, <2>6, <2>7 DEF MarkInv
<1>3. CASE SaveMark(r)
  <2> DEFINE p == op[r].profile
  <2>1. /\ UNCHANGED <<op, overlap, mark>> /\ pc[r] = "saveMark"
        /\ pc'[r] = IF Exists(r) THEN "done" ELSE "failed"
        /\ \A q \in Requests \ {r} : pc'[q] = pc[q]
        /\ \/ profile' = [profile EXCEPT ![p] = [@ EXCEPT !.favorite = ~mark[r]]]
           \/ profile' = profile /\ ~Exists(r)
    BY <1>0, <1>3 DEF SaveMark, Steps, Goto, Write, MarkAfter
  <2>2. /\ DOMAIN profile' = DOMAIN profile
        /\ \A i \in DOMAIN profile : i # p => profile'[i].favorite = profile[i].favorite
        /\ Exists(r) => profile'[p].favorite = ~mark[r]
    BY <1>0, <2>1 DEF Exists, Profile
  <2>3. r \in Of("toggle", p) /\ r \notin Toggled(p)
    BY <2>1 DEF MarkInv, ModerationSteps, Of, Toggled
  <2>4. /\ \A i : i # p => Toggled(i)' = Toggled(i)
        /\ Toggled(p)' = IF Exists(r) THEN Toggled(p) \cup {r} ELSE Toggled(p)
    BY <2>1, <2>3 DEF Toggled, Of
  <2>5. IsFiniteSet(Toggled(p)) /\ Cardinality(Toggled(p)) \in Nat
    BY <1>0, FS_CardinalityType DEF MarkInv
  <2>6. /\ IsFiniteSet(Toggled(p)')
        /\ Exists(r) => Cardinality(Toggled(p)') = Cardinality(Toggled(p)) + 1
    BY <2>3, <2>4, <2>5, FS_AddElement
  <2>7. \A i : Crossed(i)' <=> Crossed(i)
    BY <2>1 DEF Crossed, Of, Overlapped
  <2>8. ASSUME NEW i \in DOMAIN profile, ~Crossed(i), i # p
        PROVE  /\ profile'[i].favorite <=> Cardinality(Toggled(i)') % 2 = 1
               /\ \A q \in Of("toggle", i)' : pc'[q] = "saveMark" => mark'[q] = profile'[i].favorite
    BY <2>1, <2>2, <2>4, <2>8 DEF MarkInv, Of
  <2>9. ASSUME Exists(r), ~Crossed(p)
        PROVE  /\ profile'[p].favorite <=> Cardinality(Toggled(p)') % 2 = 1
               /\ \A q \in Of("toggle", p)' : pc'[q] # "saveMark"
    <3>1. mark[r] = profile[p].favorite /\ (profile[p].favorite <=> Cardinality(Toggled(p)) % 2 = 1)
      BY <2>1, <2>3, <2>9 DEF MarkInv, Exists
    <3>2. profile'[p].favorite <=> ~profile[p].favorite
      BY <2>2, <2>9, <3>1
    <3>3. Cardinality(Toggled(p)') % 2 = 1 <=> ~(Cardinality(Toggled(p)) % 2 = 1)
      BY <2>5, <2>6, <2>9, OddNext
    <3>4. \A q \in Of("toggle", p)' : pc'[q] # "saveMark"
      BY <2>1, <2>3, <2>9 DEF MarkInv, Crossed, Of
    <3>5. QED
      BY <3>1, <3>2, <3>3, <3>4, Zenon
  <2>10. /\ \A q \in Requests :
              pc'[q] \in ModerationSteps => (op'[q].kind = "toggle" <=> pc'[q] = "saveMark")
         /\ \A q, s \in Requests :
              q # s /\ pc'[q] = "saveMark" /\ pc'[s] = "saveMark" => Overlapped(q, s)'
         /\ \A i \in Profiles : IsFiniteSet(Toggled(i)')
    BY <2>1, <2>4, <2>6 DEF MarkInv, ModerationSteps, Overlapped
  <2>11. ASSUME NEW i \in DOMAIN profile', ~Crossed(i)'
         PROVE  /\ profile'[i].favorite <=> Cardinality(Toggled(i)') % 2 = 1
                /\ \A q \in Of("toggle", i)' :
                     pc'[q] = "saveMark" => mark'[q] = profile'[i].favorite
    <3>1. i \in DOMAIN profile /\ ~Crossed(i)
      BY <2>2, <2>7, <2>11
    <3>2. CASE i # p
      BY <2>8, <3>1, <3>2
    <3>3. CASE i = p
      BY <2>1, <2>9, <3>1, <3>3 DEF Exists
    <3>4. QED
      BY <3>2, <3>3
  <2>12. QED
    BY <2>10, <2>11 DEF MarkInv
<1>4. QED
  BY <1>1, <1>2, <1>3

\* Other parts neither begin nor end a request of this one, but by breaking it.
LEMMA OthersEndNone ==
  ASSUME HandlersInv, [Next]_vars, ~\E r \in Requests : Moderate(r),
         NEW q \in Requests, op[q].kind \in ModerationKinds
  PROVE  pc'[q] \in {pc[q], "broken"}
<1>1. ModerationKinds \cap (FavoriteKinds \cup ListingKinds \cup RetentionKinds) = {}
  BY DEF ModerationKinds, FavoriteKinds, ListingKinds, RetentionKinds
<1>2. ASSUME NEW r \in Requests, Favor(r) \/ List(r) \/ Retain(r) PROVE r # q
  BY <1>1, <1>2, FavoriteStepOf, ListingStepOf, RetentionStepOf
  DEF Favor, List, Retain, StepOf, HandlersInv, FavoriteKinds, RetentionKinds
<1>3. ASSUME NEW r \in Requests, Favor(r) \/ List(r) \/ Retain(r) PROVE pc'[q] = pc[q]
  BY <1>2, <1>3, FavoriteStepOf, ListingStepOf, RetentionStepOf
  DEF Favor, List, Retain, StepOf, HandlersInv
<1>4. CASE Breaking
  BY <1>4 DEF Breaking, HandlersInv
<1>5. CASE UNCHANGED handlers
  BY <1>5 DEF handlers
<1>6. QED
  BY <1>3, <1>4, <1>5, NextCases DEF Pass, Tick, Midnight

LEMMA MarkStepInv == HandlersInv /\ ModerationInv /\ MarkInv /\ [Next]_vars => MarkInv'
<1> SUFFICES ASSUME HandlersInv, ModerationInv, MarkInv, [Next]_vars PROVE MarkInv'
  OBVIOUS
<1>1. CASE \E r \in Requests : Moderate(r)
  BY <1>1, MarkModeration DEF Moderate
<1>2. CASE ~\E r \in Requests : Moderate(r)
  <2>1. /\ UNCHANGED <<op, profile, mark>> /\ overlap \subseteq overlap'
        /\ \A q \in Requests : pc'[q] \in ModerationSteps => pc'[q] = pc[q]
        /\ \A q \in Requests : pc[q] \in Finished => pc'[q] = pc[q]
    BY <1>2, OtherParts DEF moderation
  <2>2. \A q \in Requests : op[q].kind = "toggle" => (pc'[q] = "done" <=> pc[q] = "done")
    BY <1>2, <2>1, OthersEndNone DEF ModerationKinds, Finished
  <2>3. /\ \A q \in Requests :
             pc'[q] \in ModerationSteps => (op[q].kind = "toggle" <=> pc'[q] = "saveMark")
        /\ \A q \in Requests : pc'[q] = "saveMark" => pc[q] = "saveMark" /\ mark'[q] = mark[q]
    BY <2>1 DEF MarkInv, ModerationSteps
  <2>4. DOMAIN profile \subseteq Profiles
    BY DEF ModerationInv, ModerationTypeOK
  <2>5. QED
    BY <2>1, <2>2, <2>3, <2>4, MarkFrame
<1>3. QED
  BY <1>1, <1>2

\* A profile is a favorite exactly after an odd number of toggles that did not
\* overlap, whatever else was done to it, failed or stopped between.
THEOREM TogglesCount == Spec => []ToggleParity
<1>1. Init => MarkInv
  <2> SUFFICES ASSUME Init PROVE MarkInv
    OBVIOUS
  <2>1. /\ \A r \in Requests : pc[r] = "idle"
        /\ \A p \in DOMAIN profile : profile[p].favorite = FALSE
    BY DEF Init, HandlersInit, ModerationInit
  <2>2. \A p : Toggled(p) = {}
    BY <2>1 DEF Toggled, Of
  <2>3. IsFiniteSet({}) /\ ~(Cardinality({}) % 2 = 1)
    BY FS_EmptySet
  <2>4. QED
    BY <2>1, <2>2, <2>3 DEF MarkInv, ModerationSteps, Of
<1>2. MarkInv /\ ModerationInv => ToggleParity
  <2> SUFFICES ASSUME MarkInv, ModerationInv, NEW p \in DOMAIN profile, ~Crossed(p)
               PROVE  profile[p].favorite = (Cardinality(Toggled(p)) % 2 = 1)
    BY DEF ToggleParity, Crossed, Toggled
  <2>1. profile[p].favorite \in BOOLEAN
    BY DEF ModerationInv, ModerationTypeOK, Profile
  <2>2. profile[p].favorite <=> Cardinality(Toggled(p)) % 2 = 1
    BY DEF MarkInv
  <2>3. QED
    BY <2>1, <2>2
<1>3. QED
  BY <1>1, <1>2, HandlersInitInv, HandlersStepInv, ModerationInitInv, ModerationStepInv,
     MarkStepInv, PTL DEF Spec
-----------------------------------------------------------------------------
(* Numbers and sequences.                                                  *)

\* Among any numbers there is a least.
LEMMA LeastNumber ==
  ASSUME NEW T, T \subseteq Nat, T # {}
  PROVE  \E n \in T : \A m \in T : n <= m
<1> DEFINE R == OpToRel(<, Nat)
<1>1. IsWellFoundedOn(R, Nat)
  BY NatLessThanWellFounded
<1>2. ASSUME NEW m \in Nat, NEW n \in Nat, m < n PROVE <<m, n>> \in R
  BY <1>2 DEF OpToRel
<1> HIDE DEF R
<1>3. PICK n \in T : \A m \in T : ~(<<m, n>> \in R)
  BY <1>1, WFMin
<1>4. ASSUME NEW i \in Nat, NEW j \in Nat, ~(<<j, i>> \in R) PROVE i <= j
  <2>1. ~(j < i)
    BY <1>2, <1>4
  <2>2. QED
    BY <2>1
<1>5. n \in Nat /\ \A m \in T : m \in Nat
  OBVIOUS
<1>6. \A m \in T : n <= m
  BY <1>3, <1>4, <1>5, Zenon
<1>7. QED
  BY <1>6

LEMMA UptoSize ==
  ASSUME NEW N \in Nat
  PROVE  IsFiniteSet(1..N) /\ Cardinality(1..N) = N
BY FS_Interval

\* A count that starts at 0 and goes up one by one passes every number.
LEMMA CountPasses ==
  ASSUME NEW N \in Nat, NEW c \in [0..N -> Nat], c[0] = 0,
         \A n \in 1..N : c[n] \in {c[n - 1], c[n - 1] + 1}, NEW k \in 1..c[N]
  PROVE  \E n \in 1..N : c[n] = k /\ c[n] = c[n - 1] + 1
<1> DEFINE T == {n \in 1..N : c[n] >= k}
<1>1. T \subseteq Nat /\ N \in T
  OBVIOUS
<1>2. PICK n \in T : \A m \in T : n <= m
  BY <1>1, LeastNumber
<1>3. n \in 1..N /\ n - 1 \in 0..N /\ c[n] >= k /\ c[n] \in Nat /\ c[n - 1] \in Nat
  BY <1>2
<1>4. n - 1 \notin T
  BY <1>2, <1>3
<1>5. c[n - 1] < k
  BY <1>3, <1>4
<1>6. QED
  BY <1>3, <1>5

LEMMA UptoNext ==
  ASSUME NEW A \in SUBSET Nat, IsFiniteSet(A), NEW n \in Nat, n > 0,
         NEW B, B = {m \in A : m <= n - 1}, NEW C, C = {m \in A : m <= n}
  PROVE  /\ n \in A => Cardinality(C) = Cardinality(B) + 1
         /\ n \notin A => Cardinality(C) = Cardinality(B)
<1>0. /\ \A m \in Nat : m <= n <=> (m <= n - 1 \/ m = n)
      /\ ~(n <= n - 1) /\ \A m \in A : m \in Nat
  OBVIOUS
<1>1. IsFiniteSet(B) /\ Cardinality(B) \in Nat
  BY FS_Subset, FS_CardinalityType
<1>2. CASE n \in A
  <2>1. C = B \cup {n} /\ n \notin B
    BY <1>0, <1>2, Zenon
  <2>2. Cardinality(C) = Cardinality(B) + 1
    BY <1>1, <2>1, FS_AddElement
  <2>3. QED
    BY <1>1, <1>2, <2>2
<1>3. CASE n \notin A
  <2>1. C = B
    BY <1>0, <1>3, Zenon
  <2>2. QED
    BY <1>1, <1>3, <2>1
<1>4. QED
  BY <1>2, <1>3

\* The k-th of the numbers up to N that are in A.
LEMMA KthOf ==
  ASSUME NEW N \in Nat, NEW A \in SUBSET (1..N), NEW k \in 1..Cardinality(A)
  PROVE  LET nth == CHOOSE n \in A : Cardinality({m \in A : m <= n}) = k
         IN  nth \in A /\ Cardinality({m \in A : m <= nth}) = k
<1> DEFINE upto(n) == Cardinality({m \in A : m <= n})
           c == [n \in 0..N |-> upto(n)]
<1>0. /\ A \in SUBSET Nat /\ \A m \in A : m <= N /\ ~(m <= 0)
      /\ \A n : {m \in A : m <= n} \in SUBSET A
  OBVIOUS
<1>1. IsFiniteSet(A) /\ Cardinality(A) \in Nat
  BY UptoSize, FS_Subset, FS_CardinalityType
<1>2. \A n : IsFiniteSet({m \in A : m <= n}) /\ upto(n) \in Nat
  BY <1>0, <1>1, FS_Subset, FS_CardinalityType
<1>3. upto(0) = 0 /\ upto(N) = Cardinality(A)
  <2>1. {m \in A : m <= 0} = {} /\ {m \in A : m <= N} = A
    BY <1>0, Zenon
  <2>2. QED
    BY <2>1, FS_EmptySet
<1>4. ASSUME NEW n \in 1..N
      PROVE  /\ n \in A => upto(n) = upto(n - 1) + 1
             /\ n \notin A => upto(n) = upto(n - 1)
  <2>1. n \in Nat /\ n > 0
    OBVIOUS
  <2> DEFINE B == {m \in A : m <= n - 1}
             C == {m \in A : m <= n}
  <2>2. upto(n) = Cardinality(C) /\ upto(n - 1) = Cardinality(B)
    OBVIOUS
  <2> HIDE DEF upto
  <2>3. /\ n \in A => Cardinality(C) = Cardinality(B) + 1
        /\ n \notin A => Cardinality(C) = Cardinality(B)
    BY <1>0, <1>1, <2>1, UptoNext
  <2>4. QED
    BY <2>2, <2>3
<1> HIDE DEF upto
<1>5. \A n \in 1..N : n - 1 \in 0..N /\ n \in 0..N /\ 0 \in 0..N /\ N \in 0..N
  OBVIOUS
<1>6. \A n \in 0..N : c[n] = upto(n)
  OBVIOUS
<1>7. c \in [0..N -> Nat]
  BY <1>2
<1>8. c[0] = 0 /\ c[N] = Cardinality(A)
  BY <1>3, <1>6
<1> HIDE DEF c
<1>9. \A n \in 1..N : c[n] \in {c[n - 1], c[n - 1] + 1}
  BY <1>4, <1>5, <1>6
<1>10. PICK n \in 1..N : c[n] = k /\ c[n] = c[n - 1] + 1
  BY <1>7, <1>8, <1>9, CountPasses
<1>11. upto(n) = k /\ upto(n) = upto(n - 1) + 1 /\ upto(n - 1) \in Nat
  BY <1>2, <1>5, <1>6, <1>10
<1>12. n \in A
  BY <1>4, <1>11
<1>13. \E i \in A : Cardinality({m \in A : m <= i}) = k
  BY <1>11, <1>12 DEF upto
<1>14. QED
  BY <1>13

\* What filtering a sequence gives.
LEMMA AmongFacts ==
  ASSUME NEW X, NEW s \in Seq(X), NEW S
  PROVE  /\ Among(s, S) \in Seq(X)
         /\ \A k \in DOMAIN Among(s, S) : Among(s, S)[k] \in S
         /\ IsInjective(s) => IsInjective(Among(s, S))
         /\ (\A n \in DOMAIN s : s[n] \in S) => Among(s, S) = s
<1> DEFINE at == {n \in DOMAIN s : s[n] \in S}
           Upto(n) == {m \in at : m <= n}
           nth(k) == CHOOSE n \in at : Cardinality(Upto(n)) = k
<1>1. Len(s) \in Nat /\ DOMAIN s = 1..Len(s) /\ \A n \in 1..Len(s) : s[n] \in X
  BY LenProperties
<1>2. at \in SUBSET (1..Len(s)) /\ \A n \in at : s[n] \in X \cap S
  BY <1>1
<1>3. IsFiniteSet(at) /\ Cardinality(at) \in Nat
  BY <1>1, <1>2, UptoSize, FS_Subset, FS_CardinalityType
<1>4. \A k \in 1..Cardinality(at) : nth(k) \in at /\ Cardinality(Upto(nth(k))) = k
  BY <1>1, <1>2, KthOf
<1>5. Among(s, S) = [k \in 1..Cardinality(at) |-> s[nth(k)]]
  BY DEF Among
<1> HIDE DEF nth
<1>6. \A k \in 1..Cardinality(at) : Among(s, S)[k] \in X \cap S
  BY <1>2, <1>4, <1>5
<1>7. Among(s, S) \in Seq(X)
  BY <1>3, <1>5, <1>6
<1>8. ASSUME IsInjective(s) PROVE IsInjective(Among(s, S))
  <2>1. ASSUME NEW k \in 1..Cardinality(at), NEW l \in 1..Cardinality(at), s[nth(k)] = s[nth(l)]
        PROVE  k = l
    BY <1>4, <1>8, <2>1 DEF IsInjective
  <2>2. QED
    BY <1>5, <2>1 DEF IsInjective
<1>9. ASSUME \A n \in DOMAIN s : s[n] \in S PROVE Among(s, S) = s
  <2>1. at = 1..Len(s) /\ Cardinality(at) = Len(s)
    BY <1>1, <1>9, UptoSize
  <2>2. ASSUME NEW n \in 1..Len(s) PROVE Cardinality(Upto(n)) = n
    <3>1. Upto(n) = 1..n /\ n \in Nat
      BY <1>1, <2>1
    <3>2. Cardinality(1..n) = n
      BY <3>1, UptoSize
    <3>3. QED
      BY <3>1, <3>2
  <2>3. \A k \in 1..Len(s) : nth(k) = k
    BY <1>4, <2>1, <2>2
  <2>4. Among(s, S) = [k \in 1..Len(s) |-> s[k]]
    BY <1>5, <2>1, <2>3
  <2>5. QED
    BY <1>1, <2>4
<1>10. QED
  BY <1>5, <1>6, <1>7, <1>8, <1>9

\* A finite set as a sequence.
LEMMA SetToSeqFacts ==
  ASSUME NEW S, IsFiniteSet(S)
  PROVE  SetToSeq(S) \in Seq(S) /\ IsInjective(SetToSeq(S))
<1>1. Cardinality(S) \in Nat /\ ExistsBijection(1..Cardinality(S), S)
  BY FS_CardinalityType
<1>2. \E f \in [1..Cardinality(S) -> S] : IsInjective(f)
  BY <1>1 DEF ExistsBijection, Bijection, Injection
<1>3. SetToSeq(S) \in [1..Cardinality(S) -> S] /\ IsInjective(SetToSeq(S))
  BY <1>2 DEF SetToSeq
<1>4. QED
  BY <1>1, <1>3

LEMMA SeqOfElements ==
  ASSUME NEW X, NEW Y, NEW s \in Seq(X), \A k \in DOMAIN s : s[k] \in Y
  PROVE  s \in Seq(Y)
<1>1. Len(s) \in Nat /\ DOMAIN s = 1..Len(s) /\ s = [k \in 1..Len(s) |-> s[k]]
  BY LenProperties
<1>2. QED
  BY <1>1
-----------------------------------------------------------------------------
(* Lists.                                                                  *)

\* Places from the first of a page on, and items that the search matches.
Consecutive(rows, page) ==
  \A k \in DOMAIN rows :
    LET place == rows[k].place
    IN \/ place = 0 /\ (k > 1 => rows[k - 1].place = 0)
       \/ place = 1 /\ k = 1
       \/ k > 1 /\ place = rows[k - 1].place + 1
       \/ k = 1 /\ page > 0

RowsFit(rows, query) ==
  /\ \A k \in DOMAIN rows : rows[k].item \in query.search
  /\ query.search = Items => Consecutive(rows, query.page)

\* The sorted list: the items without a place, then the others, each at its own.
LEMMA SortedFacts ==
  ASSUME NEW r \in Requests, order[r] \in Seq(Items), IsInjective(order[r]),
         IsFiniteSet(DOMAIN item), DOMAIN item \subseteq Items
  PROVE  LET unplaced == SetToSeq({i \in Listed(r) : PlaceOf(r, i) = 0})
             sorted == unplaced \o Placed(r)
         IN  /\ Len(unplaced) \in Nat /\ sorted \in Seq(Items)
             /\ \A n \in DOMAIN sorted :
                  /\ sorted[n] \in Listed(r)
                  /\ PlaceOf(r, sorted[n]) = IF n <= Len(unplaced) THEN 0 ELSE n - Len(unplaced)
<1> DEFINE U == {i \in Listed(r) : PlaceOf(r, i) = 0}
           u == SetToSeq(U)
           P == Placed(r)
           sorted == u \o P
<1>1. /\ P \in Seq(Items) /\ IsInjective(P)
      /\ \A k \in DOMAIN P : P[k] \in Listed(r)
  BY AmongFacts DEF Placed
<1>2. u \in Seq(U)
  <2>1. IsFiniteSet(U)
    BY FS_Subset DEF Listed
  <2>2. QED
    BY <2>1, SetToSeqFacts
<1>3. u \in Seq(Items) /\ \A k \in DOMAIN u : u[k] \in Listed(r) /\ PlaceOf(r, u[k]) = 0
  <2>1. \A k \in DOMAIN u : u[k] \in U
    BY <1>2, LenProperties
  <2>2. \A i \in U : i \in Items
    BY DEF Listed
  <2>3. QED
    BY <1>2, <2>1, <2>2, SeqOfElements
<1>4. \A k \in DOMAIN P : PlaceOf(r, P[k]) = k
  BY <1>1 DEF PlaceOf, IsInjective
<1> HIDE DEF u, P
<1>5. /\ Len(u) \in Nat /\ DOMAIN u = 1..Len(u) /\ Len(P) \in Nat /\ DOMAIN P = 1..Len(P)
  BY <1>1, <1>3, LenProperties
<1>6. /\ sorted \in Seq(Items) /\ Len(sorted) = Len(u) + Len(P)
      /\ \A n \in 1..(Len(u) + Len(P)) :
           sorted[n] = IF n <= Len(u) THEN u[n] ELSE P[n - Len(u)]
  BY <1>1, <1>3, ConcatProperties
<1>7. DOMAIN sorted = 1..(Len(u) + Len(P))
  BY <1>6, LenProperties
<1> HIDE DEF sorted
<1>8. ASSUME NEW n \in DOMAIN sorted
      PROVE  /\ sorted[n] \in Listed(r)
             /\ PlaceOf(r, sorted[n]) = IF n <= Len(u) THEN 0 ELSE n - Len(u)
  <2>1. CASE n <= Len(u)
    <3>1. n \in DOMAIN u /\ sorted[n] = u[n]
      BY <1>5, <1>6, <1>7, <2>1
    <3>2. QED
      BY <1>3, <2>1, <3>1
  <2>2. CASE ~(n <= Len(u))
    <3>1. n - Len(u) \in DOMAIN P /\ sorted[n] = P[n - Len(u)]
      BY <1>5, <1>6, <1>7, <2>2
    <3>2. QED
      BY <1>1, <1>4, <2>2, <3>1
  <2>3. QED
    BY <2>1, <2>2
<1>9. QED
  BY <1>5, <1>6, <1>8 DEF u, P, sorted

\* A page that a handler has made.
LEMMA RowsFacts ==
  ASSUME NEW r \in Requests, order[r] \in Seq(Items), IsInjective(order[r]),
         IsFiniteSet(DOMAIN item), DOMAIN item \subseteq Items, op[r].query \in Query
  PROVE  /\ Rows(r) \in Seq(Row)
         /\ \A k \in DOMAIN Rows(r) : Rows(r)[k].item \in Listed(r)
         /\ RowsFit(Rows(r), op[r].query)
<1> DEFINE u == SetToSeq({i \in Listed(r) : PlaceOf(r, i) = 0})
           sorted == u \o Placed(r)
           search == op[r].query.search
           matching == Among(sorted, search)
           skip == op[r].query.page * PageSize
           page == {k \in 1..PageSize : skip + k <= Len(matching)}
           place(n) == IF n <= Len(u) THEN 0 ELSE n - Len(u)
<1>1. /\ Len(u) \in Nat /\ sorted \in Seq(Items)
      /\ \A n \in DOMAIN sorted : sorted[n] \in Listed(r) /\ PlaceOf(r, sorted[n]) = place(n)
  BY SortedFacts
<1> HIDE DEF u, sorted
<1>2. /\ matching \in Seq(Items) /\ \A n \in DOMAIN matching : matching[n] \in search
      /\ (\A n \in DOMAIN sorted : sorted[n] \in search) => matching = sorted
  BY <1>1, AmongFacts
<1>3. \A n \in DOMAIN matching : matching[n] \in Listed(r)
  <2>1. sorted \in Seq(Listed(r))
    BY <1>1, SeqOfElements
  <2>2. matching \in Seq(Listed(r))
    BY <2>1, AmongFacts
  <2>3. QED
    BY <2>2, LenProperties
<1>4. Rows(r) = [k \in page |-> [item |-> matching[skip + k],
                                 place |-> PlaceOf(r, matching[skip + k])]]
  BY DEF Rows, u, sorted
<1> HIDE DEF matching
<1>5. /\ Len(matching) \in Nat /\ DOMAIN matching = 1..Len(matching)
      /\ skip \in Nat /\ op[r].query.page \in Nat /\ PageSize \in Nat \ {0}
      /\ op[r].query.page = 0 => skip = 0
      /\ skip > 0 => op[r].query.page > 0
  BY <1>2, ListingAssumption, LenProperties DEF Query
<1> HIDE DEF skip
<1>6. \A k \in page : k \in Nat /\ k > 0 /\ skip + k \in DOMAIN matching
  BY <1>5
<1>7. \A k \in page : matching[skip + k] \in Items
  BY <1>2, <1>6, ElementOfSeq
<1>8. \A i : PlaceOf(r, i) \in Nat
  <2>1. Placed(r) \in Seq(Items)
    BY AmongFacts DEF Placed
  <2>2. DOMAIN Placed(r) \subseteq Nat
    BY <2>1, LenProperties
  <2>3. QED
    BY <2>2 DEF PlaceOf
<1>9. PICK n \in Nat : page = 1..n
  <2> DEFINE left == Len(matching) - skip
             n == IF left <= 0 THEN 0 ELSE IF left <= PageSize THEN left ELSE PageSize
  <2>1. n \in Nat /\ page = 1..n
    BY <1>5
  <2>2. QED
    BY <2>1
<1>10. Rows(r) \in Seq(Row)
  <2>1. Rows(r) \in [1..n -> Row]
    BY <1>4, <1>7, <1>8, <1>9 DEF Row
  <2>2. QED
    BY <2>1
<1>11. /\ \A k \in DOMAIN Rows(r) : Rows(r)[k].item \in Listed(r)
       /\ \A k \in DOMAIN Rows(r) : Rows(r)[k].item \in search
  BY <1>2, <1>3, <1>4, <1>6
<1>12. ASSUME search = Items PROVE Consecutive(Rows(r), op[r].query.page)
  <2>1. matching = sorted
    BY <1>1, <1>2, <1>12, LenProperties
  <2>2. \A k \in page : Rows(r)[k].place = place(skip + k)
    BY <1>1, <1>4, <1>6, <2>1
  <2>3. DOMAIN Rows(r) = page /\ \A k \in page : k > 1 => k - 1 \in page
    BY <1>4, <1>5
  <2>4. ASSUME NEW k \in page
        PROVE  \/ place(skip + k) = 0 /\ (k > 1 => place(skip + (k - 1)) = 0)
               \/ place(skip + k) = 1 /\ k = 1
               \/ k > 1 /\ place(skip + k) = place(skip + (k - 1)) + 1
               \/ k = 1 /\ op[r].query.page > 0
    BY <1>1, <1>5, <1>6
  <2>5. QED
    BY <2>2, <2>3, <2>4 DEF Consecutive
<1>13. QED
  BY <1>10, <1>11, <1>12 DEF RowsFit

Lists == {"list", "favorites"}
Made == {"snapshots", "count", "store"}

Rankings == {s \in Seq(Items) : IsInjective(s)}

\* A list whose search came after the timestamp was asked for under this key.
FiledLate(key) == \E q \in Requests : /\ op[q].kind = "list" /\ op[q].late /\ pc[q] # "idle"
                                      /\ Key(op[q]) = key

\* The pages that handlers have made, that the cache keeps and that were given
\* fit the query they are for.
PagesInv ==
  /\ \A r \in Requests : pc[r] \in Made => RowsFit(reply[r], op[r].query)
  /\ \A key \in DOMAIN cache : FiledLate(key) \/ RowsFit(cache[key].rows, key)
  /\ \A r \in Requests :
       op[r].kind \in Lists /\ pc[r] = "done" /\ ~Misfiled(r) => RowsFit(reply[r], op[r].query)

ListingInv ==
  /\ ListingTypeOK
  /\ IsInjective(ranked) /\ \A r \in Requests : IsInjective(order[r])
  /\ IsFiniteSet(DOMAIN item)
  /\ \A r \in Requests : pc[r] \in ListingSteps => op[r].kind \in Lists
  /\ \A r \in Requests : pc[r] \in {"count", "store"} => op[r].kind = "list"
  /\ PagesInv

LEMMA KeyTypes ==
  ASSUME op \in Workloads, NEW r \in Requests
  PROVE  /\ op[r].query \in Query /\ Key(op[r]) \in Query /\ Key(op[r]).page = op[r].query.page
         /\ ~op[r].late => Key(op[r]) = op[r].query
<1>1. op[r].query \in Query
  BY ListingAssumption
<1>2. QED
  BY <1>1 DEF Key, Query

LEMMA FavoritesTypesInv == HandlersInv /\ FavoritesTypeOK /\ [Next]_vars => FavoritesTypeOK'
<1> SUFFICES ASSUME HandlersInv, FavoritesTypeOK, [Next]_vars PROVE FavoritesTypeOK'
  OBVIOUS
<1>1. ASSUME NEW r \in Requests, Favor(r) PROVE FavoritesTypeOK'
  <2>1. op \in Workloads /\ (InsertFavorite(r) => op[r].kind = "favor")
    BY DEF HandlersInv, InsertFavorite, Steps, FavoriteSteps
  <2>2. QED
    BY <1>1, <2>1, FavoritesAssumption
    DEF Favor, FavoriteStep, FindFavorite, InsertFavorite, RemoveFavorite, FavoritesTypeOK, Favorite
<1>2. CASE UNCHANGED favorites
  BY <1>2 DEF FavoritesTypeOK
<1>3. QED
  BY <1>1, <1>2, NextCases DEF Moderate, List, Retain, Pass

\* Steps that leave the pages, and those who made them, alone.
LEMMA ListingFrame ==
  ASSUME ListingInv, UNCHANGED <<op, ranked, cache, order, wanted, reply>>, now' \in 0..MaxTime,
         IsFiniteSet(DOMAIN item'),
         \A q \in Requests : pc'[q] \in ListingSteps => pc'[q] = pc[q],
         \A q \in Requests : pc[q] # "idle" => pc'[q] # "idle",
         \A q \in Requests : op[q].kind \in Lists => (pc'[q] = "done" <=> pc[q] = "done")
  PROVE  ListingInv'
<1>1. /\ \A key : FiledLate(key) => FiledLate(key)'
      /\ \A r : Misfiled(r) => Misfiled(r)'
  BY DEF FiledLate, Misfiled, Key
<1>2. PagesInv'
  BY <1>1 DEF ListingInv, PagesInv, RowsFit, Consecutive, Made, ListingSteps
<1>3. ListingTypeOK'
  BY DEF ListingInv, ListingTypeOK
<1>4. QED
  BY <1>2, <1>3 DEF ListingInv, ListingSteps

\* The handlers of lists, one by one.
LEMMA ListingStepInv ==
  ASSUME HandlersInv, ModerationInv, FavoritesTypeOK, ListingInv, NEW r \in Requests,
         ListingStep(r), UNCHANGED moderation
  PROVE  ListingInv'
<1>0. /\ pc \in [Requests -> Step] /\ op \in Workloads /\ op' = op /\ item' = item
      /\ \A q \in Requests \ {r} : pc'[q] = pc[q]
      /\ pc'[r] # "idle"
      /\ op[r].query \in Query /\ Key(op[r]) \in Query /\ Key(op[r]).page = op[r].query.page
      /\ ~op[r].late => Key(op[r]) = op[r].query
  BY ListingStepOf, KeyTypes DEF HandlersInv, StepOf, moderation, ListingSteps, Finished
<1>1. /\ \A key : FiledLate(key) => FiledLate(key)'
      /\ \A q : Misfiled(q) => Misfiled(q)'
  BY <1>0 DEF FiledLate, Misfiled, Key
<1>2. DOMAIN item \subseteq Items /\ IsFiniteSet(DOMAIN item)
  BY DEF ModerationInv, ModerationTypeOK, ListingInv
<1> USE DEF Lists, Made, ListingSteps
\* A step that leaves the cache alone and gives no page but this one.
<1>3. ASSUME UNCHANGED <<ranked, cache, now>>, order' \in [Requests -> Rankings],
             wanted' \in [Requests -> SUBSET Items], reply' \in [Requests -> Seq(Row)],
             \A q \in Requests \ {r} : reply'[q] = reply[q],
             pc'[r] \in Made => RowsFit(reply'[r], op[r].query),
             op[r].kind \in Lists /\ pc'[r] = "done" /\ ~Misfiled(r)'
               => RowsFit(reply'[r], op[r].query),
             pc'[r] \in ListingSteps => op[r].kind \in Lists,
             pc'[r] \in {"count", "store"} => op[r].kind = "list"
      PROVE  ListingInv'
  <2>1. ListingTypeOK'
    BY <1>3 DEF ListingInv, ListingTypeOK, Rankings
  <2>2. /\ \A q \in Requests : pc'[q] \in Made => RowsFit(reply'[q], op'[q].query)
        /\ \A q \in Requests : /\ op'[q].kind \in Lists /\ pc'[q] = "done" /\ ~Misfiled(q)'
                               => RowsFit(reply'[q], op'[q].query)
    BY <1>0, <1>1, <1>3 DEF ListingInv, PagesInv
  <2>3. \A key \in DOMAIN cache' : FiledLate(key)' \/ RowsFit(cache'[key].rows, key)
    BY <1>1, <1>3 DEF ListingInv, PagesInv
  <2>4. PagesInv'
    BY <2>2, <2>3 DEF PagesInv, RowsFit, Consecutive
  <2>5. IsInjective(ranked') /\ \A q \in Requests : IsInjective(order'[q])
    BY <1>3 DEF ListingInv, Rankings
  <2>6. /\ \A q \in Requests : pc'[q] \in ListingSteps => op'[q].kind \in Lists
        /\ \A q \in Requests : pc'[q] \in {"count", "store"} => op'[q].kind = "list"
    BY <1>0, <1>3 DEF ListingInv
  <2>7. QED
    BY <1>0, <1>2, <2>1, <2>4, <2>5, <2>6 DEF ListingInv
<1>4. /\ order \in [Requests -> Rankings] /\ wanted \in [Requests -> SUBSET Items]
      /\ reply \in [Requests -> Seq(Row)]
      /\ ranked \in Rankings
  BY DEF ListingInv, ListingTypeOK, Rankings
<1>5. CASE AskCache(r)
  <2> DEFINE key == Key(op[r])
  <2>1. /\ UNCHANGED <<ranked, cache, now, order, wanted>> /\ op[r].kind = "list"
        /\ pc'[r] = IF Fresh(key) THEN "done" ELSE "category"
        /\ reply' = [reply EXCEPT ![r] = IF Fresh(key) THEN cache[key].rows ELSE @]
    BY <1>0, <1>5 DEF AskCache, Starts, Goto
  <2>2. Fresh(key) => cache[key].rows \in Seq(Row)
    BY DEF Fresh, ListingInv, ListingTypeOK, Entry
  <2>3. reply' \in [Requests -> Seq(Row)] /\ \A q \in Requests \ {r} : reply'[q] = reply[q]
    BY <1>4, <2>1, <2>2
  <2>4. ASSUME Fresh(key), ~Misfiled(r)' PROVE RowsFit(reply'[r], op[r].query)
    <3>1. ~op[r].late /\ ~FiledLate(key)
      BY <1>0, <1>1, <2>1, <2>4 DEF Misfiled, FiledLate, Key
    <3>2. RowsFit(cache[key].rows, key)
      BY <2>4, <3>1 DEF ListingInv, PagesInv, Fresh
    <3>3. QED
      BY <1>0, <1>4, <2>1, <2>4, <3>1, <3>2
  <2>5. QED
    BY <1>3, <1>4, <2>1, <2>3, <2>4
<1>6. CASE FindFavorites(r)
  <2>1. /\ UNCHANGED <<ranked, cache, now, order, reply>> /\ op[r].kind = "favorites"
        /\ pc'[r] \in {"failed", "category"}
        /\ wanted' = [wanted EXCEPT ![r] = {f.item : f \in {g \in favorites : g.user = op[r].user}}]
    BY <1>0, <1>6 DEF FindFavorites, Starts, Goto
  <2>2. {f.item : f \in {g \in favorites : g.user = op[r].user}} \subseteq Items
    BY ListingAssumption DEF FavoritesTypeOK, Favorite
  <2>3. QED
    BY <1>3, <1>4, <2>1, <2>2
<1>7. CASE ReadCategory(r)
  <2>1. /\ UNCHANGED <<ranked, cache, now, wanted, reply>> /\ pc[r] = "category"
        /\ pc'[r] = "items" /\ order' = [order EXCEPT ![r] = ranked]
    BY <1>0, <1>7 DEF ReadCategory, Steps, Goto
  <2>2. QED
    BY <1>3, <1>4, <2>1 DEF ListingInv
<1>8. CASE ReadItems(r)
  <2>1. /\ UNCHANGED <<ranked, cache, now, order, wanted>> /\ pc[r] = "items"
        /\ pc'[r] = "snapshots" /\ reply' = [reply EXCEPT ![r] = Rows(r)]
    BY <1>0, <1>8 DEF ReadItems, Steps, Goto
  <2>2. Rows(r) \in Seq(Row) /\ RowsFit(Rows(r), op[r].query)
    BY <1>0, <1>2, <1>4, RowsFacts DEF Rankings
  <2>3. QED
    BY <1>3, <1>4, <2>1, <2>2 DEF ListingInv
<1>9. CASE ReadSnapshots(r)
  <2>1. /\ UNCHANGED listing /\ pc[r] = "snapshots"
        /\ pc'[r] = IF op[r].kind = "favorites" THEN "done" ELSE "count"
    BY <1>0, <1>9 DEF ReadSnapshots, Steps, Goto
  <2>2. QED
    BY <1>3, <1>4, <2>1 DEF ListingInv, PagesInv, listing
<1>10. CASE CountItems(r)
  <2>1. UNCHANGED listing /\ pc[r] = "count" /\ pc'[r] = "store"
    BY <1>0, <1>10 DEF CountItems, Steps, Goto
  <2>2. QED
    BY <1>3, <1>4, <2>1 DEF ListingInv, PagesInv, listing
<1>11. CASE Store(r)
  <2> DEFINE key == Key(op[r])
  <2>1. /\ UNCHANGED <<ranked, now, order, wanted, reply>> /\ pc[r] = "store" /\ pc'[r] = "done"
        /\ cache' = [k \in DOMAIN cache \cup {key} |->
                       IF k = key THEN [rows |-> reply[r], expires |-> now + TTL] ELSE cache[k]]
    BY <1>0, <1>11 DEF Store, Steps, Goto
  <2>2. op[r].kind = "list" /\ RowsFit(reply[r], op[r].query)
    BY <2>1 DEF ListingInv, PagesInv
  <2>3. [rows |-> reply[r], expires |-> now + TTL] \in Entry
    BY <1>4, ListingAssumption DEF ListingInv, ListingTypeOK, Entry
  <2>4. ListingTypeOK'
    <3>1. DOMAIN cache' \subseteq Query /\ \A k \in DOMAIN cache' : cache'[k] \in Entry
      BY <1>0, <2>1, <2>3 DEF ListingInv, ListingTypeOK
    <3>2. QED
      BY <2>1, <3>1 DEF ListingInv, ListingTypeOK
  <2>5. FiledLate(key)' \/ RowsFit(reply[r], key)
    BY <1>0, <2>2 DEF FiledLate, Key
  <2>6. \A k \in DOMAIN cache' : FiledLate(k)' \/ RowsFit(cache'[k].rows, k)
    <3>1. cache'[key].rows = reply[r]
      BY <2>1
    <3>2. \A k \in DOMAIN cache' \ {key} : k \in DOMAIN cache /\ cache'[k] = cache[k]
      BY <2>1
    <3>3. \A k \in DOMAIN cache \ {key} : FiledLate(k)' \/ RowsFit(cache[k].rows, k)
      BY <1>1 DEF ListingInv, PagesInv
    <3>4. QED
      BY <1>0, <2>5, <3>1, <3>2, <3>3
  <2>7. /\ \A q \in Requests : pc'[q] \in Made => RowsFit(reply'[q], op'[q].query)
        /\ \A q \in Requests : /\ op'[q].kind \in Lists /\ pc'[q] = "done" /\ ~Misfiled(q)'
                               => RowsFit(reply'[q], op'[q].query)
    BY <1>0, <1>1, <2>1, <2>2 DEF ListingInv, PagesInv
  <2>8. PagesInv'
    BY <2>6, <2>7 DEF PagesInv, RowsFit, Consecutive
  <2>9. QED
    BY <1>0, <1>2, <2>1, <2>4, <2>8 DEF ListingInv
<1>12. CASE PublishRanking(r)
  <2>1. /\ UNCHANGED <<cache, now, order, wanted, reply>> /\ op[r].kind = "publish"
        /\ ranked' = op[r].ranking /\ pc'[r] = "done"
    BY <1>0, <1>12 DEF PublishRanking, Starts, Goto
  <2>2. ranked' \in Rankings
    BY <1>0, <2>1, ListingAssumption DEF Rankings
  <2>3. ListingTypeOK'
    BY <2>1, <2>2 DEF ListingInv, ListingTypeOK, Rankings
  <2>4. PagesInv'
    <3>1. /\ \A q \in Requests : pc'[q] \in Made => RowsFit(reply'[q], op'[q].query)
          /\ \A q \in Requests : /\ op'[q].kind \in Lists /\ pc'[q] = "done" /\ ~Misfiled(q)'
                                 => RowsFit(reply'[q], op'[q].query)
      BY <1>0, <1>1, <2>1 DEF ListingInv, PagesInv
    <3>2. \A k \in DOMAIN cache' : FiledLate(k)' \/ RowsFit(cache'[k].rows, k)
      BY <1>1, <2>1 DEF ListingInv, PagesInv
    <3>3. QED
      BY <3>1, <3>2 DEF PagesInv, RowsFit, Consecutive
  <2>5. QED
    BY <1>0, <1>2, <2>1, <2>2, <2>3, <2>4 DEF ListingInv, Rankings
<1>13. QED
  BY <1>5, <1>6, <1>7, <1>8, <1>9, <1>10, <1>11, <1>12 DEF ListingStep

\* Other parts leave the requests for lists alone, but for breaking them.
LEMMA ListsGoOn ==
  ASSUME HandlersInv, [Next]_vars, ~\E r \in Requests : List(r)
  PROVE  /\ op' = op /\ overlap \subseteq overlap'
         /\ \A q \in Requests : pc'[q] \in ListingSteps => pc'[q] = pc[q]
         /\ \A q \in Requests : op[q].kind \in Lists =>
              pc'[q] = pc[q] \/ (Running(q) /\ pc'[q] = "broken")
<1> DEFINE Goal == /\ op' = op /\ overlap \subseteq overlap'
                   /\ \A q \in Requests : pc'[q] \in ListingSteps => pc'[q] = pc[q]
                   /\ \A q \in Requests : op[q].kind \in Lists =>
                        pc'[q] = pc[q] \/ (Running(q) /\ pc'[q] = "broken")
           Kinds == ModerationKinds \cup FavoriteKinds \cup RetentionKinds
<1>1. Lists \cap Kinds = {}
  BY DEF Lists, ModerationKinds, FavoriteKinds, RetentionKinds
<1>2. ASSUME NEW r \in Requests, NEW kinds \in SUBSET Kinds, NEW steps,
             "idle" \notin steps, steps \cap ListingSteps = {},
             pc[r] \in steps => op[r].kind \in Kinds, StepOf(r, kinds, steps)
      PROVE  Goal
  <2>1. op[r].kind \notin Lists
    BY <1>1, <1>2 DEF StepOf
  <2>2. PICK s \in steps \cup Finished : pc' = [pc EXCEPT ![r] = s]
    BY <1>2 DEF StepOf
  <2>3. pc'[r] \notin ListingSteps /\ \A q \in Requests \ {r} : pc'[q] = pc[q]
    BY <1>2, <2>2 DEF HandlersInv, ListingSteps, Finished
  <2>4. op' = op /\ overlap \subseteq overlap'
    BY <1>2 DEF StepOf, Meets
  <2>5. QED
    BY <2>1, <2>3, <2>4
<1>3. /\ \A r \in Requests : pc[r] \in ModerationSteps => op[r].kind \in Kinds
      /\ \A r \in Requests : pc[r] \in FavoriteSteps => op[r].kind \in Kinds
      /\ \A r \in Requests : pc[r] \in RetentionSteps => op[r].kind \in Kinds
  BY DEF HandlersInv, FavoriteKinds, RetentionKinds
<1>4. /\ "idle" \notin ModerationSteps \cup FavoriteSteps \cup RetentionSteps
      /\ ModerationSteps \cap ListingSteps = {} /\ FavoriteSteps \cap ListingSteps = {}
      /\ RetentionSteps \cap ListingSteps = {}
  BY DEF ModerationSteps, FavoriteSteps, RetentionSteps, ListingSteps
<1>5. ASSUME NEW r \in Requests, Moderate(r) PROVE Goal
  <2>1. StepOf(r, ModerationKinds, ModerationSteps)
    BY <1>5, ModerationStepOf DEF Moderate
  <2>2. QED
    BY <1>2, <1>3, <1>4, <2>1
<1>6. ASSUME NEW r \in Requests, Favor(r) PROVE Goal
  <2>1. StepOf(r, FavoriteKinds, FavoriteSteps)
    BY <1>6, FavoriteStepOf DEF Favor
  <2>2. QED
    BY <1>2, <1>3, <1>4, <2>1
<1>7. ASSUME NEW r \in Requests, Retain(r) PROVE Goal
  <2>1. StepOf(r, RetentionKinds, RetentionSteps)
    BY <1>7, RetentionStepOf DEF Retain
  <2>2. QED
    BY <1>2, <1>3, <1>4, <2>1
<1>8. CASE Breaking
  <2>1. \A q \in Requests : pc'[q] = pc[q] \/ (Running(q) /\ pc'[q] = "broken")
    BY <1>8 DEF Breaking, HandlersInv
  <2>2. QED
    BY <1>8, <2>1 DEF Breaking, ListingSteps
<1>9. CASE UNCHANGED handlers
  BY <1>9 DEF handlers
<1>10. QED
  BY <1>5, <1>6, <1>7, <1>8, <1>9, NextCases DEF Pass, Tick, Midnight

\* There are finitely many items.
LEMMA ItemsFinite ==
  ASSUME HandlersInv, IsFiniteSet(DOMAIN item), [Next]_vars
  PROVE  IsFiniteSet(DOMAIN item')
<1>1. ASSUME NEW r \in Requests, ModerationStep(r)
      PROVE  DOMAIN item' \subseteq DOMAIN item \cup {op[r].profile}
  BY <1>1 DEF ModerationStep, FindRequest, FlagPending, CreateRequest, Decide, UpdateRequests,
     Resubmit, ReadProfile, SaveCategory, CreateItem, WritesItem, ToggleActive,
     ToggleActiveAll, UpdateItem, DeleteItem, ReadMark, SaveMark, DeleteProfile,
     DeleteItemByProfile, moderation
<1>2. CASE \E r \in Requests : ModerationStep(r)
  BY <1>1, <1>2, FS_AddElement, FS_Subset
<1>3. CASE item' = item
  BY <1>3
<1>4. QED
  BY <1>2, <1>3, NextCases DEF Moderate, Favor, List, Retain, Pass, moderation

LEMMA ListingNextInv ==
  HandlersInv /\ ModerationInv /\ FavoritesTypeOK /\ ListingInv /\ [Next]_vars => ListingInv'
<1> SUFFICES ASSUME HandlersInv, ModerationInv, FavoritesTypeOK, ListingInv, [Next]_vars
             PROVE  ListingInv'
  OBVIOUS
<1>1. CASE \E r \in Requests : List(r)
  BY <1>1, ListingStepInv DEF List
<1>2. CASE ~\E r \in Requests : List(r)
  <2>1. /\ op' = op
        /\ \A q \in Requests : pc'[q] \in ListingSteps => pc'[q] = pc[q]
        /\ \A q \in Requests : op[q].kind \in Lists =>
             pc'[q] = pc[q] \/ (Running(q) /\ pc'[q] = "broken")
    BY <1>2, ListsGoOn
  <2>2. \A q \in Requests : op[q].kind \in Lists => (pc'[q] = "done" <=> pc[q] = "done")
    BY <2>1 DEF Running, Finished
  <2>3. UNCHANGED <<ranked, cache, order, wanted, reply>> /\ now' \in 0..MaxTime
    <3>1. now \in 0..MaxTime
      BY DEF ListingInv, ListingTypeOK
    <3>2. UNCHANGED <<ranked, cache, order, wanted, reply>> /\ (now' = now \/ Tick)
      BY <1>2, NextCases DEF Moderate, Favor, Retain, Pass, Tick, listing
    <3>3. QED
      BY <3>1, <3>2, ListingAssumption DEF Tick
  <2>4. IsFiniteSet(DOMAIN item') /\ \A q \in Requests : pc[q] # "idle" => pc'[q] # "idle"
    BY ItemsFinite, BegunStays DEF ListingInv
  <2>5. QED
    BY <2>1, <2>2, <2>3, <2>4, ListingFrame
<1>3. QED
  BY <1>1, <1>2

LEMMA ListingInitInv == Init => ListingInv /\ FavoritesTypeOK
<1> SUFFICES ASSUME Init PROVE ListingInv /\ FavoritesTypeOK
  OBVIOUS
<1>1. SetToSeq(PlainItems) \in Seq(Items) /\ IsInjective(SetToSeq(PlainItems))
  <2>1. SetToSeq(PlainItems) \in Seq(PlainItems) /\ IsInjective(SetToSeq(PlainItems))
    BY ListingAssumption, SetToSeqFacts
  <2>2. \A k \in DOMAIN SetToSeq(PlainItems) : SetToSeq(PlainItems)[k] \in Items
    BY <2>1, LenProperties DEF Items
  <2>3. QED
    BY <2>1, <2>2, SeqOfElements
<1>2. /\ \A r \in Requests : pc[r] = "idle"
      /\ ranked = SetToSeq(PlainItems) /\ now = 0 /\ DOMAIN item = PlainItems
      /\ DOMAIN cache = {} /\ favorites = {}
      /\ order = [r \in Requests |-> <<>>] /\ wanted = [r \in Requests |-> Items]
      /\ reply = [r \in Requests |-> <<>>]
  BY DEF Init, HandlersInit, ModerationInit, ListingInit, FavoritesInit
<1>3. ListingTypeOK
  <2>1. <<>> \in Seq(Items) /\ <<>> \in Seq(Row)
    OBVIOUS
  <2>2. QED
    BY <1>1, <1>2, <2>1, ListingAssumption DEF ListingTypeOK
<1>4. \A r \in Requests : IsInjective(order[r])
  <2>1. DOMAIN <<>> = {}
    OBVIOUS
  <2>2. QED
    BY <1>2, <2>1 DEF IsInjective
<1>5. QED
  BY <1>1, <1>2, <1>3, <1>4, ListingAssumption
  DEF ListingInv, PagesInv, Made, ListingSteps, FavoritesTypeOK

LEMMA ListingInvariant == Spec => [](HandlersInv /\ ModerationInv /\ ListingInv)
BY HandlersInitInv, HandlersStepInv, ModerationInitInv, ModerationStepInv, ListingInitInv,
   FavoritesTypesInv, ListingNextInv, PTL DEF Spec

LEMMA PagesFit ==
  ASSUME ListingInv, NEW r \in Requests, Replied(r), ~Misfiled(r)
  PROVE  RowsFit(reply[r], op[r].query)
BY DEF ListingInv, PagesInv, Replied, Made, Lists

\* Nobody is given an item that his search does not match, out of the cache or
\* made for him, unless a search that came after the timestamp was filed under
\* the same key.
THEOREM CacheKeepsSearches == Spec => []AnsweredForSearch
<1>1. ListingInv => AnsweredForSearch
  BY PagesFit DEF AnsweredForSearch, RowsFit
<1>2. QED
  BY <1>1, ListingInvariant, PTL

\* The places of a page that no search was made for follow one another, however
\* many items there are, whatever was hidden, deactivated or ranked while it was
\* made, and whoever it was made for.
THEOREM PagesInOrder == Spec => []PlacesConsecutive
<1>1. ListingInv => PlacesConsecutive
  BY PagesFit DEF PlacesConsecutive, RowsFit, Consecutive
<1>2. QED
  BY <1>1, ListingInvariant, PTL
-----------------------------------------------------------------------------
(* Items that are hidden.                                                  *)

\* A list overlapped the request that hid the item of p.
Around(p) == \E q \in Requests, h \in hiding[p].by : op[q].kind \in Lists /\ Overlapped(q, h)

Hidden(p) == p \in Profiles /\ ~Visible(p)

\* Rows whose hidden items a list around the hiding may have read, and an
\* answer that goes before a hidden item of it is hidden too long.
MayShow(rows) == \A k \in DOMAIN rows : Hidden(rows[k].item) => Around(rows[k].item)

EndsInTime(entry) ==
  \A k \in DOMAIN entry.rows :
    LET p == entry.rows[k].item
    IN Hidden(p) => Around(p) \/ entry.expires <= hiding[p].at + TTL

HidingInv ==
  /\ hiding \in [Profiles -> [at : Nat, by : SUBSET Requests]]
  /\ \A r \in Requests : pc[r] \in Made => MayShow(reply[r])
  /\ \A key \in DOMAIN cache : /\ cache[key].expires \in Nat /\ cache[key].expires <= now + TTL
                               /\ EndsInTime(cache[key])

\* A step hides an item only where a request begins.
LEMMA HidingStep ==
  ASSUME HandlersInv, ModerationInv, NEW r \in Requests, ModerationStep(r),
         NEW p \in Profiles, Visible(p), ~Visible(p)'
  PROVE  Meets(r)
<1>1. CASE Decide(r) \/ Resubmit(r)
  BY <1>1 DEF Decide, Resubmit, Starts
<1>2. CASE ~(Decide(r) \/ Resubmit(r))
  <2>1. \/ profile' = profile
        \/ profile' = [profile EXCEPT ![op[r].profile] = [@ EXCEPT !.flag = "pending"]]
        \/ profile' = [profile EXCEPT ![op[r].profile] = [@ EXCEPT !.category = op[r].category]]
        \/ profile' = [profile EXCEPT ![op[r].profile] =
                          [@ EXCEPT !.favorite = MarkAfter(mark[r])]]
        \/ profile' = [i \in DOMAIN profile \ {op[r].profile} |-> profile[i]]
    BY <1>2 DEF ModerationStep, FindRequest, FlagPending, CreateRequest, UpdateRequests,
       ReadProfile, SaveCategory, CreateItem, WritesItem, ToggleActive, ToggleActiveAll,
       UpdateItem, DeleteItem, ReadMark, SaveMark, DeleteProfile, DeleteItemByProfile, Write,
       Flagged, Saved, moderation
  <2>2. \A i \in DOMAIN profile' : /\ i \in DOMAIN profile
                                   /\ profile'[i].flag \in {profile[i].flag, "pending"}
    BY <2>1 DEF ModerationInv, ModerationTypeOK, Profile
  <2>3. QED
    BY <2>2 DEF Visible
<1>3. QED
  BY <1>1, <1>2

LEMMA HidingModerate ==
  ASSUME HandlersInv, ModerationInv, ListingInv, HidingInv, NEW r \in Requests, Moderate(r)
  PROVE  HidingInv'
<1>1. /\ op' = op /\ overlap \subseteq overlap' /\ UNCHANGED listing
      /\ \A q \in Requests : pc'[q] \in Made => pc[q] = pc'[q]
      /\ hiding' = [p \in Profiles |->
                      IF Visible(p) /\ ~Visible(p)' THEN [at |-> now, by |-> {r}] ELSE hiding[p]]
  <2>1. StepOf(r, ModerationKinds, ModerationSteps)
    BY ModerationStepOf DEF Moderate
  <2>2. \A q \in Requests : pc'[q] \in Made => pc[q] = pc'[q]
    BY <2>1 DEF StepOf, HandlersInv, Made, ModerationSteps, Finished
  <2>3. QED
    BY <2>1, <2>2 DEF StepOf, Meets, Moderate
<1>2. now \in Nat /\ TTL \in Nat
  BY ListingAssumption DEF ListingInv, ListingTypeOK
<1>3. hiding' \in [Profiles -> [at : Nat, by : SUBSET Requests]]
  BY <1>1, <1>2 DEF HidingInv
<1>4. ASSUME NEW p, Hidden(p)'
      PROVE  \/ Hidden(p) /\ hiding'[p] = hiding[p] /\ (Around(p) => Around(p)')
             \/ Meets(r) /\ hiding'[p] = [at |-> now, by |-> {r}]
  <2>1. CASE Visible(p)
    BY <1>1, <1>4, <2>1, HidingStep DEF Hidden, Moderate
  <2>2. CASE ~Visible(p)
    BY <1>1, <1>4, <2>2 DEF Hidden, Around, Overlapped
  <2>3. QED
    BY <2>1, <2>2
<1>5. ASSUME NEW q \in Requests, pc'[q] \in Made PROVE MayShow(reply[q])'
  <2>1. Running(q) /\ op[q].kind \in Lists /\ MayShow(reply[q])
    BY <1>1, <1>5 DEF Running, Finished, Made, ListingInv, ListingSteps, HidingInv
  <2>2. ASSUME NEW p, Hidden(p)', Meets(r) /\ hiding'[p] = [at |-> now, by |-> {r}]
        PROVE  Around(p)'
    <3>1. {q, r} \in overlap' /\ r \in hiding'[p].by
      BY <2>1, <2>2 DEF Meets
    <3>2. QED
      BY <1>1, <2>1, <3>1 DEF Around, Overlapped
  <2>3. ASSUME NEW k \in DOMAIN reply[q], NEW p, p = reply[q][k].item, Hidden(p)'
        PROVE  Around(p)'
    BY <1>4, <2>1, <2>2, <2>3 DEF MayShow
  <2>4. reply' = reply
    BY <1>1 DEF listing
  <2>5. QED
    BY <2>3, <2>4 DEF MayShow
<1>6. ASSUME NEW key \in DOMAIN cache PROVE EndsInTime(cache[key])'
  <2>1. cache[key].expires <= now + TTL /\ EndsInTime(cache[key]) /\ cache' = cache
    BY <1>1 DEF HidingInv, listing
  <2>2. ASSUME NEW k \in DOMAIN cache[key].rows, NEW p, p = cache[key].rows[k].item, Hidden(p)'
        PROVE  Around(p)' \/ cache[key].expires <= hiding'[p].at + TTL
    BY <1>4, <2>1, <2>2 DEF EndsInTime
  <2>3. QED
    BY <2>1, <2>2 DEF EndsInTime
<1>7. QED
  BY <1>1, <1>3, <1>5, <1>6 DEF HidingInv, listing

\* Pages and answers stay right while nothing is hidden.
LEMMA HidingStays ==
  ASSUME UNCHANGED <<op, profile, hiding>>, overlap \subseteq overlap'
  PROVE  /\ \A p : (Hidden(p)' <=> Hidden(p)) /\ (Around(p) => Around(p)')
         /\ \A rows : MayShow(rows) => MayShow(rows)'
         /\ \A entry : EndsInTime(entry) => EndsInTime(entry)'
<1>1. \A p : (Hidden(p)' <=> Hidden(p)) /\ (Around(p) => Around(p)')
  BY DEF Hidden, Visible, Around, Overlapped
<1>2. QED
  BY <1>1 DEF MayShow, EndsInTime

\* Steps that hide nothing and make, keep and give no page.
LEMMA HidingFrame ==
  ASSUME ListingInv, HidingInv, UNCHANGED <<op, profile, cache, reply, hiding>>,
         overlap \subseteq overlap', now' \in Nat, now <= now',
         \A q \in Requests : pc'[q] \in Made => pc[q] \in Made
  PROVE  HidingInv'
<1>1. now \in Nat /\ TTL \in Nat
  BY ListingAssumption DEF ListingInv, ListingTypeOK
<1>2. \A q \in Requests : pc'[q] \in Made => MayShow(reply[q])'
  BY HidingStays DEF HidingInv
<1>3. ASSUME NEW key \in DOMAIN cache
      PROVE  /\ cache[key].expires \in Nat /\ cache[key].expires <= now' + TTL
             /\ EndsInTime(cache[key])'
  <2>1. EndsInTime(cache[key])'
    BY HidingStays DEF HidingInv
  <2>2. QED
    BY <1>1, <2>1 DEF HidingInv
<1>4. QED
  BY <1>2, <1>3 DEF HidingInv

LEMMA HidingList ==
  ASSUME HandlersInv, ModerationInv, ListingInv, HidingInv, NEW r \in Requests, List(r)
  PROVE  HidingInv'
<1>0. /\ pc \in [Requests -> Step] /\ op \in Workloads /\ op' = op
      /\ \A q \in Requests \ {r} : pc'[q] = pc[q]
      /\ overlap \subseteq overlap'
  BY ListingStepOf DEF HandlersInv, StepOf, Meets, List
<1>1. /\ UNCHANGED <<profile, item, now, hiding>>
      /\ DOMAIN item \subseteq Items /\ IsFiniteSet(DOMAIN item)
      /\ now \in Nat /\ TTL \in Nat /\ reply \in [Requests -> Seq(Row)]
  <2>1. UNCHANGED <<profile, item, hiding>> /\ DOMAIN item \subseteq Items
    BY DEF List, moderation, ModerationInv, ModerationTypeOK
  <2>2. now' = now
    BY DEF List, ListingStep, AskCache, FindFavorites, ReadCategory, ReadItems, ReadSnapshots,
           CountItems, Store, PublishRanking, listing
  <2>3. QED
    BY <2>1, <2>2, ListingAssumption DEF ListingInv, ListingTypeOK
<1>2. /\ \A p : (Hidden(p)' <=> Hidden(p)) /\ (Around(p) => Around(p)')
      /\ \A rows : MayShow(rows) => MayShow(rows)'
      /\ \A entry : EndsInTime(entry) => EndsInTime(entry)'
  BY <1>0, <1>1, HidingStays
<1> USE DEF Made
<1>3. \A q \in Requests \ {r} : pc'[q] \in Made /\ reply'[q] = reply[q] => MayShow(reply[q])'
  BY <1>0, <1>2 DEF HidingInv
\* A step that leaves the cache alone, and makes no page or one that may be shown.
<1>4. ASSUME cache' = cache, \A q \in Requests \ {r} : reply'[q] = reply[q],
             pc'[r] \in Made => MayShow(reply[r])'
      PROVE  HidingInv'
  <2>1. \A key \in DOMAIN cache' : EndsInTime(cache[key])'
    BY <1>2, <1>4 DEF HidingInv
  <2>2. \A q \in Requests : pc'[q] \in Made => MayShow(reply[q])'
    BY <1>3, <1>4
  <2>3. QED
    BY <1>1, <1>4, <2>1, <2>2 DEF HidingInv
<1>5. CASE AskCache(r) \/ FindFavorites(r) \/ ReadCategory(r) \/ PublishRanking(r)
  <2>1. cache' = cache /\ pc'[r] \notin Made /\ \A q \in Requests \ {r} : reply'[q] = reply[q]
    BY <1>0, <1>1, <1>5 DEF AskCache, FindFavorites, ReadCategory, PublishRanking, Starts, Steps,
                            Goto, Finished
  <2>2. QED
    BY <1>4, <2>1
<1>6. CASE ReadItems(r)
  <2>1. cache' = cache /\ reply' = [reply EXCEPT ![r] = Rows(r)]
    BY <1>6 DEF ReadItems
  <2>2. \A k \in DOMAIN Rows(r) : Rows(r)[k].item \in Listed(r)
    BY <1>0, <1>1, KeyTypes, RowsFacts DEF ListingInv, ListingTypeOK
  <2>3. \A k \in DOMAIN Rows(r) : ~Hidden(Rows(r)[k].item)
    BY <2>2 DEF Listed, Hidden
  <2>4. MayShow(Rows(r))
    BY <2>3 DEF MayShow
  <2>5. reply'[r] = Rows(r) /\ \A q \in Requests \ {r} : reply'[q] = reply[q]
    BY <1>1, <2>1
  <2>6. ASSUME NEW rows, rows = Rows(r) PROVE MayShow(rows)'
    BY <1>2, <2>4, <2>6
  <2>7. MayShow(reply[r])'
    BY <2>5, <2>6
  <2>8. QED
    BY <1>4, <2>1, <2>5, <2>7
<1>7. CASE ReadSnapshots(r) \/ CountItems(r)
  <2>1. cache' = cache /\ reply' = reply /\ pc[r] \in Made
    BY <1>7 DEF ReadSnapshots, CountItems, Steps, listing
  <2>2. MayShow(reply[r])'
    BY <1>2, <2>1 DEF HidingInv
  <2>3. QED
    BY <1>4, <2>1, <2>2
<1>8. CASE Store(r)
  <2> DEFINE key == Key(op[r])
  <2>1. /\ pc[r] = "store" /\ pc'[r] = "done" /\ reply' = reply
        /\ cache' = [k \in DOMAIN cache \cup {key} |->
                       IF k = key THEN [rows |-> reply[r], expires |-> now + TTL] ELSE cache[k]]
    BY <1>0, <1>8 DEF Store, Steps, Goto
  <2>2. \A q \in Requests : pc'[q] \in Made => MayShow(reply[q])'
    BY <1>3, <2>1
  <2>3. cache'[key].rows = reply[r] /\ cache'[key].expires = now + TTL
    BY <2>1
  <2>4. \A k \in DOMAIN cache' : k # key => k \in DOMAIN cache /\ cache'[k] = cache[k]
    BY <2>1
  <2> HIDE DEF key
  <2>5. ASSUME NEW k \in DOMAIN cache', NEW entry, entry = cache'[k]
        PROVE  entry.expires \in Nat /\ entry.expires <= now + TTL /\ EndsInTime(entry)'
    <3>1. CASE k = key
      <4>1. entry.expires = now + TTL /\ entry.rows = reply[r]
        BY <2>3, <2>5, <3>1
      <4>2. EndsInTime(entry)
        BY <2>1, <4>1 DEF HidingInv, MayShow, EndsInTime
      <4>3. QED
        BY <1>1, <1>2, <4>1, <4>2
    <3>2. CASE k # key
      BY <1>1, <1>2, <2>4, <2>5, <3>2 DEF HidingInv
    <3>3. QED
      BY <3>1, <3>2
  <2>6. QED
    BY <1>1, <2>2, <2>5 DEF HidingInv
<1>9. QED
  BY <1>5, <1>6, <1>7, <1>8 DEF List, ListingStep

LEMMA HidingStepInv ==
  HandlersInv /\ ModerationInv /\ ListingInv /\ HidingInv /\ [Next]_vars => HidingInv'
<1> SUFFICES ASSUME HandlersInv, ModerationInv, ListingInv, HidingInv, [Next]_vars
             PROVE  HidingInv'
  OBVIOUS
<1>1. CASE \E r \in Requests : Moderate(r)
  BY <1>1, HidingModerate
<1>2. CASE \E r \in Requests : List(r)
  BY <1>2, HidingList
<1>3. CASE ~\E r \in Requests : Moderate(r) \/ List(r)
  <2>1. /\ UNCHANGED <<op, profile, cache, reply, hiding>> /\ (now' = now \/ now' = now + 1)
    <3>1. /\ op' = op /\ UNCHANGED profile
      BY <1>3, OtherParts DEF moderation
    <3>2. UNCHANGED <<cache, reply>> /\ (now' = now \/ now' = now + 1)
      BY <1>3, NextCases DEF Favor, Retain, Pass, Tick, listing
    <3>3. hiding' = hiding
      BY <1>3 DEF Next, Favor, Retain, Pass, Fault, vars
    <3>4. QED
      BY <3>1, <3>2, <3>3
  <2>2. now \in Nat
    BY DEF ListingInv, ListingTypeOK
  <2>3. now' \in Nat /\ now <= now'
    BY <2>1, <2>2
  <2>4. /\ overlap \subseteq overlap'
        /\ \A q \in Requests : pc'[q] \in Made => pc[q] \in Made
    BY <1>3, ListsGoOn DEF Made, ListingSteps
  <2>5. QED
    BY <2>1, <2>3, <2>4, HidingFrame
<1>4. QED
  BY <1>1, <1>2, <1>3

\* A page shows an item no longer than an answer stays in the cache after the
\* request that hid it, unless a list overlapped that request: in every order in
\* which pages are made, stored and given and items hidden and shown again.
THEOREM HiddenSoon == Spec => HiddenWithinTTL
<1>1. Init => HidingInv
  <2>1. Init => /\ \A r \in Requests : pc[r] = "idle"
                /\ DOMAIN cache = {} /\ hiding = [p \in Profiles |-> [at |-> 0, by |-> {}]]
    BY DEF Init, HandlersInit, ListingInit
  <2>2. QED
    BY <2>1 DEF HidingInv, Made
<1>2. ASSUME HandlersInv, ModerationInv, ListingInv, HidingInv, [Next]_vars,
             NEW r \in Requests, Replied(r)', ~Replied(r), NEW k \in DOMAIN reply'[r],
             NEW p, p = reply'[r][k].item, Hidden(p)
      PROVE  now <= hiding[p].at + TTL \/ Around(p)
  <2>1. op' = op /\ op[r].kind \in Lists /\ pc'[r] \in {"store", "done"} /\ pc'[r] # pc[r]
    <3>1. op' = op
      BY <1>2, NextCases, ModerationStepOf, FavoriteStepOf, ListingStepOf, RetentionStepOf
      DEF Moderate, Favor, List, Retain, Pass, Tick, Midnight, Breaking, StepOf, handlers
    <3>2. QED
      BY <1>2, <3>1 DEF Replied, Lists
  <2>2. PICK q \in Requests : List(q)
    BY <1>2, <2>1, ListsGoOn
  <2>3. q = r
    BY <1>2, <2>1, <2>2, ListingStepOf DEF List, StepOf, HandlersInv
  <2>4. ListingStep(r) /\ pc \in [Requests -> Step] /\ reply \in [Requests -> Seq(Row)]
    BY <1>2, <2>2, <2>3 DEF List, HandlersInv, ListingInv, ListingTypeOK
  <2>5. CASE ReadSnapshots(r) \/ CountItems(r)
    <3>1. pc[r] \in Made /\ reply' = reply
      BY <2>5 DEF ReadSnapshots, CountItems, Steps, Made, listing
    <3>2. QED
      BY <1>2, <3>1 DEF HidingInv, MayShow
  <2>6. CASE AskCache(r)
    <3>1. Fresh(Key(op[r])) /\ reply'[r] = cache[Key(op[r])].rows
      BY <1>2, <2>1, <2>4, <2>6 DEF AskCache, Starts, Goto
    <3>2. /\ cache[Key(op[r])].expires \in Nat /\ now <= cache[Key(op[r])].expires
          /\ Around(p) \/ cache[Key(op[r])].expires <= hiding[p].at + TTL
      BY <1>2, <3>1 DEF HidingInv, EndsInTime, Fresh
    <3>3. hiding[p].at \in Nat /\ TTL \in Nat /\ now \in Nat
      BY <1>2, ListingAssumption DEF HidingInv, Hidden, ListingInv, ListingTypeOK
    <3>4. QED
      BY <3>2, <3>3
  <2>7. CASE FindFavorites(r) \/ ReadCategory(r) \/ ReadItems(r) \/ PublishRanking(r)
    BY <2>1, <2>4, <2>7 DEF FindFavorites, ReadCategory, ReadItems, PublishRanking, Starts, Steps,
                            Goto, Lists
  <2>8. CASE Store(r)
    BY <1>2, <2>1, <2>4, <2>8 DEF Store, Steps, Replied, Lists
  <2>9. QED
    BY <2>4, <2>5, <2>6, <2>7, <2>8 DEF ListingStep
<1>3. HandlersInv /\ ModerationInv /\ ListingInv /\ HidingInv /\ [Next]_vars =>
        [\A r \in Requests :
           Replied(r)' /\ ~Replied(r) =>
             \A k \in DOMAIN reply'[r] :
               LET p == reply'[r][k].item
               IN p \in Profiles /\ ~Visible(p) =>
                    \/ now <= hiding[p].at + TTL
                    \/ \E q \in Requests, h \in hiding[p].by :
                         op[q].kind \in {"list", "favorites"} /\ Overlapped(q, h)]_vars
  BY <1>2 DEF Hidden, Around, Lists
<1>4. QED
  BY <1>1, <1>3, ListingInvariant, HidingStepInv, PTL DEF Spec, HiddenWithinTTL
=============================================================================
