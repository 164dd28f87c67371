-------------------------------- MODULE Listing --------------------------------
(***************************************************************************)
(* The list of a category's items, by place, page by page                  *)
(* (findAllWithRankingFromSnapshotOptimized): the public one, whose        *)
(* answers the HTTP cache keeps, and the one of a user's favorites.  The   *)
(* items are Moderation's, which hides those whose profile is flagged.     *)
(*                                                                         *)
(* There is one category; the search is given by the items whose names it  *)
(* matches.  The snapshots attached to each item and the count of items    *)
(* are read and reported, and nothing depends on them.                     *)
(***************************************************************************)
EXTENDS Moderation, Favorites, Sequences, SequencesExt

CONSTANTS
  PageSize,   \* pagination.limit
  TTL,        \* of an answer in the cache: 3600 in the code
  MaxTime     \* bound: the time that passes

Query == [search : SUBSET Items, page : Nat]
Row == [item : Items, place : Nat]
Entry == [rows : Seq(Row), expires : Nat]

\* A published ranking holds each item once: it comes from one query of them.
ASSUME ListingAssumption ==
  /\ IsFiniteSet(PlainItems) /\ FavoriteItems \subseteq Items
  /\ PageSize \in Nat \ {0} /\ TTL \in Nat /\ MaxTime \in Nat
  /\ \A w \in Workloads : \A r \in Requests :
       /\ w[r].query \in Query
       /\ w[r].kind = "publish" => w[r].ranking \in Seq(Items) /\ IsInjective(w[r].ranking)

VARIABLES
  ranked,    \* the category's categoryRankingItems that have a snapshot, in order
  cache,     \* [keys -> Entry], answers by the url they were made for
  now,
  order,     \* [Requests -> Seq(Items)], the ranking a handler has read
  wanted,    \* [Requests -> SUBSET Items], the items it is asked for
  reply      \* [Requests -> Seq(Row)], its page

listing == <<ranked, cache, now, order, wanted, reply>>

ListingTypeOK ==
  /\ ranked \in Seq(Items)
  /\ DOMAIN cache \subseteq Query
  /\ \A k \in DOMAIN cache : cache[k] \in Entry
  /\ now \in 0..MaxTime
  /\ order \in [Requests -> Seq(Items)]
  /\ wanted \in [Requests -> SUBSET Items]
  /\ reply \in [Requests -> Seq(Row)]

ListingInit ==
  /\ ranked = SetToSeq(PlainItems)
  /\ cache = [k \in {} |-> [rows |-> <<>>, expires |-> 0]]
  /\ now = 0
  /\ order = [r \in Requests |-> <<>>]
  /\ wanted = [r \in Requests |-> Items]
  /\ reply = [r \in Requests |-> <<>>]

\* Variant: the search is no part of the key.
KeyOfPage(o) == [search |-> Items, page |-> o.query.page]

\* trackBy cuts the url at '&timestamp'; a late search comes after it.
Key(o) == IF o.late THEN [search |-> Items, page |-> o.query.page] ELSE o.query

\* Variant: an answer stays for good.
FreshForever(k) == k \in DOMAIN cache

Fresh(k) == k \in DOMAIN cache /\ now <= cache[k].expires

\* CacheInterceptor looks the url up.
AskCache(r) ==
  /\ Starts(r, "list", IF Fresh(Key(op[r])) THEN "done" ELSE "category")
  /\ reply' = [reply EXCEPT ![r] = IF Fresh(Key(op[r])) THEN cache[Key(op[r])].rows ELSE @]
  /\ UNCHANGED <<ranked, cache, now, order, wanted>>

\* FavoriteItemV1Service.get finds the user's favorites, an error if he has none.
FindFavorites(r) ==
  LET ids == {f.item : f \in {g \in favorites : g.user = op[r].user}}
  IN /\ Starts(r, "favorites", IF ids = {} THEN "failed" ELSE "category")
     /\ wanted' = [wanted EXCEPT ![r] = ids]
     /\ UNCHANGED <<ranked, cache, now, order, reply>>

ReadCategory(r) ==
  /\ Steps(r, "category", "items")
  /\ order' = [order EXCEPT ![r] = ranked]
  /\ UNCHANGED <<ranked, cache, now, wanted, reply>>

\* An item is hidden while its profile is flagged; one whose profile is deleted
\* is not.
Visible(i) == i \in DOMAIN profile => profile[i].flag \notin {"approved", "submitted"}

Listed(r) == {i \in DOMAIN item \cap wanted[r] : Visible(i)}

\* filter: the elements of s that are in S, in the order of s.
Among(s, S) ==
  LET at == {n \in DOMAIN s : s[n] \in S}
      nth(k) == CHOOSE n \in at : Cardinality({m \in at : m <= n}) = k
  IN [k \in 1..Cardinality(at) |-> s[nth(k)]]

\* categoryItemsIds: those of the ranking that are listed and active.
Placed(r) == Among(order[r], {i \in Listed(r) : item[i].active})

\* Variant: items are placed as they were ranked.
PlaceInRanking(r, i) == IF \E k \in DOMAIN order[r] : order[r][k] = i
                        THEN CHOOSE k \in DOMAIN order[r] : order[r][k] = i
                        ELSE 0

PlaceOf(r, i) == IF \E k \in DOMAIN Placed(r) : Placed(r)[k] = i
                 THEN CHOOSE k \in DOMAIN Placed(r) : Placed(r)[k] = i
                 ELSE 0

\* Those without a place come first, in the order of the collection; the search
\* and the page are taken after the places are given.
Rows(r) ==
  LET unplaced == {i \in Listed(r) : PlaceOf(r, i) = 0}
      sorted == SetToSeq(unplaced) \o Placed(r)
      matching == Among(sorted, op[r].query.search)
      skip == op[r].query.page * PageSize
      page == {k \in 1..PageSize : skip + k <= Len(matching)}
  IN [k \in page |-> [item |-> matching[skip + k], place |-> PlaceOf(r, matching[skip + k])]]

ReadItems(r) ==
  /\ Steps(r, "items", "snapshots")
  /\ reply' = [reply EXCEPT ![r] = Rows(r)]
  /\ UNCHANGED <<ranked, cache, now, order, wanted>>

\* Favorites are counted by their ids; the answer to the public list is cached.
ReadSnapshots(r) ==
  /\ Steps(r, "snapshots", IF op[r].kind = "favorites" THEN "done" ELSE "count")
  /\ UNCHANGED listing

CountItems(r) ==
  /\ Steps(r, "count", "store")
  /\ UNCHANGED listing

\* The interceptor stores an answer when it has been given.
Store(r) ==
  /\ Steps(r, "store", "done")
  /\ cache' = [k \in DOMAIN cache \cup {Key(op[r])} |->
                 IF k = Key(op[r]) THEN [rows |-> reply[r], expires |-> now + TTL]
                 ELSE cache[k]]
  /\ UNCHANGED <<ranked, now, order, wanted, reply>>

\* The consumer of ScoreSnapshot publishes a ranking.
PublishRanking(r) ==
  /\ Starts(r, "publish", "done")
  /\ ranked' = op[r].ranking
  /\ UNCHANGED <<cache, now, order, wanted, reply>>

Tick ==
  /\ now < MaxTime /\ now' = now + 1
  /\ UNCHANGED <<handlers, ranked, cache, order, wanted, reply>>

ListingStep(r) ==
  \/ AskCache(r) \/ FindFavorites(r) \/ ReadCategory(r) \/ ReadItems(r)
  \/ ReadSnapshots(r) \/ CountItems(r) \/ Store(r) \/ PublishRanking(r)
-----------------------------------------------------------------------------
Replied(r) == op[r].kind \in {"list", "favorites"} /\ pc[r] \in {"store", "done"}

\* A request whose search the cache may take for nobody's: it comes after the
\* timestamp of its url.
Misfiled(r) == \E q \in Requests : /\ op[q].kind = "list" /\ op[q].late /\ pc[q] # "idle"
                                   /\ op[r].kind = "list" /\ Key(op[q]) = Key(op[r])

\* The places on a page follow one another, from 1 on the first, whatever was
\* deactivated, hidden or ranked anew between the query of the category and that
\* of the items, and whoever the page was made for: no place is passed over but
\* by a search.
PlacesConsecutive ==
  \A r \in Requests :
    Replied(r) /\ op[r].query.search = Items /\ ~Misfiled(r) =>
      \A k \in DOMAIN reply[r] :
        LET place == reply[r][k].place
        IN \/ place = 0 /\ (k > 1 => reply[r][k - 1].place = 0)
           \/ place = 1 /\ k = 1
           \/ k > 1 /\ place = reply[r][k - 1].place + 1
           \/ k = 1 /\ op[r].query.page > 0

\* The cache gives nobody the answer to another search, unless a search came
\* after the timestamp.
AnsweredForSearch ==
  \A r \in Requests :
    Replied(r) /\ ~Misfiled(r) => \A k \in DOMAIN reply[r] : reply[r][k].item \in op[r].query.search
=============================================================================
