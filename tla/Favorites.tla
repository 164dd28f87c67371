------------------------------- MODULE Favorites -------------------------------
(***************************************************************************)
(* The items users keep as favorites (FavoriteItemV1Service).  No index    *)
(* keeps a user's favorites of one item apart: create looks for one        *)
(* before it makes one.                                                    *)
(***************************************************************************)
EXTENDS Handlers

CONSTANTS Users, FavoriteItems

VARIABLE favorites   \* the FavoriteItem collection

Favorite == [by : Requests, user : Users, item : FavoriteItems]

ASSUME FavoritesAssumption ==
  \A w \in Workloads : \A r \in Requests :
    w[r].kind \in {"favor", "unfavor"} => w[r].user \in Users /\ w[r].item \in FavoriteItems

FavoritesTypeOK == favorites \subseteq Favorite

FavoritesInit == favorites = {}

\* Variant: nobody looks for the favorite.
FoundNone(r) == {}

\* The documents findOne({ user, comparisonItem }) may return.
Found(r) == {f \in favorites : f.user = op[r].user /\ f.item = op[r].item}

FindFavorite(r) ==
  /\ Starts(r, "favor", IF Found(r) = {} THEN "insertFavorite" ELSE "done")
  /\ UNCHANGED favorites

InsertFavorite(r) ==
  /\ Steps(r, "insertFavorite", "done")
  /\ favorites' = favorites \cup {[by |-> r, user |-> op[r].user, item |-> op[r].item]}

\* findOneAndDelete takes one document of those there are.
RemoveFavorite(r) ==
  /\ Starts(r, "unfavor", "done")
  /\ \/ Found(r) = {} /\ UNCHANGED favorites
     \/ \E f \in Found(r) : favorites' = favorites \ {f}

FavoriteStep(r) == FindFavorite(r) \/ InsertFavorite(r) \/ RemoveFavorite(r)
-----------------------------------------------------------------------------
\* A user has an item twice among his favorites only from two requests that
\* overlapped.  (One removal then leaves it a favorite.)
FavoriteTwinsOverlap ==
  \A f, g \in favorites :
    f.user = g.user /\ f.item = g.item /\ f.by # g.by => Overlapped(f.by, g.by)
=============================================================================
