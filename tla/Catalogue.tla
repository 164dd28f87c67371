------------------------------- MODULE Catalogue -------------------------------
(***************************************************************************)
(* What users see of the compared items and do to them beside voting:      *)
(* profiles and their flags, favorites, the lists and their cache, and the *)
(* snapshots the lists show, as one server.  Its requests interleave, its  *)
(* queries may fail and its process may restart; the collections and the   *)
(* cache, which is one of them, stay.                                      *)
(***************************************************************************)
EXTENDS Listing, Retention

CONSTANT MaxFaults   \* bound: failed queries and restarts

VARIABLES
  faults,
  hiding   \* history: [Profiles -> [at, by]], when and by which request the item
           \* was last hidden

vars == <<handlers, moderation, favorites, listing, retention, faults, hiding>>

TypeOK ==
  /\ ModerationTypeOK /\ FavoritesTypeOK /\ ListingTypeOK /\ RetentionTypeOK
  /\ faults \in 0..MaxFaults
  /\ hiding \in [Profiles -> [at : Nat, by : SUBSET Requests]]

Init ==
  /\ HandlersInit /\ ModerationInit /\ FavoritesInit /\ ListingInit /\ RetentionInit
  /\ faults = 0
  /\ hiding = [p \in Profiles |-> [at |-> 0, by |-> {}]]

Moderate(r) ==
  /\ ModerationStep(r)
  /\ hiding' = [p \in Profiles |->
                  IF Visible(p) /\ ~Visible(p)' THEN [at |-> now, by |-> {r}] ELSE hiding[p]]
  /\ UNCHANGED <<favorites, listing, retention, faults>>

Favor(r) == FavoriteStep(r) /\ UNCHANGED <<moderation, listing, retention, faults, hiding>>

List(r) == ListingStep(r) /\ UNCHANGED <<moderation, favorites, retention, faults, hiding>>

Retain(r) == RetentionStep(r) /\ UNCHANGED <<moderation, favorites, listing, faults, hiding>>

Asked(kind) == \E r \in Requests : op[r].kind = kind

\* Bound: time passes where it is looked at.
Pass ==
  \/ Asked("list") /\ Tick /\ UNCHANGED <<moderation, favorites, retention, faults, hiding>>
  \/ Asked("cleanUp") /\ Midnight /\ UNCHANGED <<moderation, favorites, listing, faults, hiding>>

Fault ==
  /\ faults < MaxFaults /\ faults' = faults + 1
  /\ BreakAll \/ \E r \in Requests : Breaks(r)
  /\ UNCHANGED <<moderation, favorites, listing, retention, hiding>>

Next == (\E r \in Requests : Moderate(r) \/ Favor(r) \/ List(r) \/ Retain(r)) \/ Pass \/ Fault

Spec == Init /\ [][Next]_vars
-----------------------------------------------------------------------------
\* A list shows an item whose profile is flagged no longer than an answer stays in
\* the cache, unless a list overlapped the request that hid it: that one may
\* have read the item before, and its answer is stored and served after
\* (FlagRequestV1Service.updateRequest does not touch the cache).
HiddenWithinTTL ==
  [][\A r \in Requests :
       Replied(r)' /\ ~Replied(r) =>
         \A k \in DOMAIN reply'[r] :
           LET p == reply'[r][k].item
           IN p \in Profiles /\ ~Visible(p) =>
                \/ now <= hiding[p].at + TTL
                \/ \E q \in Requests, h \in hiding[p].by :
                     op[q].kind \in {"list", "favorites"} /\ Overlapped(q, h)]_vars
=============================================================================
