------------------------------ MODULE Moderation ------------------------------
(***************************************************************************)
(* Social profiles after they were linked: users ask for a flag, admin-    *)
(* istrators decide, owners resubmit, choose the category that puts the    *)
(* profile among the compared items, mark it as a favorite and delete it   *)
(* (FlagRequestV1Service, SocialProfileV1Service); administrators update,  *)
(* activate and delete the items (ComparisonItemV1Service).                *)
(*                                                                         *)
(* The item of a profile carries the profile's id as its slug, which is    *)
(* unique: item is a function on Items, the profiles with an item and the  *)
(* items of no profile.  Updates leave the slug as it is.                  *)
(***************************************************************************)
EXTENDS Naturals, FiniteSets, Handlers

CONSTANTS
  Profiles, Categories, NoCategory,
  PlainItems  \* the items that are nobody's profile

Items == Profiles \cup PlainItems

Flags == {"no", "pending", "approved", "rejected", "submitted"}
Profile == [flag : Flags, category : Categories \cup {NoCategory}, favorite : BOOLEAN]
Item == [category : Categories, active : BOOLEAN]
FlagRequest == [by : Requests, profile : Profiles,
                status : {"pending", "approved", "rejected"}]

ASSUME ModerationAssumption ==
  /\ Categories # {} /\ NoCategory \notin Categories /\ Profiles \cap PlainItems = {}
  /\ \A w \in Workloads : \A r \in Requests :
       /\ w[r].profile \in Profiles /\ w[r].active \in BOOLEAN
       /\ w[r].kind \in {"setCategory", "updateItem"} => w[r].category \in Categories
       /\ w[r].kind = "decide" => w[r].status \in {"approved", "rejected"}

VARIABLES
  profile,       \* [ids -> Profile], the SocialProfile collection
  flagRequests,  \* the FlagRequest collection
  item,          \* [ids -> Item], the ComparisonItem collection
  mark           \* [Requests -> BOOLEAN], the mark a toggle has read

moderation == <<profile, flagRequests, item, mark>>

ModerationTypeOK ==
  /\ DOMAIN profile \subseteq Profiles
  /\ profile \in [DOMAIN profile -> Profile]
  /\ flagRequests \subseteq FlagRequest
  /\ DOMAIN item \subseteq Items
  /\ item \in [DOMAIN item -> Item]
  /\ mark \in [Requests -> BOOLEAN]

ModerationInit ==
  /\ profile = [p \in Profiles |-> [flag |-> "no", category |-> NoCategory,
                                    favorite |-> FALSE]]
  /\ flagRequests = {}
  /\ item = [i \in PlainItems |-> [category |-> CHOOSE c \in Categories : TRUE,
                                   active |-> TRUE]]
  /\ mark = [r \in Requests |-> FALSE]

Exists(r) == op[r].profile \in DOMAIN profile

\* findOneAndUpdate, findByIdAndUpdate or save of one field; an error if the
\* profile is gone.
Write(r, update(_)) ==
  profile' = IF Exists(r) THEN [profile EXCEPT ![op[r].profile] = update(@)] ELSE profile
-----------------------------------------------------------------------------
(* Flag requests.                                                          *)

\* create looks for the user's request, and then makes one in any case.
FindRequest(r) ==
  /\ Starts(r, "flag", "flagPending")
  /\ UNCHANGED moderation

\* flagProfile
Flagged(p, flag) == [p EXCEPT !.flag = flag]

FlagPending(r) ==
  /\ Steps(r, "flagPending", IF Exists(r) THEN "createRequest" ELSE "failed")
  /\ Write(r, LAMBDA p : Flagged(p, "pending"))
  /\ UNCHANGED <<flagRequests, item, mark>>

CreateRequest(r) ==
  /\ Steps(r, "createRequest", "done")
  /\ flagRequests' = flagRequests \cup
       {[by |-> r, profile |-> op[r].profile, status |-> "pending"]}
  /\ UNCHANGED <<profile, item, mark>>

\* An administrator's decision: first the profile's flag,
Decide(r) ==
  /\ Starts(r, "decide", IF Exists(r) THEN "updateRequests" ELSE "failed")
  /\ Write(r, LAMBDA p : Flagged(p, op[r].status))
  /\ UNCHANGED <<flagRequests, item, mark>>

\* Variant: no document has the field profileId.
DecidedNone(status) == flagRequests

\* updateMany({ profileId }, { status }): FlagRequest has a profile and no
\* profileId, a filter by a field the schema lacks is stripped, and every
\* request there is takes the status.
Decided(status) == {[q EXCEPT !.status = status] : q \in flagRequests}

\* and then the requests.
UpdateRequests(r) ==
  /\ Steps(r, "updateRequests", "done")
  /\ flagRequests' = Decided(op[r].status)
  /\ UNCHANGED <<profile, item, mark>>

Resubmit(r) ==
  /\ Starts(r, "resubmit", IF Exists(r) THEN "done" ELSE "failed")
  /\ Write(r, LAMBDA p : Flagged(p, "submitted"))
  /\ UNCHANGED <<flagRequests, item, mark>>
-----------------------------------------------------------------------------
(* The profile's category and item.                                        *)

\* setSocialProfileCategory reads the profile and the category.
ReadProfile(r) ==
  /\ Starts(r, "setCategory", IF Exists(r) THEN "saveCategory" ELSE "failed")
  /\ UNCHANGED moderation

\* Variant: the profile is stored without its category.
SavedWithout(p, category) == p

Saved(p, category) == [p EXCEPT !.category = category]

SaveCategory(r) ==
  /\ Steps(r, "saveCategory", IF Exists(r) THEN "createItem" ELSE "failed")
  /\ Write(r, LAMBDA p : Saved(p, op[r].category))
  /\ UNCHANGED <<flagRequests, item, mark>>

NewItem(r) == [category |-> op[r].category, active |-> TRUE]

\* createItem logs a second use of the slug and returns nothing, which
\* createProfileComparisonItem takes apart: an error, with the category saved.
CreateItem(r) ==
  LET p == op[r].profile
  IN \/ /\ p \in DOMAIN item
        /\ Steps(r, "createItem", "failed")
        /\ UNCHANGED moderation
     \/ /\ p \notin DOMAIN item
        /\ Steps(r, "createItem", "done")
        /\ item' = [i \in DOMAIN item \cup {p} |->
                      IF i = p THEN NewItem(r) ELSE item[i]]
        /\ UNCHANGED <<profile, flagRequests, mark>>

-----------------------------------------------------------------------------
(* The administrators' requests about items.                               *)

\* One query that finds an item by its id and writes it; an error if it is gone.
WritesItem(r, kind, step, written) ==
  \/ /\ op[r].item \in DOMAIN item
     /\ Starts(r, kind, step)
     /\ item' = written
     /\ UNCHANGED <<profile, flagRequests, mark>>
  \/ /\ op[r].item \notin DOMAIN item
     /\ Starts(r, kind, "failed")
     /\ UNCHANGED moderation

\* toggleActiveComparisonItem
ToggleActive(r) ==
  WritesItem(r, "activate", "done", [item EXCEPT ![op[r].item].active = op[r].active])

ToggleActiveAll(r) ==
  /\ Starts(r, "activateAll", "done")
  /\ item' = [i \in DOMAIN item |-> [item[i] EXCEPT !.active = op[r].active]]
  /\ UNCHANGED <<profile, flagRequests, mark>>

\* The fields the body has, op[r].sets, are written.
Updated(i, o) ==
  [category |-> IF "category" \in o.sets THEN o.category ELSE i.category,
   active |-> IF "active" \in o.sets THEN o.active ELSE i.active]

\* The listener of the update reads the length of the body's category: without
\* one the emit throws, and the request fails with the item updated.
UpdateItem(r) ==
  WritesItem(r, "updateItem", IF "category" \in op[r].sets THEN "done" ELSE "failed",
             [item EXCEPT ![op[r].item] = Updated(@, op[r])])

DeleteItem(r) ==
  WritesItem(r, "deleteItem", "done", [i \in DOMAIN item \ {op[r].item} |-> item[i]])
-----------------------------------------------------------------------------
(* The owner's favorite mark, and the end of a profile.                    *)

ReadMark(r) ==
  /\ Starts(r, "toggle", IF Exists(r) THEN "saveMark" ELSE "failed")
  /\ mark' = [mark EXCEPT ![r] = Exists(r) /\ profile[op[r].profile].favorite]
  /\ UNCHANGED <<profile, flagRequests, item>>

\* Variant: the mark is only ever set.
MarkSet(old) == TRUE

MarkAfter(old) == ~old

SaveMark(r) ==
  /\ Steps(r, "saveMark", IF Exists(r) THEN "done" ELSE "failed")
  /\ Write(r, LAMBDA p : [p EXCEPT !.favorite = MarkAfter(mark[r])])
  /\ UNCHANGED <<flagRequests, item, mark>>

\* delete removes the document; its requests stay.
DeleteProfile(r) ==
  /\ Starts(r, "delete", IF Exists(r) THEN "findItem" ELSE "done")
  /\ profile' = [p \in DOMAIN profile \ {op[r].profile} |-> profile[p]]
  /\ UNCHANGED <<flagRequests, item, mark>>

\* deleteItemByProfile deletes no item: it announces the deletion of one, and
\* the listener deletes its scores (ItemScores).
DeleteItemByProfile(r) ==
  /\ Steps(r, "findItem", "done")
  /\ UNCHANGED moderation

ModerationStep(r) ==
  \/ FindRequest(r) \/ FlagPending(r) \/ CreateRequest(r)
  \/ Decide(r) \/ UpdateRequests(r) \/ Resubmit(r)
  \/ ReadProfile(r) \/ SaveCategory(r) \/ CreateItem(r)
  \/ ToggleActive(r) \/ ToggleActiveAll(r) \/ UpdateItem(r) \/ DeleteItem(r)
  \/ ReadMark(r) \/ SaveMark(r) \/ DeleteProfile(r) \/ DeleteItemByProfile(r)
-----------------------------------------------------------------------------
Of(kind, p) == {r \in Requests : op[r].kind = kind /\ op[r].profile = p}

\* A pending request is one whose profile is flagged pending, until the owner
\* resubmits, except while a decision about the profile is between its two
\* writes, broke there, or overlapped the request: profile and requests are
\* separate documents, each handler writes the profile first.
PendingIsFlagged ==
  \A q \in flagRequests :
    /\ q.status = "pending" /\ q.profile \in DOMAIN profile
    /\ profile[q.profile].flag # "pending"
    => \/ \E r \in Of("resubmit", q.profile) : pc[r] = "done"
       \/ \E r \in Of("decide", q.profile) : \/ pc[r] \in {"updateRequests", "broken"}
                                             \/ Overlapped(r, q.by)

\* Toggles are not lost: a profile is a favorite after an odd number of them,
\* unless two overlapped, both of which read the same mark (updateAsFavorite).
ToggleParity ==
  \A p \in DOMAIN profile :
    LET toggles == {r \in Of("toggle", p) : pc[r] = "done"}
    IN profile[p].favorite # (Cardinality(toggles) % 2 = 1)
         => \E r, q \in Of("toggle", p) : r # q /\ Overlapped(r, q)

\* A profile has an item once it has a category, unless a request that sets it
\* is under way or broke before it made the item, or an administrator deleted
\* the item: the profile keeps its category then.  Profile and item are of two
\* categories only after two requests to set it, the second of which saves the
\* profile and leaves the item, or after an administrator's update of the item,
\* which leaves the profile (setSocialProfileCategory, updateItem, deleteItem).
ItemFollowsProfile ==
  \A p \in DOMAIN profile :
    LET setting == Of("setCategory", p)
        Asks(r, kind) == op[r].kind = kind /\ op[r].item = p
    IN /\ profile[p].category # NoCategory =>
            \/ p \in DOMAIN item
            \/ \E r \in setting : pc[r] \in {"createItem", "broken"}
            \/ \E r \in Requests : Asks(r, "deleteItem") /\ pc[r] = "done"
       /\ p \in DOMAIN item /\ item[p].category # profile[p].category =>
            \/ \E r, q \in setting : r # q /\ {pc[r], pc[q]} \cap {"idle"} = {}
            \/ \E r \in Requests : /\ Asks(r, "updateItem") /\ "category" \in op[r].sets
                                   /\ pc[r] # "idle"
=============================================================================
