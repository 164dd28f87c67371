------------------------------ MODULE MCCatalogue ------------------------------
(***************************************************************************)
(* Each scenario is a list of requests that meet in one hazard of          *)
(* Catalogue.                                                              *)
(***************************************************************************)
EXTENDS Catalogue

CONSTANTS r1, r2, r3, r4, ann, vlog, blog, x, y, science, arts

All == [search |-> Items, page |-> 0]
Op(kind) == [kind |-> kind, user |-> ann, profile |-> vlog, item |-> x, category |-> science,
             status |-> "approved", active |-> FALSE, sets |-> {"category", "active"},
             query |-> All, late |-> FALSE, ranking |-> <<y, x>>, day |-> 2]

Reject == [Op("decide") EXCEPT !.status = "rejected"]
Of2(kind) == [Op(kind) EXCEPT !.profile = blog]
Search(late) == [Op("list") EXCEPT !.query.search = {x}, !.late = late]
Page2 == [Op("list") EXCEPT !.query.page = 1]
Publish == [Op("publish") EXCEPT !.ranking = <<y, vlog, x>>]
Snapshot2(i, c) == [Op("snapshot") EXCEPT !.item = i, !.category = c]
On(kind, i) == [Op(kind) EXCEPT !.item = i]
Recategorize == [On("updateItem", vlog) EXCEPT !.category = arts, !.active = TRUE]
SetActive(i, active) == [On("updateItem", i) EXCEPT !.active = active, !.sets = {"active"}]
Night(d) == [Op("cleanUp") EXCEPT !.day = d]

Scenarios == {
  <<Op("flag"), Op("flag"), Op("decide"), Of2("decide")>>,
  <<Op("flag"), Op("decide"), Op("resubmit"), Reject>>,
  <<Op("flag"), Of2("flag"), Op("decide"), Op("delete")>>,
  <<Op("setCategory"), [Op("setCategory") EXCEPT !.category = arts], Op("delete"), Op("toggle")>>,
  <<Op("setCategory"), Recategorize, On("deleteItem", vlog), Op("setCategory")>>,
  <<Op("setCategory"), On("deleteItem", vlog), SetActive(vlog, FALSE), Op("activateAll")>>,
  <<Op("list"), On("deleteItem", y), Recategorize, Op("activateAll")>>,
  <<Op("favor"), SetActive(x, FALSE), Op("deleteItem"), Op("favorites")>>,
  <<Op("toggle"), Op("toggle"), Op("toggle"), Op("delete")>>,
  <<Op("favor"), Op("favor"), Op("unfavor"), Op("favorites")>>,
  <<Op("favor"), On("favor", y), Op("favorites"), Op("activate")>>,
  <<Op("setCategory"), Op("decide"), Op("list"), Op("list")>>,
  <<Op("setCategory"), Publish, Op("decide"), Op("list")>>,
  <<Op("setCategory"), Op("resubmit"), Op("list"), Page2>>,
  <<Op("list"), Search(FALSE), Search(TRUE), Op("activate")>>,
  <<Op("publish"), Op("activate"), On("activate", vlog), Op("list")>>,
  <<Snapshot2(x, science), Snapshot2(x, arts), Night(2), Night(3)>>,
  <<Snapshot2(x, science), Snapshot2(y, science), Night(3), Snapshot2(x, science)>>,
  <<Snapshot2(x, science), Snapshot2(x, arts), Night(3), [Op("deleteAfter") EXCEPT !.day = 1]>> }

MCWorkloads == {r1 :> s[1] @@ r2 :> s[2] @@ r3 :> s[3] @@ r4 :> s[4] : s \in Scenarios}
=============================================================================
