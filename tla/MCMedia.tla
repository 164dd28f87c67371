-------------------------------- MODULE MCMedia --------------------------------
(***************************************************************************)
(* Each scenario is a list of requests that meet in one hazard of Media,   *)
(* with the pages the command reads, or none.  MIT and M.I.T. have the     *)
(* same slug.                                                              *)
(***************************************************************************)
EXTENDS Media, TLC

CONSTANTS r1, r2, r3, r4, ann, bob, mit, mit2, yale

Op(kind) == [kind |-> kind, user |-> ann, image |-> r1]
Of(kind, u) == [Op(kind) EXCEPT !.user = u]
Delete(i) == [Op("deleteImage") EXCEPT !.image = i]
Nothing == Op("none")

MCImages == Colleges \X {0, 1}
MCSlugOf == mit :> "mit" @@ mit2 :> "mit" @@ yale :> "yale"

Scenarios == {
  <<Op("uploadPicture"), Op("uploadPicture"), Op("uploadPicture"), Delete(r1)>>,
  <<Op("uploadPicture"), Op("uploadPicture"), Op("deletePicture"), Op("deleteUser")>>,
  <<Op("uploadPicture"), Of("uploadPicture", bob), Op("deletePicture"), Of("deletePicture", bob)>>,
  <<Op("upload"), Op("uploadOther"), Delete(r1), Delete(r1)>> }

Requested(s) == r1 :> s[1] @@ r2 :> s[2] @@ r3 :> s[3] @@ r4 :> s[4]

Imports ==
  Requested(<<Nothing, Nothing, Nothing, Nothing>>) :> <<{mit, mit2}, {yale}>>
  @@ Requested(<<Delete(<<mit, 0>>), Nothing, Nothing, Nothing>>) :> <<{mit}, {mit2}>>

MCWorkloads == {Requested(s) : s \in Scenarios} \cup DOMAIN Imports
MCServed == [w \in MCWorkloads |-> IF w \in DOMAIN Imports THEN Imports[w] ELSE <<>>]
=============================================================================
