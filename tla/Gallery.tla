-------------------------------- MODULE Gallery --------------------------------
(***************************************************************************)
(* Images: documents of the Gallery collection and the files they describe *)
(* (GalleryV1Service), and the picture a user has chosen                   *)
(* (Userv1Service).  An upload stores its file before its handler runs; a  *)
(* deletion removes the document and then the file, and swallows every     *)
(* error of its own.                                                       *)
(*                                                                         *)
(* An image and its file are named by the request that uploads them: file  *)
(* names are drawn at random.  Images of the migration have no file of     *)
(* their own here.                                                         *)
(***************************************************************************)
EXTENDS Naturals, Handlers

CONSTANTS
  People,          \* the users there are at first
  NoOne, NoImage,
  MigratedImages   \* those the migration may make

Images == Requests \cup MigratedImages

ASSUME GalleryAssumption ==
  /\ NoImage \notin Images /\ NoOne \notin People
  /\ Requests \cap MigratedImages = {}
  /\ \A w \in Workloads : \A r \in Requests :
       w[r].user \in People /\ w[r].image \in Images

VARIABLES
  files,      \* the files in public/upload/images
  gallery,    \* [ids -> the user whose picture it is, or NoOne]
  picture,    \* [users -> image], the field profilePicture
  target,     \* [Requests -> image], the image a handler deletes
  troubled    \* history: the requests one of whose calls failed, or that stopped

images == <<files, gallery, picture, target, troubled>>

GalleryTypeOK ==
  /\ files \subseteq Requests
  /\ DOMAIN gallery \subseteq Images
  /\ gallery \in [DOMAIN gallery -> People \cup {NoOne}]
  /\ DOMAIN picture \subseteq People
  /\ picture \in [DOMAIN picture -> Images \cup {NoImage}]
  /\ target \in [Requests -> Images \cup {NoImage}]
  /\ troubled \subseteq Requests

GalleryInit ==
  /\ files = {}
  /\ gallery = [i \in {} |-> NoOne]
  /\ picture = [u \in People |-> NoImage]
  /\ target = [r \in Requests |-> NoImage]
  /\ troubled = {}

AddImage(i, u) == gallery' = [j \in DOMAIN gallery \cup {i} |-> IF j = i THEN u ELSE gallery[j]]

\* multer stores the file of an upload; imageFileFilter refuses what is no image.
StoreFile(r, kind, step) ==
  /\ Starts(r, kind, step)
  /\ files' = files \cup {r}
  /\ UNCHANGED <<gallery, picture, target, troubled>>

RefuseFile(r) ==
  /\ Starts(r, "uploadOther", "failed")
  /\ UNCHANGED images

\* create
CreateImage(r) ==
  /\ Steps(r, "create", "done")
  /\ AddImage(r, NoOne)
  /\ UNCHANGED <<files, picture, target, troubled>>
-----------------------------------------------------------------------------
(* A user's picture.                                                       *)

\* The picture of a user as autopopulate gives it: none if its document is gone.
Populated(u) == IF picture[u] \in DOMAIN gallery THEN picture[u] ELSE NoImage

\* uploadUserProfilePicture
FindUploader(r) ==
  LET u == op[r].user
  IN \/ /\ u \notin DOMAIN picture
        /\ Steps(r, "findUser", "failed")
        /\ UNCHANGED images
     \/ /\ u \in DOMAIN picture
        /\ Steps(r, "findUser", IF Populated(u) = NoImage THEN "createPicture" ELSE "deleteOld")
        /\ target' = [target EXCEPT ![r] = Populated(u)]
        /\ UNCHANGED <<files, gallery, picture, troubled>>

CreatePicture(r) ==
  /\ Steps(r, "createPicture", "setPicture")
  /\ AddImage(r, op[r].user)
  /\ UNCHANGED <<files, picture, target, troubled>>

\* Variant: a picture once chosen stays.
PictureKept(r, old) == IF old = NoImage THEN r ELSE old

PictureAfter(r, old) == r

\* updateProfilePicture
SetPicture(r) ==
  LET u == op[r].user
  IN /\ Steps(r, "setPicture", IF u \in DOMAIN picture THEN "done" ELSE "failed")
     /\ picture' = IF u \in DOMAIN picture THEN [picture EXCEPT ![u] = PictureAfter(r, @)]
                   ELSE picture
     /\ UNCHANGED <<files, gallery, target, troubled>>

\* deleteProfilePicture deletes the image and leaves the field.
FindPicture(r) ==
  LET u == op[r].user
  IN \/ /\ u \notin DOMAIN picture
        /\ Starts(r, "deletePicture", "failed")
        /\ UNCHANGED images
     \/ /\ u \in DOMAIN picture
        /\ Starts(r, "deletePicture", IF Populated(u) = NoImage THEN "done" ELSE "delete")
        /\ target' = [target EXCEPT ![r] = Populated(u)]
        /\ UNCHANGED <<files, gallery, picture, troubled>>

\* deleteUser leaves his picture.
DeleteUser(r) ==
  /\ Starts(r, "deleteUser", "done")
  /\ picture' = [u \in DOMAIN picture \ {op[r].user} |-> picture[u]]
  /\ UNCHANGED <<files, gallery, target, troubled>>
-----------------------------------------------------------------------------
(* GalleryV1Service.delete, called by an administrator, for a user's       *)
(* picture, or by an upload that replaces it.                              *)

\* What comes after the deletion.
AfterDeletion(r) == IF op[r].kind = "uploadPicture" THEN "createPicture" ELSE "done"

AskDeletion(r) ==
  /\ Starts(r, "deleteImage", "delete")
  /\ target' = [target EXCEPT ![r] = op[r].image]
  /\ UNCHANGED <<files, gallery, picture, troubled>>

\* Variant: the file is left.
AfterDocumentOnly(r) == AfterDeletion(r)

\* If there is no document, reading its path throws.
AfterDocument(r) == IF target[r] \in DOMAIN gallery THEN "unlink" ELSE AfterDeletion(r)

\* findByIdAndDelete
DeleteDocument(r) ==
  /\ Steps(r, pc[r], AfterDocument(r))
  /\ pc[r] \in {"delete", "deleteOld"}
  /\ gallery' = [i \in DOMAIN gallery \ {target[r]} |-> gallery[i]]
  /\ UNCHANGED <<files, picture, target, troubled>>

Unlink(r) ==
  /\ Steps(r, "unlink", AfterDeletion(r))
  /\ files' = files \ {target[r]}
  /\ UNCHANGED <<gallery, picture, target, troubled>>
-----------------------------------------------------------------------------
\* Variant: a handler that fails removes the file it was given.
FilesCleaned(r) == files \ {r}

\* The file of an upload that fails stays.
FilesOnError(r) == files

\* A query or the file system fails.  The deletion swallows it and the caller
\* goes on; every other handler ends.
CallFails(r) ==
  /\ Running(r)
  /\ \/ pc[r] \in {"delete", "deleteOld", "unlink"} /\ Goto(r, AfterDeletion(r)) /\ UNCHANGED files
     \/ /\ pc[r] \notin {"delete", "deleteOld", "unlink"}
        /\ Goto(r, "broken")
        /\ files' = FilesOnError(r)
  /\ troubled' = troubled \cup {r}
  /\ UNCHANGED <<op, overlap, gallery, picture, target>>

\* The process stops.
HandlersStop ==
  /\ BreakAll
  /\ troubled' = troubled \cup {r \in Requests : Running(r)}
  /\ UNCHANGED <<files, gallery, picture, target>>

GalleryStep(r) ==
  \/ StoreFile(r, "upload", "create") \/ StoreFile(r, "uploadPicture", "findUser")
  \/ RefuseFile(r) \/ CreateImage(r)
  \/ FindUploader(r) \/ CreatePicture(r) \/ SetPicture(r)
  \/ FindPicture(r) \/ DeleteUser(r)
  \/ AskDeletion(r) \/ DeleteDocument(r) \/ Unlink(r)
-----------------------------------------------------------------------------
\* An uploaded image that is described exists: through failures and stops, a file
\* outlives its document and never the reverse.
DocumentHasFile == DOMAIN gallery \cap Requests \subseteq files

\* A file without a document is that of an upload that has not got to it or did
\* not succeed, or of a deletion that is between its two steps or was hit there:
\* nothing else leaves files behind.
FileHasDocument ==
  \A f \in files \ DOMAIN gallery :
    \/ pc[f] # "done"
    \/ \E r \in Requests : target[r] = f /\ (pc[r] = "unlink" \/ r \in troubled)

Uploads(u) == {r \in Requests : op[r].kind = "uploadPicture" /\ op[r].user = u}

\* A picture made for a user is his, unless two of his uploads overlapped, one
\* had trouble, or he is gone: each upload deletes the picture it found and
\* writes the field at last.
PictureIsUsed ==
  \A i \in DOMAIN gallery :
    LET u == gallery[i]
    IN u \in DOMAIN picture =>
         \/ picture[u] = i
         \/ pc[i] = "setPicture"
         \/ \E r \in Uploads(u) : r \in troubled \/ Overlapped(r, i)
=============================================================================
