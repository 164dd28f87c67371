------------------------------ MODULE MediaProofs ------------------------------
(***************************************************************************)
(* Theorems about Media: its types, and, whatever requests overlap, fail   *)
(* or stop, that documents and files agree, that a user's picture is the   *)
(* one he shows, and that an image the import made is its item's.          *)
(***************************************************************************)
EXTENDS Media, TLAPS

Step == {"idle", "create", "findUser", "deleteOld", "createPicture", "setPicture",
         "delete", "unlink"} \cup Finished

\* Handlers' variables have types of their own.
HandlersTypeOK == op \in Workloads /\ pc \in [Requests -> Step]

IType == TypeOK /\ HandlersTypeOK
-----------------------------------------------------------------------------
(* Types.                                                                  *)

LEMMA ImageTypes ==
  /\ Requests \subseteq Images /\ MigratedImages \subseteq Images
  /\ \A w \in Workloads : \A r \in Requests : w[r].user \in People /\ w[r].image \in Images
BY GalleryAssumption DEF Images

\* A handler's step keeps the types of what handlers have.
LEMMA GalleryStepTypes ==
  ASSUME IType, NEW r \in Requests, GalleryStep(r)
  PROVE  GalleryTypeOK' /\ HandlersTypeOK' /\ op' = op
<1> USE ImageTypes DEF IType, TypeOK, GalleryTypeOK, HandlersTypeOK, Goto, Step, Finished
<1> DEFINE Goal == GalleryTypeOK' /\ HandlersTypeOK' /\ op' = op
<1>1. ASSUME StoreFile(r, "upload", "create") \/ StoreFile(r, "uploadPicture", "findUser")
      PROVE Goal
  BY <1>1 DEF StoreFile, Starts
<1>2. CASE RefuseFile(r)
  BY <1>2 DEF RefuseFile, Starts, images
<1>3. CASE CreateImage(r)
  BY <1>3 DEF CreateImage, Steps, AddImage
<1>4. CASE FindUploader(r)
  BY <1>4 DEF FindUploader, Steps, images, Populated
<1>5. CASE CreatePicture(r)
  BY <1>5 DEF CreatePicture, Steps, AddImage
<1>6. CASE SetPicture(r)
  BY <1>6 DEF SetPicture, Steps, PictureAfter
<1>7. CASE FindPicture(r)
  BY <1>7 DEF FindPicture, Starts, images, Populated
<1>8. CASE DeleteUser(r)
  BY <1>8 DEF DeleteUser, Starts
<1>9. CASE AskDeletion(r)
  BY <1>9 DEF AskDeletion, Starts
<1>10. CASE DeleteDocument(r)
  BY <1>10 DEF DeleteDocument, Steps, AfterDocument, AfterDeletion
<1>11. CASE Unlink(r)
  BY <1>11 DEF Unlink, Steps, AfterDeletion
<1>12. QED
  BY <1>1, <1>2, <1>3, <1>4, <1>5, <1>6, <1>7, <1>8, <1>9, <1>10, <1>11 DEF GalleryStep

\* A failing call and a stop keep them too.
LEMMA GalleryFaultTypes ==
  ASSUME IType, (\E r \in Requests : CallFails(r)) \/ HandlersStop
  PROVE  GalleryTypeOK' /\ HandlersTypeOK' /\ op' = op
<1> USE DEF IType, TypeOK, GalleryTypeOK, HandlersTypeOK, Goto, Step, Finished
<1>1. ASSUME NEW r \in Requests, CallFails(r)
      PROVE  GalleryTypeOK' /\ HandlersTypeOK' /\ op' = op
  BY <1>1 DEF CallFails, AfterDeletion, FilesOnError
<1>2. CASE HandlersStop
  BY <1>2 DEF HandlersStop, BreakAll
<1>3. QED
  BY <1>1, <1>2

\* The steps of the import keep every type.
LEMMA MigrationStepTypes ==
  ASSUME IType, MigrationStep
  PROVE  GalleryTypeOK' /\ HandlersTypeOK' /\ MigrationTypeOK'
<1> DEFINE Goal == GalleryTypeOK' /\ HandlersTypeOK' /\ MigrationTypeOK'
           JobType == [at : {"none", "sending", "waiting"} \cup Active \cup Ended, stalls : {0, 1}]
<1>1. /\ job \in [Jobs -> JobType] /\ page \in 1..Len(Pages) + 1 /\ Pages \in Seq(SUBSET Colleges)
      /\ DOMAIN items \subseteq {SlugOf[c] : c \in Colleges}
      /\ items \in [DOMAIN items -> [by : Colleges, image : MigratedImages \cup {NoImage}]]
      /\ upset \subseteq Jobs
  BY MigrationAssumption DEF IType, TypeOK, MigrationTypeOK, HandlersTypeOK, Pages
<1>2. ASSUME UNCHANGED handlers PROVE HandlersTypeOK' /\ Pages' = Pages
  BY <1>2 DEF IType, HandlersTypeOK, handlers, Pages
<1>3. ASSUME UNCHANGED images PROVE GalleryTypeOK'
  BY <1>3 DEF IType, TypeOK, GalleryTypeOK, images
<1>4. ASSUME NEW j \in Jobs, NEW from, NEW to \in {"none", "sending", "waiting"} \cup Active \cup Ended,
             Moves(j, from, to)
      PROVE  job' \in [Jobs -> JobType]
  BY <1>1, <1>4 DEF Moves
<1>5. \A c \in Colleges : AddJob(c) \in Jobs /\ ImageJob(c) \in Jobs
  BY DEF Jobs, AddJob, ImageJob
<1>6. CASE FetchPage
  <2>1. job' \in [Jobs -> JobType]
    BY <1>1, <1>6 DEF FetchPage
  <2>2. page' \in 1..Len(Pages) + 1
    BY <1>1, <1>6 DEF FetchPage, MorePages
  <2>3. QED
    BY <1>1, <1>2, <1>3, <1>6, <2>1, <2>2 DEF FetchPage, MigrationTypeOK
<1>7. ASSUME NEW j \in Jobs, Arrive(j) \/ Take(j) PROVE Goal
  <2>1. job' \in [Jobs -> JobType]
    BY <1>4, <1>7 DEF Arrive, Take, Active
  <2>2. QED
    BY <1>1, <1>2, <1>3, <1>7, <2>1 DEF Arrive, Take, MigrationTypeOK
<1>8. ASSUME NEW c \in Colleges, CreateCollege(c) PROVE Goal
  <2>1. job' \in [Jobs -> JobType]
    BY <1>4, <1>5, <1>8 DEF CreateCollege, Active, Ended
  <2>2. /\ DOMAIN items' \subseteq {SlugOf[d] : d \in Colleges}
        /\ items' \in [DOMAIN items' -> [by : Colleges, image : MigratedImages \cup {NoImage}]]
    BY <1>1, <1>8 DEF CreateCollege
  <2>3. QED
    BY <1>1, <1>2, <1>3, <1>8, <2>1, <2>2 DEF CreateCollege, MigrationTypeOK
<1>9. ASSUME NEW c \in Colleges, SendImage(c) PROVE Goal
  <2>1. job' \in [Jobs -> JobType]
    BY <1>1, <1>5, <1>9 DEF SendImage, Ended
  <2>2. QED
    BY <1>1, <1>2, <1>3, <1>9, <2>1 DEF SendImage, MigrationTypeOK
<1>10. ASSUME NEW c \in Colleges, MigrateImage(c) PROVE Goal
  <2>1. job' \in [Jobs -> JobType]
    BY <1>4, <1>5, <1>10 DEF MigrateImage, Active
  <2>2. <<c, job[ImageJob(c)].stalls>> \in MigratedImages
    BY <1>1, <1>5, MigrationAssumption
  <2>3. GalleryTypeOK'
    BY <1>10, <2>2 DEF MigrateImage, AddImage, IType, TypeOK, GalleryTypeOK, Images
  <2>4. QED
    BY <1>1, <1>2, <1>10, <2>1, <2>3 DEF MigrateImage, MigrationTypeOK
<1>11. ASSUME NEW c \in Colleges, UpdateItem(c) PROVE Goal
  <2>1. job' \in [Jobs -> JobType]
    BY <1>4, <1>5, <1>11 DEF UpdateItem, Ended
  <2>2. ImageOf(c) \in MigratedImages
    BY <1>1, <1>5, MigrationAssumption DEF ImageOf
  <2>3. /\ DOMAIN items' \subseteq {SlugOf[d] : d \in Colleges}
        /\ items' \in [DOMAIN items' -> [by : Colleges, image : MigratedImages \cup {NoImage}]]
    BY <1>1, <1>11, <2>2 DEF UpdateItem
  <2>4. QED
    BY <1>1, <1>2, <1>3, <1>11, <2>1, <2>3 DEF UpdateItem, MigrationTypeOK
<1>12. QED
  BY <1>6, <1>7, <1>8, <1>9, <1>10, <1>11 DEF MigrationStep, CollegeStep

\* So do failures, losses and stops.
LEMMA FaultTypes ==
  ASSUME IType, Fault
  PROVE  IType'
<1> DEFINE JobType == [at : {"none", "sending", "waiting"} \cup Active \cup Ended, stalls : {0, 1}]
<1>1. /\ job \in [Jobs -> JobType] /\ page \in 1..Len(Pages) + 1 /\ Pages \in Seq(SUBSET Colleges)
      /\ upset \subseteq Jobs /\ faults' \in 0..MaxFaults
  BY MigrationAssumption, FaultAssumption
  DEF IType, TypeOK, MigrationTypeOK, HandlersTypeOK, Pages, Fault
<1>2. ASSUME UNCHANGED <<handlers, images>>
      PROVE  HandlersTypeOK' /\ GalleryTypeOK' /\ Pages' = Pages
  BY <1>2 DEF IType, TypeOK, GalleryTypeOK, HandlersTypeOK, handlers, images, Pages
<1>3. ASSUME NEW r \in Requests, CallFails(r), UNCHANGED migration PROVE IType'
  <2>1. GalleryTypeOK' /\ HandlersTypeOK' /\ op' = op
    BY <1>3, GalleryFaultTypes
  <2>2. MigrationTypeOK'
    BY <1>3, <2>1 DEF IType, TypeOK, MigrationTypeOK, migration, Pages
  <2>3. QED
    BY <1>1, <2>1, <2>2 DEF IType, TypeOK
<1>4. ASSUME HandlersStop, WorkersStop PROVE IType'
  <2>1. GalleryTypeOK' /\ HandlersTypeOK' /\ op' = op
    BY <1>4, GalleryFaultTypes
  <2>2. \A j \in Jobs : Stalled(j) \in JobType
    BY <1>1 DEF Stalled, Ended
  <2>3. job' \in [Jobs -> JobType]
    BY <1>1, <1>4, <2>2 DEF WorkersStop, Ended
  <2>4. upset' \subseteq Jobs
    BY <1>1, <1>4 DEF WorkersStop, Jobs, ImageJob
  <2>5. MigrationTypeOK'
    BY <1>4, <2>1, <2>3, <2>4 DEF WorkersStop, IType, TypeOK, MigrationTypeOK, Pages
  <2>6. QED
    BY <1>1, <2>1, <2>5 DEF IType, TypeOK
<1>5. ASSUME NEW j \in Jobs, JobFails(j) \/ LoseJob(j) PROVE IType'
  <2>1. job' \in [Jobs -> JobType]
    BY <1>1, <1>5 DEF JobFails, LoseJob, Moves, Ended
  <2>2. QED
    BY <1>1, <1>2, <1>5, <2>1 DEF JobFails, LoseJob, IType, TypeOK, MigrationTypeOK
<1>6. ASSUME RunnerStops PROVE IType'
  <2>1. job' \in [Jobs -> JobType]
    BY <1>1, <1>6 DEF RunnerStops, Ended
  <2>2. \A n \in DOMAIN Pages : Pages[n] \subseteq Colleges
    BY <1>1
  <2>3. UNION {Pages[n] : n \in page..Len(Pages)} \subseteq Colleges
    BY <1>1, <2>2
  <2>4. upset' \subseteq Jobs
    BY <1>1, <1>6, <2>3 DEF RunnerStops, Jobs, AddJob
  <2>5. page' \in 1..Len(Pages) + 1
    BY <1>1, <1>6 DEF RunnerStops
  <2>6. QED
    BY <1>1, <1>2, <1>6, <2>1, <2>4, <2>5 DEF RunnerStops, IType, TypeOK, MigrationTypeOK
<1>7. QED
  BY <1>3, <1>4, <1>5, <1>6 DEF Fault

LEMMA InitTypes == Init => IType
<1> SUFFICES ASSUME Init PROVE IType
  OBVIOUS
<1>1. GalleryTypeOK /\ HandlersTypeOK
  BY DEF Init, HandlersInit, GalleryInit, GalleryTypeOK, HandlersTypeOK, Step
<1>2. MigrationTypeOK
  BY MigrationAssumption DEF Init, HandlersInit, MigrationInit, MigrationTypeOK, Pages
<1>3. QED
  BY <1>1, <1>2, FaultAssumption DEF Init, IType, TypeOK

LEMMA StepTypes == IType /\ [Next]_vars => IType'
<1> SUFFICES ASSUME IType, [Next]_vars PROVE IType'
  OBVIOUS
<1>1. ASSUME NEW r \in Requests, Handle(r) PROVE IType'
  <2>1. GalleryTypeOK' /\ HandlersTypeOK' /\ op' = op
    BY <1>1, GalleryStepTypes DEF Handle
  <2>2. QED
    BY <1>1, <2>1 DEF Handle, IType, TypeOK, MigrationTypeOK, migration, Pages
<1>2. CASE Migrate
  BY <1>2, MigrationStepTypes DEF Migrate, IType, TypeOK
<1>3. CASE Fault
  BY <1>3, FaultTypes
<1>4. CASE UNCHANGED vars
  BY <1>4 DEF vars, handlers, images, migration, IType, TypeOK, GalleryTypeOK,
              HandlersTypeOK, MigrationTypeOK, Pages
<1>5. QED
  BY <1>1, <1>2, <1>3, <1>4 DEF Next

\* Images, users' pictures and the import keep their types: requests, workers,
\* failures and stops included.
THEOREM MediaTypeCorrect == Spec => []TypeOK
<1>1. IType => TypeOK
  BY DEF IType
<1>2. QED
  BY <1>1, InitTypes, StepTypes, PTL DEF Spec
-----------------------------------------------------------------------------
(* Documents and files.                                                    *)

\* An upload that has not made its document yet.
NoDocumentYet(r) ==
  \/ pc[r] \in {"idle", "create", "findUser", "deleteOld", "createPicture"}
  \/ pc[r] = "unlink" /\ op[r].kind = "uploadPicture"

\* The queries each kind of request comes to.
KindsInv ==
  \A r \in Requests :
    /\ pc[r] \in {"findUser", "deleteOld", "createPicture", "setPicture"}
         => op[r].kind = "uploadPicture"
    /\ pc[r] = "create" => op[r].kind = "upload"
    /\ pc[r] = "delete" => op[r].kind \in {"deletePicture", "deleteImage"}
    /\ pc[r] = "unlink" => op[r].kind \in {"deletePicture", "deleteImage", "uploadPicture"}
    /\ r \in files => op[r].kind \in {"upload", "uploadPicture"} /\ pc[r] # "idle"

\* An upload has its file before it makes the document.
UploadsInv == \A r \in Requests : pc[r] # "idle" /\ NoDocumentYet(r) => r \in files

GalleryInv == \A i \in DOMAIN gallery \cap Requests : i \in files /\ ~NoDocumentYet(i)

\* A deletion that is about to remove a file has removed its document for good.
UnlinksInv ==
  \A r \in Requests : pc[r] = "unlink" /\ target[r] \in Requests =>
    target[r] \notin DOMAIN gallery /\ ~NoDocumentYet(target[r])

\* Whoever had trouble looks for no other image to delete.
TroubleInv == \A r \in troubled : pc[r] \notin {"idle", "findUser"}

\* A file whose upload is past its insert and that has no document any more is
\* the target of a deletion between its two steps, or that was hit there.
OrphansInv ==
  \A f \in files \ DOMAIN gallery :
    pc[f] \in {"setPicture", "done"} =>
      \E r \in Requests : target[r] = f /\ (pc[r] = "unlink" \/ r \in troubled)

Inv == KindsInv /\ UploadsInv /\ GalleryInv /\ UnlinksInv /\ TroubleInv /\ OrphansInv

\* No step of a handler breaks the invariant.
LEMMA GalleryStepInv ==
  ASSUME IType, Inv, NEW r \in Requests, GalleryStep(r)
  PROVE  Inv'
<1> USE DEF Inv, KindsInv, UploadsInv, GalleryInv, UnlinksInv, TroubleInv, OrphansInv,
            NoDocumentYet, Goto
<1>0. /\ pc \in [Requests -> Step] /\ target \in [Requests -> Images \cup {NoImage}]
      /\ files \subseteq Requests /\ troubled \subseteq Requests /\ r \in Images
  BY ImageTypes DEF IType, TypeOK, GalleryTypeOK, HandlersTypeOK
<1>1. CASE StoreFile(r, "upload", "create") \/ StoreFile(r, "uploadPicture", "findUser")
  BY <1>0, <1>1 DEF StoreFile, Starts
<1>2. CASE RefuseFile(r)
  BY <1>0, <1>2 DEF RefuseFile, Starts, images
<1>3. CASE CreateImage(r)
  BY <1>0, <1>3 DEF CreateImage, Steps, AddImage
<1>4. CASE FindUploader(r)
  BY <1>0, <1>4 DEF FindUploader, Steps, images, Populated
<1>5. CASE CreatePicture(r)
  BY <1>0, <1>5 DEF CreatePicture, Steps, AddImage
<1>6. CASE SetPicture(r)
  BY <1>0, <1>6 DEF SetPicture, Steps
<1>7. CASE FindPicture(r)
  BY <1>0, <1>7 DEF FindPicture, Starts, images, Populated
<1>8. CASE DeleteUser(r)
  BY <1>0, <1>8 DEF DeleteUser, Starts
<1>9. CASE AskDeletion(r)
  BY <1>0, <1>9 DEF AskDeletion, Starts
<1>10. CASE DeleteDocument(r)
  BY <1>0, <1>10 DEF DeleteDocument, Steps, AfterDocument, AfterDeletion
<1>11. CASE Unlink(r)
  BY <1>0, <1>11 DEF Unlink, Steps, AfterDeletion
<1>12. QED
  BY <1>1, <1>2, <1>3, <1>4, <1>5, <1>6, <1>7, <1>8, <1>9, <1>10, <1>11 DEF GalleryStep

\* The step of a handler one of whose calls fails, and a stop.
LEMMA GalleryFaultInv ==
  ASSUME IType, Inv, (\E r \in Requests : CallFails(r)) \/ HandlersStop
  PROVE  Inv'
<1> USE DEF Inv, KindsInv, UploadsInv, GalleryInv, UnlinksInv, TroubleInv, OrphansInv,
            NoDocumentYet, Goto, Running, Finished
<1>0. /\ pc \in [Requests -> Step] /\ files \subseteq Requests /\ troubled \subseteq Requests
  BY DEF IType, TypeOK, GalleryTypeOK, HandlersTypeOK
<1>1. ASSUME NEW r \in Requests, CallFails(r) PROVE Inv'
  BY <1>0, <1>1 DEF CallFails, AfterDeletion, FilesOnError
<1>2. CASE HandlersStop
  BY <1>0, <1>2 DEF HandlersStop, BreakAll
<1>3. QED
  BY <1>1, <1>2

\* What the import does to images: it adds some, which have no file of their own.
LEMMA MigrationAdds ==
  ASSUME IType, MigrationStep
  PROVE  /\ UNCHANGED <<pc, op, files, target, troubled>>
         /\ DOMAIN gallery \subseteq DOMAIN gallery'
         /\ DOMAIN gallery' \cap Requests = DOMAIN gallery \cap Requests
<1> USE DEF handlers, images
<1>1. ASSUME NEW c \in Colleges, MigrateImage(c)
      PROVE  /\ DOMAIN gallery' = DOMAIN gallery \cup {<<c, job[ImageJob(c)].stalls>>}
             /\ UNCHANGED <<pc, op, files, target, troubled>>
  BY <1>1 DEF MigrateImage, AddImage
<1>2. \A c \in Colleges : <<c, job[ImageJob(c)].stalls>> \notin Requests
  BY GalleryAssumption, MigrationAssumption DEF IType, TypeOK, MigrationTypeOK, ImageJob, Jobs
<1>3. CASE \E c \in Colleges : MigrateImage(c)
  BY <1>1, <1>2, <1>3
<1>4. CASE UNCHANGED <<handlers, images>>
  BY <1>4
<1>5. QED
  BY <1>3, <1>4 DEF MigrationStep, CollegeStep, FetchPage, Arrive, Take, CreateCollege,
                    SendImage, UpdateItem

LEMMA StepInv == IType /\ Inv /\ [Next]_vars => Inv'
<1> SUFFICES ASSUME IType, Inv, [Next]_vars PROVE Inv'
  OBVIOUS
<1> DEFINE Same == UNCHANGED <<pc, op, files, target, troubled>>
<1>1. ASSUME Same, DOMAIN gallery \subseteq DOMAIN gallery',
             DOMAIN gallery' \cap Requests = DOMAIN gallery \cap Requests
      PROVE  Inv'
  BY <1>1 DEF Inv, KindsInv, UploadsInv, GalleryInv, UnlinksInv, TroubleInv, OrphansInv,
              NoDocumentYet
<1>2. ASSUME NEW r \in Requests, Handle(r) PROVE Inv'
  BY <1>2, GalleryStepInv DEF Handle
<1>3. CASE Migrate
  BY <1>1, <1>3, MigrationAdds DEF Migrate
<1>4. CASE Fault
  BY <1>1, <1>4, GalleryFaultInv DEF Fault, JobFails, LoseJob, RunnerStops, handlers, images
<1>5. CASE UNCHANGED vars
  BY <1>1, <1>5 DEF vars, handlers, images
<1>6. QED
  BY <1>2, <1>3, <1>4, <1>5 DEF Next

LEMMA InitInv == Init => Inv
BY DEF Init, HandlersInit, GalleryInit, Inv, KindsInv, UploadsInv, GalleryInv, UnlinksInv,
       TroubleInv, OrphansInv, NoDocumentYet

\* Every uploaded image that has a document has its file, whichever uploads and
\* deletions overlap, fail or stop: an upload stores the file first and a deletion
\* removes the document first.
THEOREM DocumentsHaveFiles == Spec => []DocumentHasFile
<1>1. Inv => DocumentHasFile
  BY DEF Inv, GalleryInv, DocumentHasFile
<1>2. QED
  BY <1>1, InitTypes, StepTypes, InitInv, StepInv, PTL DEF Spec

\* Files are left without a document by nothing but an upload that did not
\* succeed and a deletion that is between its steps or was hit there.
THEOREM FilesHaveDocuments == Spec => []FileHasDocument
<1>1. IType /\ Inv => FileHasDocument
  BY DEF IType, TypeOK, GalleryTypeOK, Inv, OrphansInv, FileHasDocument
<1>2. QED
  BY <1>1, InitTypes, StepTypes, InitInv, StepInv, PTL DEF Spec
-----------------------------------------------------------------------------
(* Users' pictures.                                                        *)

\* Why an image of u need not be his picture.
Excuse(u, i) == \E r \in Uploads(u) : r \in troubled \/ Overlapped(r, i)

ImagesOf(u) == {i \in DOMAIN gallery : gallery[i] = u}

\* An upload finds the picture there is, deletes it, and only then makes its own:
\* past the deletion every other image of the user is excused.
PicturesInv ==
  /\ \A r, q \in Requests : r # q /\ Running(r) /\ Running(q) => Overlapped(r, q)
  /\ \A u \in People : ImagesOf(u) \subseteq Uploads(u)
  /\ \A u \in DOMAIN picture : \A i \in ImagesOf(u) :
       picture[u] = i \/ pc[i] = "setPicture" \/ Excuse(u, i)
  /\ \A u \in People : \A r \in Uploads(u) : \A i \in ImagesOf(u) :
       /\ pc[r] = "deleteOld" => target[r] = i \/ Excuse(u, i)
       /\ pc[r] \in {"unlink", "createPicture", "setPicture"} /\ i # r => Excuse(u, i)

LEMMA ExcuseStays ==
  ASSUME op' = op, troubled \subseteq troubled', overlap \subseteq overlap'
  PROVE  /\ \A u, i : Excuse(u, i) => Excuse(u, i)'
         /\ \A u : Uploads(u)' = Uploads(u)
BY DEF Excuse, Uploads, Overlapped

\* Steps that give nobody an image and take no request of an upload further.
LEMMA PicturesFrame ==
  ASSUME IType, PicturesInv, UNCHANGED <<op, target>>,
         troubled \subseteq troubled', overlap \subseteq overlap',
         \A u \in People : ImagesOf(u)' \subseteq ImagesOf(u),
         DOMAIN picture' \subseteq DOMAIN picture,
         \A u \in DOMAIN picture' : picture'[u] = picture[u],
         \A r \in Requests : Running(r)' => Running(r),
         \A r \in Requests : /\ op[r].kind = "uploadPicture"
                             /\ pc'[r] \in {"deleteOld", "unlink", "createPicture", "setPicture"}
                             => pc'[r] = pc[r] \/ (pc[r] = "unlink" /\ pc'[r] = "createPicture")
                                \/ r \in troubled',
         \A r \in Requests : pc[r] = "setPicture" => pc'[r] = pc[r] \/ r \in troubled'
  PROVE  PicturesInv'
<1>0. DOMAIN picture \subseteq People
  BY DEF IType, TypeOK, GalleryTypeOK
<1>1. /\ \A u, i : Excuse(u, i) => Excuse(u, i)'
      /\ \A u : Uploads(u)' = Uploads(u)
  BY ExcuseStays
<1>2. \A u \in People : ImagesOf(u)' \subseteq Uploads(u)'
  BY <1>1 DEF PicturesInv
<1>3. \A r, q \in Requests : r # q /\ Running(r)' /\ Running(q)' => Overlapped(r, q)'
  BY DEF PicturesInv, Overlapped
<1>4. \A u : \A r \in Uploads(u) : r \in troubled' => \A i : Excuse(u, i)'
  BY <1>1 DEF Excuse
<1>5. ASSUME NEW u \in DOMAIN picture', NEW i \in ImagesOf(u)'
      PROVE  picture'[u] = i \/ pc'[i] = "setPicture" \/ Excuse(u, i)'
  <2>1. u \in People /\ u \in DOMAIN picture /\ i \in ImagesOf(u) /\ i \in Uploads(u)
    BY <1>0, <1>5 DEF PicturesInv
  <2>2. i \in Requests
    BY <2>1 DEF Uploads
  <2>3. QED
    BY <1>1, <1>4, <2>1, <2>2 DEF PicturesInv
<1>6. ASSUME NEW u \in People, NEW r \in Uploads(u), NEW i \in ImagesOf(u)'
      PROVE  /\ pc'[r] = "deleteOld" => target[r] = i \/ Excuse(u, i)'
             /\ pc'[r] \in {"unlink", "createPicture", "setPicture"} /\ i # r => Excuse(u, i)'
  <2>1. i \in ImagesOf(u) /\ r \in Requests /\ op[r].kind = "uploadPicture"
    BY <1>6 DEF Uploads
  <2>2. QED
    BY <1>1, <1>4, <2>1 DEF PicturesInv
<1>7. QED
  BY <1>1, <1>2, <1>3, <1>5, <1>6 DEF PicturesInv

\* A request that starts has met those that run.
LEMMA MeetingRequests ==
  ASSUME IType, PicturesInv, NEW r \in Requests, op' = op, Meets(r) \/ Running(r),
         overlap \subseteq overlap', \A q \in Requests \ {r} : pc'[q] = pc[q]
  PROVE  \A p, q \in Requests : p # q /\ Running(p)' /\ Running(q)' => Overlapped(p, q)'
BY DEF PicturesInv, Meets, Overlapped, Running

LEMMA PicturesStep ==
  ASSUME IType, Inv, PicturesInv, NEW r \in Requests, GalleryStep(r)
  PROVE  PicturesInv'
<1>0. /\ pc \in [Requests -> Step] /\ target \in [Requests -> Images \cup {NoImage}]
      /\ DOMAIN picture \subseteq People /\ DOMAIN gallery \subseteq Images
      /\ NoImage \notin Images /\ NoOne \notin People /\ r \in Images
  BY ImageTypes, GalleryAssumption DEF IType, TypeOK, GalleryTypeOK, HandlersTypeOK
<1>1. op' = op /\ overlap \subseteq overlap' /\ troubled' = troubled
      /\ (Meets(r) \/ Running(r)) /\ \A q \in Requests \ {r} : pc'[q] = pc[q]
  <2> USE DEF Starts, Steps, Goto, Meets, Running, Finished
  <2>1. CASE StoreFile(r, "upload", "create") \/ StoreFile(r, "uploadPicture", "findUser")
             \/ RefuseFile(r) \/ FindPicture(r) \/ DeleteUser(r) \/ AskDeletion(r)
    BY <1>0, <2>1 DEF StoreFile, RefuseFile, FindPicture, DeleteUser, AskDeletion, images
  <2>2. CASE CreateImage(r) \/ FindUploader(r) \/ CreatePicture(r) \/ SetPicture(r)
             \/ DeleteDocument(r) \/ Unlink(r)
    BY <1>0, <2>2 DEF CreateImage, FindUploader, CreatePicture, SetPicture, DeleteDocument, Unlink,
                      images
  <2>3. QED
    BY <2>1, <2>2 DEF GalleryStep
<1>2. /\ \A u, i : Excuse(u, i) => Excuse(u, i)'
      /\ \A u : Uploads(u)' = Uploads(u)
  BY <1>1, ExcuseStays
<1>3. \A p, q \in Requests : p # q /\ Running(p)' /\ Running(q)' => Overlapped(p, q)'
  BY <1>1, MeetingRequests
\* Steps that leave the uploads where they are and give nobody an image.
<1>4. ASSUME \A u \in People : ImagesOf(u)' \subseteq ImagesOf(u),
             DOMAIN picture' \subseteq DOMAIN picture,
             \A u \in DOMAIN picture' : picture'[u] = picture[u],
             \A q \in Requests : op[q].kind = "uploadPicture" => target'[q] = target[q],
             op[r].kind = "uploadPicture"
                /\ pc'[r] \in {"deleteOld", "unlink", "createPicture", "setPicture"}
                => pc[r] = "unlink" /\ pc'[r] = "createPicture",
             pc[r] # "setPicture"
      PROVE  PicturesInv'
  <2>1. \A u \in People : ImagesOf(u)' \subseteq Uploads(u)'
    BY <1>2, <1>4 DEF PicturesInv
  <2>2. ASSUME NEW u \in DOMAIN picture', NEW i \in ImagesOf(u)'
        PROVE  picture'[u] = i \/ pc'[i] = "setPicture" \/ Excuse(u, i)'
    <3>1. u \in People /\ u \in DOMAIN picture /\ i \in ImagesOf(u) /\ i \in Uploads(u)
      BY <1>0, <1>4, <2>2 DEF PicturesInv
    <3>2. i \in Requests
      BY <3>1 DEF Uploads
    <3>3. QED
      BY <1>1, <1>2, <1>4, <3>1, <3>2 DEF PicturesInv
  <2>3. ASSUME NEW u \in People, NEW q \in Uploads(u), NEW i \in ImagesOf(u)'
        PROVE  /\ pc'[q] = "deleteOld" => target'[q] = i \/ Excuse(u, i)'
               /\ pc'[q] \in {"unlink", "createPicture", "setPicture"} /\ i # q => Excuse(u, i)'
    <3>1. i \in ImagesOf(u) /\ q \in Requests /\ op[q].kind = "uploadPicture"
      BY <1>4, <2>3 DEF Uploads
    <3>2. QED
      BY <1>1, <1>2, <1>4, <3>1 DEF PicturesInv
  <2>4. QED
    BY <1>2, <1>3, <2>1, <2>2, <2>3 DEF PicturesInv
<1>5. CASE StoreFile(r, "upload", "create") \/ StoreFile(r, "uploadPicture", "findUser")
           \/ RefuseFile(r) \/ DeleteUser(r)
  BY <1>0, <1>4, <1>5 DEF StoreFile, RefuseFile, DeleteUser, Starts, Goto, ImagesOf, images
<1>6. CASE FindPicture(r) \/ AskDeletion(r)
  BY <1>0, <1>4, <1>6 DEF FindPicture, AskDeletion, Starts, Goto, ImagesOf, images
<1>7. CASE CreateImage(r)
  <2>1. /\ op[r].kind = "upload" /\ pc[r] = "create" /\ pc'[r] = "done"
        /\ UNCHANGED <<picture, target>>
        /\ gallery' = [j \in DOMAIN gallery \cup {r} |-> IF j = r THEN NoOne ELSE gallery[j]]
    BY <1>0, <1>7 DEF CreateImage, Steps, Goto, AddImage, Inv, KindsInv
  <2>2. \A u \in People : ImagesOf(u)' \subseteq ImagesOf(u)
    BY <1>0, <2>1 DEF ImagesOf
  <2>3. QED
    BY <1>4, <2>1, <2>2
<1>8. CASE Unlink(r)
  BY <1>0, <1>4, <1>8 DEF Unlink, Steps, Goto, ImagesOf, AfterDeletion
<1>9. CASE FindUploader(r)
  <2> DEFINE u == op[r].user
  <2>1. /\ pc[r] = "findUser" /\ UNCHANGED <<gallery, picture>> /\ op[r].kind = "uploadPicture"
    BY <1>9 DEF FindUploader, Steps, images, Inv, KindsInv
  <2>2. CASE u \notin DOMAIN picture
    BY <1>0, <1>4, <1>9, <2>1, <2>2 DEF FindUploader, Steps, Goto, ImagesOf, images
  <2>3. CASE u \in DOMAIN picture
    <3>1. /\ target' = [target EXCEPT ![r] = Populated(u)]
          /\ pc'[r] = IF Populated(u) = NoImage THEN "createPicture" ELSE "deleteOld"
      BY <1>0, <1>9, <2>3 DEF FindUploader, Steps, Goto
    <3>2. /\ target'[r] = Populated(u)
          /\ \A q \in Requests \ {r} : target'[q] = target[q] /\ pc'[q] = pc[q]
      BY <1>0, <1>1, <3>1
    <3>3. \A v : ImagesOf(v)' = ImagesOf(v)
      BY <2>1 DEF ImagesOf
    <3>4. ASSUME NEW i \in ImagesOf(u) PROVE Populated(u) = i \/ Excuse(u, i)'
      <4>1. i \in DOMAIN gallery /\ i \in Uploads(u) /\ i \in Requests
        BY <1>0, <2>3 DEF ImagesOf, PicturesInv, Uploads
      <4>2. CASE picture[u] = i
        BY <4>1, <4>2 DEF Populated
      <4>3. CASE pc[i] = "setPicture"
        <5>1. r # i /\ Running(r) /\ Running(i) /\ r \in Uploads(u)
          BY <2>1, <4>3 DEF Running, Finished, Uploads
        <5>2. Excuse(u, i)
          BY <4>1, <5>1 DEF PicturesInv, Excuse
        <5>3. QED
          BY <1>1, <1>2, <5>2
      <4>4. QED
        BY <1>1, <1>2, <2>3, <4>2, <4>3 DEF PicturesInv
    <3>5. Populated(u) = NoImage => \A i \in ImagesOf(u) : Populated(u) # i
      BY <1>0 DEF ImagesOf
    <3>6. ASSUME NEW v \in People, NEW q \in Uploads(v), NEW i \in ImagesOf(v)
          PROVE  /\ pc'[q] = "deleteOld" => target'[q] = i \/ Excuse(v, i)'
                 /\ pc'[q] \in {"unlink", "createPicture", "setPicture"} /\ i # q
                      => Excuse(v, i)'
      <4>1. CASE q = r
        <5>1. v = u
          BY <3>6, <4>1 DEF Uploads
        <5>2. QED
          BY <1>1, <3>1, <3>2, <3>4, <3>5, <3>6, <4>1, <5>1
      <4>2. CASE q # r
        BY <1>2, <3>2, <3>6, <4>2 DEF PicturesInv, Uploads
      <4>3. QED
        BY <4>1, <4>2
    <3>7. \A v \in DOMAIN picture : \A i \in ImagesOf(v) :
            picture[v] = i \/ pc'[i] = "setPicture" \/ Excuse(v, i)'
      BY <1>0, <1>2, <2>1, <3>2 DEF PicturesInv, Uploads
    <3>8. \A v \in People : ImagesOf(v) \subseteq Uploads(v)
      BY DEF PicturesInv
    <3>9. QED
      BY <1>2, <1>3, <2>1, <3>3, <3>6, <3>7, <3>8 DEF PicturesInv
  <2>4. QED
    BY <2>2, <2>3
<1>10. CASE CreatePicture(r)
  <2> DEFINE u == op[r].user
  <2>1. /\ pc[r] = "createPicture" /\ pc'[r] = "setPicture" /\ UNCHANGED <<picture, target>>
        /\ op[r].kind = "uploadPicture"
        /\ gallery' = [j \in DOMAIN gallery \cup {r} |-> IF j = r THEN u ELSE gallery[j]]
    BY <1>0, <1>10 DEF CreatePicture, Steps, Goto, AddImage, Inv, KindsInv
  <2>2. r \in Uploads(u)
    BY <2>1 DEF Uploads
  <2>3. \A v : \A i \in ImagesOf(v)' : i \in ImagesOf(v) \/ (v = u /\ i = r)
    BY <1>1, <2>1 DEF ImagesOf
  <2>4. ASSUME NEW q \in Uploads(u), q # r, Running(q) PROVE Excuse(u, r)'
    <3>1. Overlapped(q, r)
      BY <2>1, <2>4 DEF PicturesInv, Running, Finished, Uploads
    <3>2. QED
      BY <1>1, <1>2, <3>1 DEF Excuse
  <2>5. ASSUME NEW v \in People, NEW q \in Uploads(v), NEW i \in ImagesOf(v)'
        PROVE  /\ pc'[q] = "deleteOld" => target'[q] = i \/ Excuse(v, i)'
               /\ pc'[q] \in {"unlink", "createPicture", "setPicture"} /\ i # q
                    => Excuse(v, i)'
    <3>1. q \in Requests
      BY DEF Uploads
    <3>2. CASE i \in ImagesOf(v) /\ q # r
      BY <1>1, <1>2, <2>1, <3>1, <3>2 DEF PicturesInv
    <3>3. CASE i \in ImagesOf(v) /\ q = r
      BY <1>2, <2>1, <3>1, <3>3 DEF PicturesInv
    <3>4. CASE v = u /\ i = r
      BY <1>1, <2>1, <2>4, <3>1, <3>4 DEF Running, Finished
    <3>5. QED
      BY <2>3, <2>5, <3>2, <3>3, <3>4
  <2>6. ASSUME NEW v \in DOMAIN picture, NEW i \in ImagesOf(v)'
        PROVE  picture[v] = i \/ pc'[i] = "setPicture" \/ Excuse(v, i)'
    <3>1. CASE i = r
      BY <2>1, <3>1
    <3>2. CASE i # r
      <4>1. i \in ImagesOf(v) /\ i \in Requests
        BY <1>0, <2>3, <2>6, <3>2 DEF PicturesInv, Uploads
      <4>2. QED
        BY <1>1, <1>2, <3>2, <4>1 DEF PicturesInv
    <3>3. QED
      BY <3>1, <3>2
  <2>7. \A v \in People : ImagesOf(v)' \subseteq Uploads(v)
    BY <2>2, <2>3 DEF PicturesInv
  <2>8. QED
    BY <1>2, <1>3, <2>1, <2>5, <2>6, <2>7 DEF PicturesInv
<1>11. CASE SetPicture(r)
  <2> DEFINE u == op[r].user
  <2>1. /\ pc[r] = "setPicture" /\ pc'[r] \in {"done", "failed"} /\ UNCHANGED <<gallery, target>>
        /\ op[r].kind = "uploadPicture" /\ DOMAIN picture' = DOMAIN picture
        /\ u \in DOMAIN picture => picture'[u] = r
        /\ \A v \in DOMAIN picture : v # u => picture'[v] = picture[v]
    BY <1>0, <1>11 DEF SetPicture, Steps, Goto, Inv, KindsInv, PictureAfter
  <2>2. r \in Uploads(u) /\ u \in People
    BY <2>1, ImageTypes DEF Uploads, IType, HandlersTypeOK
  <2>3. \A v : ImagesOf(v)' = ImagesOf(v)
    BY <2>1 DEF ImagesOf
  <2>4. ASSUME NEW v \in DOMAIN picture, NEW i \in ImagesOf(v)
        PROVE  picture'[v] = i \/ pc'[i] = "setPicture" \/ Excuse(v, i)'
    <3>1. CASE v = u
      BY <1>2, <2>1, <2>2, <2>4, <3>1 DEF PicturesInv
    <3>2. CASE v # u
      <4>1. i # r /\ i \in Requests
        BY <1>0, <2>4, <3>2 DEF PicturesInv, Uploads
      <4>2. QED
        BY <1>1, <1>2, <2>1, <2>4, <3>2, <4>1 DEF PicturesInv
    <3>3. QED
      BY <3>1, <3>2
  <2>5. ASSUME NEW v \in People, NEW q \in Uploads(v), NEW i \in ImagesOf(v)
        PROVE  /\ pc'[q] = "deleteOld" => target'[q] = i \/ Excuse(v, i)'
               /\ pc'[q] \in {"unlink", "createPicture", "setPicture"} /\ i # q
                    => Excuse(v, i)'
    BY <1>1, <1>2, <2>1 DEF PicturesInv, Uploads
  <2>6. \A v \in People : ImagesOf(v) \subseteq Uploads(v)
    BY DEF PicturesInv
  <2>7. QED
    BY <1>2, <1>3, <2>1, <2>3, <2>4, <2>5, <2>6 DEF PicturesInv
<1>12. CASE DeleteDocument(r)
  <2>1. /\ pc[r] \in {"delete", "deleteOld"} /\ UNCHANGED <<picture, target>>
        /\ pc'[r] \in {"unlink", "createPicture", "done"}
        /\ pc[r] = "delete" => op[r].kind # "uploadPicture"
        /\ gallery' = [i \in DOMAIN gallery \ {target[r]} |-> gallery[i]]
    BY <1>0, <1>12 DEF DeleteDocument, Steps, Goto, AfterDocument, AfterDeletion, Inv, KindsInv
  <2>2. \A v : ImagesOf(v)' \subseteq ImagesOf(v) \ {target[r]}
    BY <2>1 DEF ImagesOf
  <2>3. CASE pc[r] = "delete"
    BY <1>4, <2>1, <2>2, <2>3
  <2>4. CASE pc[r] = "deleteOld"
    <3>1. ASSUME NEW v \in People, NEW q \in Uploads(v), NEW i \in ImagesOf(v)'
          PROVE  /\ pc'[q] = "deleteOld" => target'[q] = i \/ Excuse(v, i)'
                 /\ pc'[q] \in {"unlink", "createPicture", "setPicture"} /\ i # q
                      => Excuse(v, i)'
      <4>1. q \in Requests /\ i \in ImagesOf(v) /\ i # target[r]
        BY <2>2 DEF Uploads
      <4>2. CASE q = r
        BY <1>2, <2>1, <2>4, <4>1, <4>2 DEF PicturesInv
      <4>3. CASE q # r
        BY <1>1, <1>2, <2>1, <4>1, <4>3 DEF PicturesInv
      <4>4. QED
        BY <4>2, <4>3
    <3>2. ASSUME NEW v \in DOMAIN picture, NEW i \in ImagesOf(v)'
          PROVE  picture[v] = i \/ pc'[i] = "setPicture" \/ Excuse(v, i)'
      <4>1. i \in ImagesOf(v) /\ i \in Requests
        BY <1>0, <2>2 DEF PicturesInv, Uploads
      <4>2. QED
        BY <1>1, <1>2, <2>4, <4>1 DEF PicturesInv
    <3>3. \A v \in People : ImagesOf(v)' \subseteq Uploads(v)
      BY <2>2 DEF PicturesInv
    <3>4. QED
      BY <1>2, <1>3, <2>1, <3>1, <3>2, <3>3 DEF PicturesInv
  <2>5. QED
    BY <2>1, <2>3, <2>4
<1>13. QED
  BY <1>5, <1>6, <1>7, <1>8, <1>9, <1>10, <1>11, <1>12 DEF GalleryStep

\* A call that fails and a stop leave an excuse behind.
LEMMA PicturesFault ==
  ASSUME IType, Inv, PicturesInv, (\E r \in Requests : CallFails(r)) \/ HandlersStop
  PROVE  PicturesInv'
<1> USE DEF Goto, Running, Finished
<1>0. pc \in [Requests -> Step] /\ troubled \subseteq Requests
  BY DEF IType, TypeOK, GalleryTypeOK, HandlersTypeOK
<1>1. ASSUME NEW r \in Requests, CallFails(r) PROVE PicturesInv'
  <2>1. /\ UNCHANGED <<op, target, overlap, gallery, picture>> /\ troubled' = troubled \cup {r}
        /\ Running(r) /\ \A q \in Requests \ {r} : pc'[q] = pc[q]
    BY <1>0, <1>1 DEF CallFails
  <2>2. /\ troubled \subseteq troubled' /\ r \in troubled'
        /\ \A q \in Requests : Running(q)' => Running(q)
    BY <1>0, <2>1
  <2>3. \A q \in Requests : pc'[q] = pc[q] \/ q \in troubled'
    BY <2>1, <2>2
  <2>4. \A u \in People : ImagesOf(u)' \subseteq ImagesOf(u)
    BY <2>1 DEF ImagesOf
  <2>5. QED
    BY <2>1, <2>2, <2>3, <2>4, PicturesFrame
<1>2. CASE HandlersStop
  <2>1. /\ UNCHANGED <<op, target, overlap, gallery, picture>>
        /\ troubled' = troubled \cup {r \in Requests : Running(r)}
        /\ pc' = [r \in Requests |-> IF Running(r) THEN "broken" ELSE pc[r]]
    BY <1>2 DEF HandlersStop, BreakAll
  <2>2. \A q \in Requests : (Running(q)' => Running(q)) /\ (pc'[q] = pc[q] \/ q \in troubled')
    BY <1>0, <2>1
  <2>3. \A u \in People : ImagesOf(u)' \subseteq ImagesOf(u)
    BY <2>1 DEF ImagesOf
  <2>4. troubled \subseteq troubled' /\ overlap \subseteq overlap'
    BY <2>1
  <2>5. QED
    BY <2>1, <2>2, <2>3, <2>4, PicturesFrame
<1>3. QED
  BY <1>1, <1>2

\* The images of the import are nobody's picture.
LEMMA MigrationGivesNobody ==
  ASSUME IType, MigrationStep
  PROVE  /\ UNCHANGED <<handlers, files, picture, target, troubled>>
         /\ \A u \in People : ImagesOf(u)' \subseteq ImagesOf(u)
<1>1. ASSUME NEW c \in Colleges, MigrateImage(c)
      PROVE  /\ UNCHANGED <<handlers, files, picture, target, troubled>>
             /\ \A u \in People : ImagesOf(u)' \subseteq ImagesOf(u)
  BY <1>1, GalleryAssumption DEF MigrateImage, AddImage, ImagesOf
<1>2. ASSUME UNCHANGED <<handlers, images>>
      PROVE  /\ UNCHANGED <<handlers, files, picture, target, troubled>>
             /\ \A u \in People : ImagesOf(u)' \subseteq ImagesOf(u)
  BY <1>2 DEF images, ImagesOf
<1>3. QED
  BY <1>1, <1>2 DEF MigrationStep, CollegeStep, FetchPage, Arrive, Take, CreateCollege,
                    SendImage, UpdateItem

LEMMA StepPictures == IType /\ Inv /\ PicturesInv /\ [Next]_vars => PicturesInv'
<1> SUFFICES ASSUME IType, Inv, PicturesInv, [Next]_vars PROVE PicturesInv'
  OBVIOUS
<1>1. ASSUME UNCHANGED <<handlers, files, picture, target, troubled>>,
             \A u \in People : ImagesOf(u)' \subseteq ImagesOf(u)
      PROVE  PicturesInv'
  <2>1. \A r \in Requests : (Running(r)' => Running(r)) /\ pc'[r] = pc[r]
    BY <1>1 DEF handlers, Running
  <2>2. QED
    BY <1>1, <2>1, PicturesFrame DEF handlers
<1>2. ASSUME UNCHANGED <<handlers, images>> PROVE PicturesInv'
  BY <1>1, <1>2 DEF images, ImagesOf
<1>3. ASSUME NEW r \in Requests, Handle(r) PROVE PicturesInv'
  BY <1>3, PicturesStep DEF Handle
<1>4. CASE Migrate
  BY <1>1, <1>4, MigrationGivesNobody DEF Migrate
<1>5. CASE Fault
  BY <1>2, <1>5, PicturesFault DEF Fault, JobFails, LoseJob, RunnerStops
<1>6. CASE UNCHANGED vars
  BY <1>2, <1>6 DEF vars
<1>7. QED
  BY <1>3, <1>4, <1>5, <1>6 DEF Next

LEMMA InitPictures == Init => PicturesInv
BY DEF Init, HandlersInit, GalleryInit, PicturesInv, ImagesOf, Running, Finished

\* Whatever uploads, deletions, failures and stops there are: a picture made for a
\* user who is still there is the one his account shows, unless its handler is
\* about to write it there or two of his uploads overlapped or one had trouble.
THEOREM PicturesAreUsed == Spec => []PictureIsUsed
<1>1. IType /\ PicturesInv => PictureIsUsed
  <2> SUFFICES ASSUME IType, PicturesInv PROVE PictureIsUsed
    OBVIOUS
  <2>1. DOMAIN picture \subseteq People
    BY DEF IType, TypeOK, GalleryTypeOK
  <2>2. QED
    BY <2>1 DEF PicturesInv, PictureIsUsed, ImagesOf, Excuse
<1>2. QED
  BY <1>1, InitTypes, StepTypes, InitInv, StepInv, InitPictures, StepPictures, PTL DEF Spec
-----------------------------------------------------------------------------
(* Images of the import.                                                   *)

\* c's record became the item of its name.
HasItem(c) == SlugOf[c] \in DOMAIN items /\ items[SlugOf[c]].by = c

\* The image that the present run of c's image job makes.
MadeImage(c) == ImageOf(c) \in DOMAIN gallery

\* Of the records of one name one at most comes to have an image job, the one that
\* made the item; the job has an image only from its insert on, and whatever ends
\* it after that shows the image or counts as trouble.
ImportOf(c) ==
  LET add == job[AddJob(c)].at
      at == job[ImageJob(c)].at
  IN /\ add \notin {"migrate", "update"} /\ at \notin {"create", "enqueue"}
     /\ add = "enqueue" \/ at # "none" => HasItem(c)
     /\ add = "enqueue" => at = "none"
     /\ HasItem(c) /\ at \notin Ended => items[SlugOf[c]].image = NoImage
     /\ MadeImage(c) => at \in Ended \cup {"update"}
     /\ MadeImage(c) /\ at \in Ended =>
          \/ items[SlugOf[c]].image = ImageOf(c)
          \/ ImageJob(c) \in upset /\ items[SlugOf[c]].image = NoImage
     /\ <<c, 1>> \in DOMAIN gallery => job[ImageJob(c)].stalls = 1

ImportInv == \A c \in Colleges : ImportOf(c)

LEMMA JobTypes ==
  ASSUME IType
  PROVE  /\ job \in [Jobs -> [at : {"none", "sending", "waiting"} \cup Active \cup Ended,
                              stalls : {0, 1}]]
         /\ \A c \in Colleges : AddJob(c) \in Jobs /\ ImageJob(c) \in Jobs
         /\ \A c, d \in Colleges : /\ AddJob(c) # ImageJob(d)
                                   /\ AddJob(c) = AddJob(d) => c = d
                                   /\ ImageJob(c) = ImageJob(d) => c = d
         /\ \A j \in Jobs : \E c \in Colleges : j = AddJob(c) \/ j = ImageJob(c)
BY DEF IType, TypeOK, MigrationTypeOK, Jobs, AddJob, ImageJob

\* A step that leaves c's image job and item alone.
LEMMA ImportFrame ==
  ASSUME NEW c \in Colleges, ImportOf(c),
         job'[ImageJob(c)] = job[ImageJob(c)],
         job'[AddJob(c)].at \notin {"migrate", "update"},
         job'[AddJob(c)].at = "enqueue" => job[AddJob(c)].at = "enqueue",
         HasItem(c) => HasItem(c)' /\ items'[SlugOf[c]] = items[SlugOf[c]],
         HasItem(c)' => HasItem(c) \/ items'[SlugOf[c]].image = NoImage,
         \A n \in {0, 1} : <<c, n>> \in DOMAIN gallery' => <<c, n>> \in DOMAIN gallery,
         job[ImageJob(c)].stalls \in {0, 1},
         upset \subseteq upset'
  PROVE  ImportOf(c)'
<1> DEFINE at == job[ImageJob(c)].at
<1>1. HasItem(c) => HasItem(c)'
  OBVIOUS
<1>2. MadeImage(c)' => MadeImage(c)
  BY DEF MadeImage, ImageOf
<1>3. HasItem(c)' /\ at \notin Ended => items'[SlugOf[c]].image = NoImage
  BY DEF ImportOf
<1>4. /\ at' = at /\ ImageOf(c)' = ImageOf(c)
      /\ <<c, 1>> \in DOMAIN gallery' => <<c, 1>> \in DOMAIN gallery
  BY DEF ImageOf
<1>5. at # "none" => items'[SlugOf[c]] = items[SlugOf[c]]
  BY DEF ImportOf
<1>6. Ended' = Ended /\ "none" \notin Ended
  BY DEF Ended
<1> DEFINE add == job[AddJob(c)].at
<1>7. add' = "enqueue" => add = "enqueue"
  OBVIOUS
<1>8. /\ add' \notin {"migrate", "update"} /\ at' \notin {"create", "enqueue"}
      /\ add' = "enqueue" \/ at' # "none" => HasItem(c)'
      /\ add' = "enqueue" => at' = "none"
  BY <1>1, <1>4, <1>7 DEF ImportOf
<1>9. /\ HasItem(c)' /\ at' \notin Ended => items'[SlugOf[c]].image = NoImage
      /\ MadeImage(c)' => at' \in Ended \cup {"update"}
      /\ <<c, 1>> \in DOMAIN gallery' => job'[ImageJob(c)].stalls = 1
  BY <1>2, <1>3, <1>4 DEF ImportOf
<1>10. MadeImage(c)' /\ at' \in Ended =>
         \/ items'[SlugOf[c]].image = ImageOf(c)'
         \/ ImageJob(c) \in upset' /\ items'[SlugOf[c]].image = NoImage
  BY <1>2, <1>4, <1>5, <1>6 DEF ImportOf
<1>11. QED
  BY <1>6, <1>8, <1>9, <1>10 DEF ImportOf

\* A step of one job that leaves items and images alone.
LEMMA ImportJob ==
  ASSUME IType, ImportInv, NEW j \in Jobs, NEW to, job' = [job EXCEPT ![j].at = to],
         UNCHANGED <<gallery, items>>, upset \subseteq upset',
         j[1] = "addCollege" => to \notin {"migrate", "update", "enqueue"},
         j[1] = "uploadCollegeImage" =>
           /\ job[j].at # "none" /\ to \notin {"none", "create", "enqueue"}
           /\ \/ job[j].at \in {"sending", "waiting", "migrate"} /\ to # "update"
              \/ job[j].at = "update" /\ to \in Ended /\ j \in upset'
  PROVE  ImportInv'
<1> SUFFICES ASSUME NEW c \in Colleges PROVE ImportOf(c)'
  BY DEF ImportInv
<1>1. /\ job[ImageJob(c)].stalls \in {0, 1} /\ ImportOf(c)
      /\ AddJob(c) \in Jobs /\ ImageJob(c) \in Jobs /\ AddJob(c) # ImageJob(c)
      /\ AddJob(c)[1] = "addCollege" /\ ImageJob(c)[1] = "uploadCollegeImage"
  BY JobTypes DEF ImportInv, AddJob, ImageJob
<1>2. /\ \A k \in Jobs \ {j} : job'[k] = job[k]
      /\ job'[j].at = to /\ job'[j].stalls = job[j].stalls
  BY JobTypes
<1>3. HasItem(c)' = HasItem(c)
  BY DEF HasItem
<1>4. CASE j # ImageJob(c)
  <2>1. job'[ImageJob(c)] = job[ImageJob(c)]
    BY <1>1, <1>2, <1>4
  <2>2. /\ job'[AddJob(c)].at \notin {"migrate", "update"}
        /\ job'[AddJob(c)].at = "enqueue" => job[AddJob(c)].at = "enqueue"
    <3>1. CASE j = AddJob(c)
      BY <1>1, <1>2, <3>1
    <3>2. CASE j # AddJob(c)
      BY <1>1, <1>2, <3>2 DEF ImportOf
    <3>3. QED
      BY <3>1, <3>2
  <2>3. QED
    BY <1>1, <1>3, <2>1, <2>2, ImportFrame
<1>5. CASE j = ImageJob(c)
  <2>1. /\ job'[AddJob(c)] = job[AddJob(c)] /\ job'[ImageJob(c)].stalls = job[ImageJob(c)].stalls
        /\ job'[ImageJob(c)].at = to
    BY <1>1, <1>2, <1>5
  <2>2. HasItem(c) /\ items[SlugOf[c]].image = NoImage /\ job[AddJob(c)].at # "enqueue"
    BY <1>1, <1>5 DEF ImportOf, Ended
  <2>3. ImageOf(c)' = ImageOf(c) /\ MadeImage(c)' = MadeImage(c)
    BY <2>1 DEF ImageOf, MadeImage
  <2>4. MadeImage(c) => to \in Ended /\ ImageJob(c) \in upset'
    BY <1>1, <1>5 DEF ImportOf, Ended
  <2>5. /\ job'[AddJob(c)].at \notin {"migrate", "update"} /\ to \notin {"create", "enqueue"}
        /\ <<c, 1>> \in DOMAIN gallery' => job'[ImageJob(c)].stalls = 1
    BY <1>1, <1>5, <2>1 DEF ImportOf
  <2>6. QED
    BY <1>3, <2>1, <2>2, <2>3, <2>4, <2>5 DEF ImportOf
<1>6. QED
  BY <1>4, <1>5

LEMMA MigrationStepImport ==
  ASSUME IType, ImportInv, MigrationStep
  PROVE  ImportInv'
<1>0. \A c \in Colleges :
        /\ job[ImageJob(c)].stalls \in {0, 1} /\ ImportOf(c)
        /\ AddJob(c) \in Jobs /\ ImageJob(c) \in Jobs
        /\ AddJob(c)[1] = "addCollege" /\ ImageJob(c)[1] = "uploadCollegeImage"
        /\ \A d \in Colleges : /\ AddJob(c) # ImageJob(d)
                               /\ c # d => AddJob(c) # AddJob(d) /\ ImageJob(c) # ImageJob(d)
  BY JobTypes DEF ImportInv, AddJob, ImageJob
<1>1. CASE FetchPage
  <2>1. /\ UNCHANGED <<gallery, items, upset>>
        /\ \A c \in Colleges : /\ job'[ImageJob(c)] = job[ImageJob(c)]
                               /\ job'[AddJob(c)].at \in {"sending", job[AddJob(c)].at}
    <3>1. /\ UNCHANGED <<gallery, items, upset>>
          /\ job' = [j \in Jobs |-> IF j \in {AddJob(c) : c \in Pages[page]}
                                    THEN [job[j] EXCEPT !.at = "sending"] ELSE job[j]]
      BY <1>1 DEF FetchPage, images
    <3>2. \A j \in Jobs : [job[j] EXCEPT !.at = "sending"].at = "sending"
      BY JobTypes
    <3>3. \A c \in Colleges : ImageJob(c) \notin {AddJob(d) : d \in Pages[page]}
      BY DEF AddJob, ImageJob
    <3>4. QED
      BY <1>0, <3>1, <3>2, <3>3
  <2>2. \A c \in Colleges : HasItem(c)' = HasItem(c)
    BY <2>1 DEF HasItem
  <2>3. ASSUME NEW c \in Colleges PROVE ImportOf(c)'
    <3>1. /\ job'[AddJob(c)].at \notin {"migrate", "update"}
          /\ job'[AddJob(c)].at = "enqueue" => job[AddJob(c)].at = "enqueue"
      BY <1>0, <2>1 DEF ImportOf
    <3>2. QED
      BY <1>0, <2>1, <2>2, <3>1, ImportFrame
  <2>4. QED
    BY <2>3 DEF ImportInv
<1>2. ASSUME NEW j \in Jobs, Arrive(j) \/ Take(j) PROVE ImportInv'
  <2>1. PICK to : /\ job' = [job EXCEPT ![j].at = to]
                  /\ \/ job[j].at = "sending" /\ to = "waiting"
                     \/ /\ job[j].at = "waiting"
                        /\ to = IF j[1] = "addCollege" THEN "create" ELSE "migrate"
    BY <1>2 DEF Arrive, Take, Moves
  <2>2. UNCHANGED <<gallery, items>> /\ upset \subseteq upset'
    BY <1>2 DEF Arrive, Take, images
  <2>3. QED
    BY <2>1, <2>2, ImportJob
<1>3. ASSUME NEW d \in Colleges, CreateCollege(d) PROVE ImportInv'
  <2>1. CASE Moves(AddJob(d), "create", "completed") /\ UNCHANGED items
    <3>1. /\ job' = [job EXCEPT ![AddJob(d)].at = "completed"]
          /\ UNCHANGED <<gallery, items>> /\ upset \subseteq upset'
      BY <1>3, <2>1 DEF CreateCollege, Moves, images
    <3>2. QED
      BY <1>0, <3>1, ImportJob
  <2>2. CASE SlugOf[d] \notin DOMAIN items
    <3>1. /\ job[AddJob(d)].at = "create" /\ job' = [job EXCEPT ![AddJob(d)].at = "enqueue"]
          /\ items' = [t \in DOMAIN items \cup {SlugOf[d]} |->
                         IF t = SlugOf[d] THEN [by |-> d, image |-> NoImage] ELSE items[t]]
          /\ UNCHANGED <<gallery, upset>>
      BY <1>3, <2>2 DEF CreateCollege, Moves, images
    <3>2. /\ \A k \in Jobs \ {AddJob(d)} : job'[k] = job[k]
          /\ job'[AddJob(d)].at = "enqueue"
      BY <1>0, <3>1, JobTypes
    <3>3. ASSUME NEW c \in Colleges
          PROVE  /\ HasItem(c) => HasItem(c)' /\ items'[SlugOf[c]] = items[SlugOf[c]]
                 /\ HasItem(c)' => HasItem(c) \/ items'[SlugOf[c]].image = NoImage
                 /\ c # d => HasItem(c)' = HasItem(c)
      BY <2>2, <3>1 DEF HasItem
    <3>4. ASSUME NEW c \in Colleges, c # d PROVE ImportOf(c)'
      <4>1. job'[AddJob(c)] = job[AddJob(c)] /\ job'[ImageJob(c)] = job[ImageJob(c)]
        BY <1>0, <3>2, <3>4
      <4>2. job'[AddJob(c)].at \notin {"migrate", "update"}
        BY <1>0, <4>1 DEF ImportOf
      <4>3. QED
        BY <1>0, <3>1, <3>3, <4>1, <4>2, ImportFrame
    <3>5. ImportOf(d)'
      <4>1. job'[ImageJob(d)] = job[ImageJob(d)] /\ job[ImageJob(d)].at = "none"
        BY <1>0, <2>2, <3>2 DEF ImportOf, HasItem
      <4>2. HasItem(d)' /\ items'[SlugOf[d]].image = NoImage
        BY <3>1 DEF HasItem
      <4>3. ~MadeImage(d)' /\ (<<d, 1>> \in DOMAIN gallery' => job'[ImageJob(d)].stalls = 1)
        BY <1>0, <3>1, <4>1 DEF ImportOf, MadeImage, ImageOf, Ended
      <4>4. QED
        BY <3>2, <4>1, <4>2, <4>3 DEF ImportOf, Ended
    <3>6. QED
      BY <3>4, <3>5 DEF ImportInv
  <2>3. QED
    BY <1>3, <2>1, <2>2 DEF CreateCollege
<1>4. ASSUME NEW d \in Colleges, SendImage(d) PROVE ImportInv'
  <2>1. /\ job[AddJob(d)].at = "enqueue" /\ UNCHANGED <<gallery, items, upset>>
        /\ job' = [job EXCEPT ![AddJob(d)].at = "completed", ![ImageJob(d)].at = "sending"]
    BY <1>4 DEF SendImage, images
  <2>2. /\ \A k \in Jobs \ {AddJob(d), ImageJob(d)} : job'[k] = job[k]
        /\ job'[AddJob(d)].at = "completed" /\ job'[ImageJob(d)].at = "sending"
        /\ job'[ImageJob(d)].stalls = job[ImageJob(d)].stalls
    BY <1>0, <2>1, JobTypes
  <2>3. \A c \in Colleges : HasItem(c)' = HasItem(c)
    BY <2>1 DEF HasItem
  <2>4. ASSUME NEW c \in Colleges, c # d PROVE ImportOf(c)'
    <3>1. job'[AddJob(c)] = job[AddJob(c)] /\ job'[ImageJob(c)] = job[ImageJob(c)]
      BY <1>0, <2>2, <2>4
    <3>2. job'[AddJob(c)].at \notin {"migrate", "update"}
      BY <1>0, <3>1 DEF ImportOf
    <3>3. QED
      BY <1>0, <2>1, <2>3, <3>1, <3>2, ImportFrame
  <2>5. ImportOf(d)'
    <3>1. /\ HasItem(d) /\ items[SlugOf[d]].image = NoImage /\ ~MadeImage(d)
          /\ <<d, 1>> \in DOMAIN gallery => job[ImageJob(d)].stalls = 1
      BY <1>0, <2>1 DEF ImportOf, Ended
    <3>2. ~MadeImage(d)'
      BY <2>1, <2>2, <3>1 DEF MadeImage, ImageOf
    <3>3. QED
      BY <2>1, <2>2, <2>3, <3>1, <3>2 DEF ImportOf, Ended
  <2>6. QED
    BY <2>4, <2>5 DEF ImportInv
<1>5. ASSUME NEW d \in Colleges, MigrateImage(d) PROVE ImportInv'
  <2>1. /\ job[ImageJob(d)].at = "migrate" /\ UNCHANGED <<items, upset>>
        /\ job' = [job EXCEPT ![ImageJob(d)].at = "update"]
        /\ DOMAIN gallery' = DOMAIN gallery \cup {<<d, job[ImageJob(d)].stalls>>}
    BY <1>5 DEF MigrateImage, Moves, AddImage
  <2>2. /\ \A k \in Jobs \ {ImageJob(d)} : job'[k] = job[k]
        /\ job'[ImageJob(d)].at = "update" /\ job'[ImageJob(d)].stalls = job[ImageJob(d)].stalls
    BY <1>0, <2>1, JobTypes
  <2>3. \A c \in Colleges : HasItem(c)' = HasItem(c)
    BY <2>1 DEF HasItem
  <2>4. ASSUME NEW c \in Colleges, c # d PROVE ImportOf(c)'
    <3>1. job'[AddJob(c)] = job[AddJob(c)] /\ job'[ImageJob(c)] = job[ImageJob(c)]
      BY <1>0, <2>2, <2>4
    <3>2. /\ job'[AddJob(c)].at \notin {"migrate", "update"}
          /\ \A n \in {0, 1} : <<c, n>> \in DOMAIN gallery' => <<c, n>> \in DOMAIN gallery
      BY <1>0, <2>1, <2>4, <3>1 DEF ImportOf
    <3>3. QED
      BY <1>0, <2>1, <2>3, <3>1, <3>2, ImportFrame
  <2>5. ImportOf(d)'
    <3>1. /\ HasItem(d) /\ items[SlugOf[d]].image = NoImage /\ job[AddJob(d)].at # "enqueue"
          /\ job[AddJob(d)].at \notin {"migrate", "update"}
          /\ job'[AddJob(d)] = job[AddJob(d)]
          /\ <<d, 1>> \in DOMAIN gallery => job[ImageJob(d)].stalls = 1
      BY <1>0, <2>1, <2>2 DEF ImportOf, Ended
    <3>2. <<d, 1>> \in DOMAIN gallery' => job'[ImageJob(d)].stalls = 1
      BY <1>0, <2>1, <2>2, <3>1
    <3>3. QED
      BY <2>1, <2>2, <2>3, <3>1, <3>2 DEF ImportOf, Ended
  <2>6. QED
    BY <2>4, <2>5 DEF ImportInv
<1>6. ASSUME NEW d \in Colleges, UpdateItem(d) PROVE ImportInv'
  <2>1. /\ job[ImageJob(d)].at = "update" /\ UNCHANGED <<gallery, upset>>
        /\ job' = [job EXCEPT ![ImageJob(d)].at = "failed"]
        /\ items' = [items EXCEPT ![SlugOf[d]].image = ImageOf(d)]
    BY <1>6 DEF UpdateItem, Moves, images
  <2>2. /\ \A k \in Jobs \ {ImageJob(d)} : job'[k] = job[k]
        /\ job'[ImageJob(d)].at = "failed" /\ job'[ImageJob(d)].stalls = job[ImageJob(d)].stalls
    BY <1>0, <2>1, JobTypes
  <2>3. HasItem(d) /\ HasItem(d)' /\ items'[SlugOf[d]].image = ImageOf(d)
    <3>1. HasItem(d)
      BY <1>0, <2>1 DEF ImportOf
    <3>2. items[SlugOf[d]] \in [by : Colleges, image : MigratedImages \cup {NoImage}]
      BY <3>1 DEF HasItem, IType, TypeOK, MigrationTypeOK
    <3>3. QED
      BY <2>1, <3>1, <3>2 DEF HasItem
  <2>4. ASSUME NEW c \in Colleges, c # d PROVE ImportOf(c)'
    <3>1. job'[AddJob(c)] = job[AddJob(c)] /\ job'[ImageJob(c)] = job[ImageJob(c)]
      BY <1>0, <2>2, <2>4
    <3>2. job'[AddJob(c)].at \notin {"migrate", "update"}
      BY <1>0, <3>1 DEF ImportOf
    <3>3. /\ HasItem(c) => HasItem(c)' /\ items'[SlugOf[c]] = items[SlugOf[c]]
          /\ HasItem(c)' => HasItem(c)
      <4>1. CASE SlugOf[c] = SlugOf[d]
        BY <2>3, <2>4, <4>1 DEF HasItem
      <4>2. CASE SlugOf[c] # SlugOf[d]
        BY <2>1, <4>2 DEF HasItem
      <4>3. QED
        BY <4>1, <4>2
    <3>4. QED
      BY <1>0, <2>1, <3>1, <3>2, <3>3, ImportFrame
  <2>5. ImportOf(d)'
    <3>1. /\ job[AddJob(d)].at \notin {"enqueue", "migrate", "update"}
          /\ job'[AddJob(d)] = job[AddJob(d)] /\ ImageOf(d)' = ImageOf(d)
          /\ <<d, 1>> \in DOMAIN gallery => job[ImageJob(d)].stalls = 1
      BY <1>0, <2>1, <2>2 DEF ImportOf, ImageOf
    <3>2. <<d, 1>> \in DOMAIN gallery' => job'[ImageJob(d)].stalls = 1
      BY <2>1, <2>2, <3>1
    <3>3. QED
      BY <2>2, <2>3, <3>1, <3>2 DEF ImportOf, Ended
  <2>6. QED
    BY <2>4, <2>5 DEF ImportInv
<1>7. QED
  BY <1>1, <1>2, <1>3, <1>4, <1>5, <1>6 DEF MigrationStep, CollegeStep

\* Failures, losses and stops: whatever ends an image job is noted.
LEMMA FaultImport ==
  ASSUME IType, ImportInv,
         (\E j \in Jobs : JobFails(j) \/ LoseJob(j)) \/ RunnerStops
           \/ (WorkersStop /\ UNCHANGED gallery)
  PROVE  ImportInv'
<1>0. \A c \in Colleges :
        /\ job[ImageJob(c)].stalls \in {0, 1} /\ ImportOf(c)
        /\ AddJob(c) \in Jobs /\ ImageJob(c) \in Jobs
        /\ AddJob(c)[1] = "addCollege" /\ ImageJob(c)[1] = "uploadCollegeImage"
        /\ \A d \in Colleges : AddJob(c) # ImageJob(d)
  BY JobTypes DEF ImportInv, AddJob, ImageJob
<1>1. ASSUME NEW j \in Jobs, JobFails(j) \/ LoseJob(j) PROVE ImportInv'
  <2>1. PICK to \in {"completed", "failed", "lost"} :
          /\ job' = [job EXCEPT ![j].at = to]
          /\ \/ job[j].at = "create" /\ to = "completed"
             \/ job[j].at \in {"migrate", "update"} /\ to = "failed"
             \/ job[j].at = "sending" /\ to = "lost"
    BY <1>1 DEF JobFails, LoseJob, Moves
  <2>2. UNCHANGED <<gallery, items>> /\ upset \subseteq upset' /\ j \in upset'
    BY <1>1 DEF JobFails, LoseJob, images
  <2>3. PICK c \in Colleges : j = AddJob(c) \/ j = ImageJob(c)
    BY JobTypes
  <2>4. j[1] = "uploadCollegeImage" => job[j].at # "create"
    BY <1>0, <2>3 DEF ImportOf
  <2>5. QED
    BY <2>1, <2>2, <2>4, ImportJob DEF Ended
<1>2. CASE RunnerStops
  <2>1. UNCHANGED <<gallery, items>> /\ upset \subseteq upset'
    BY <1>2 DEF RunnerStops, images
  <2>2. \A c \in Colleges : /\ job'[ImageJob(c)] = job[ImageJob(c)]
                            /\ job'[AddJob(c)].at \in {"lost", job[AddJob(c)].at}
    <3>1. \A c \in Colleges : ImageJob(c) \notin {AddJob(d) : d \in Colleges}
      BY <1>0
    <3>2. \A j \in Jobs : [job[j] EXCEPT !.at = "lost"].at = "lost"
      BY JobTypes
    <3>3. QED
      BY <1>0, <1>2, <3>1, <3>2 DEF RunnerStops
  <2>3. ASSUME NEW c \in Colleges PROVE ImportOf(c)'
    <3>1. /\ job'[AddJob(c)].at \notin {"migrate", "update"}
          /\ job'[AddJob(c)].at = "enqueue" => job[AddJob(c)].at = "enqueue"
      BY <1>0, <2>2 DEF ImportOf
    <3>2. HasItem(c)' = HasItem(c)
      BY <2>1 DEF HasItem
    <3>3. QED
      BY <1>0, <2>1, <2>2, <3>1, <3>2, ImportFrame
  <2>4. QED
    BY <2>3 DEF ImportInv
<1>3. ASSUME WorkersStop, UNCHANGED gallery PROVE ImportInv'
  <2> DEFINE Ran(j) == job[j].at \in Active
             Lost(j) == job[j].at = "sending" /\ j \in {ImageJob(c) : c \in Colleges}
  <2>1. /\ UNCHANGED items /\ upset \subseteq upset'
        /\ \A j \in Jobs : Ran(j) \/ Lost(j) => j \in upset'
    BY <1>3 DEF WorkersStop
  <2>2. \A j \in Jobs : /\ Ran(j) => job'[j] = Stalled(j)
                        /\ Lost(j) => job'[j] = [job[j] EXCEPT !.at = "lost"]
                        /\ ~Ran(j) /\ ~Lost(j) => job'[j] = job[j]
    BY <1>3 DEF WorkersStop, Active
  <2>3. ASSUME NEW c \in Colleges PROVE ImportOf(c)'
    <3>0. \A j \in Jobs :
            /\ Stalled(j).at \in {"waiting", "failed"}
            /\ job[j].stalls = 0 => Stalled(j) = [at |-> "waiting", stalls |-> 1]
            /\ job[j].stalls = 1 => Stalled(j).at = "failed" /\ Stalled(j).stalls = 1
            /\ [job[j] EXCEPT !.at = "lost"].at = "lost"
            /\ [job[j] EXCEPT !.at = "lost"].stalls = job[j].stalls
      BY JobTypes DEF Stalled
    <3>1. HasItem(c)' = HasItem(c)
      BY <2>1 DEF HasItem
    <3>2. job'[AddJob(c)].at \notin {"migrate", "update", "enqueue"}
      <4>1. ~Lost(AddJob(c))
        BY <1>0
      <4>2. CASE Ran(AddJob(c))
        BY <1>0, <2>2, <3>0, <4>2
      <4>3. CASE ~Ran(AddJob(c))
        <5>1. job'[AddJob(c)] = job[AddJob(c)]
          BY <1>0, <2>2, <4>1, <4>3
        <5>2. QED
          BY <1>0, <4>3, <5>1 DEF ImportOf, Active
      <4>4. QED
        BY <4>2, <4>3
    <3>3. CASE ~Ran(ImageJob(c)) /\ ~Lost(ImageJob(c))
      BY <1>0, <1>3, <2>1, <2>2, <3>1, <3>2, <3>3, ImportFrame
    <3>4. CASE Ran(ImageJob(c)) \/ Lost(ImageJob(c))
      <4>1. HasItem(c) /\ items[SlugOf[c]].image = NoImage
        BY <1>0, <3>4 DEF ImportOf, Active, Ended
      <4>2. ImageJob(c) \in upset'
        BY <1>0, <2>1, <3>4
      <4>3. CASE Ran(ImageJob(c)) /\ job[ImageJob(c)].stalls = 0
        <5>1. job'[ImageJob(c)] = [at |-> "waiting", stalls |-> 1]
          BY <1>0, <2>2, <3>0, <4>3
        <5>2. <<c, 1>> \notin DOMAIN gallery
          BY <1>0, <4>3 DEF ImportOf
        <5>3. ImageOf(c)' = <<c, 1>> /\ DOMAIN gallery' = DOMAIN gallery
          BY <1>3, <5>1 DEF ImageOf
        <5>4. ~MadeImage(c)'
          BY <5>2, <5>3 DEF MadeImage
        <5>5. QED
          BY <2>1, <3>1, <3>2, <4>1, <5>1, <5>4 DEF ImportOf, Ended
      <4>4. CASE job[ImageJob(c)].stalls = 1 \/ Lost(ImageJob(c))
        <5>1. /\ job'[ImageJob(c)].at \in {"failed", "lost"}
              /\ job'[ImageJob(c)].stalls = job[ImageJob(c)].stalls
          <6> HIDE DEF Ran, Lost
          <6>1. CASE Lost(ImageJob(c))
            <7>1. job'[ImageJob(c)] = [job[ImageJob(c)] EXCEPT !.at = "lost"]
              BY <1>0, <2>2, <6>1
            <7>2. QED
              BY <1>0, <3>0, <7>1
          <6>2. CASE ~Lost(ImageJob(c))
            <7>1. job'[ImageJob(c)] = Stalled(ImageJob(c))
              BY <1>0, <2>2, <3>4, <6>2
            <7>2. job[ImageJob(c)].stalls = 1
              BY <4>4, <6>2
            <7>3. QED
              BY <1>0, <3>0, <7>1, <7>2
          <6>3. QED
            BY <6>1, <6>2
        <5>2. <<c, 1>> \in DOMAIN gallery' => job'[ImageJob(c)].stalls = 1
          BY <1>0, <1>3, <5>1 DEF ImportOf
        <5>3. QED
          BY <2>1, <3>1, <3>2, <4>1, <4>2, <5>1, <5>2 DEF ImportOf, Ended
      <4>5. QED
        BY <1>0, <3>4, <4>3, <4>4
    <3>5. QED
      BY <3>3, <3>4
  <2>4. QED
    BY <2>3 DEF ImportInv
<1>4. QED
  BY <1>1, <1>2, <1>3

\* A request gives the import no image; it may take one away.
LEMMA RequestsImport ==
  ASSUME ImportInv, IType, NEW r \in Requests, GalleryStep(r), UNCHANGED migration
  PROVE  ImportInv'
<1>1. \A i \in DOMAIN gallery' : i \in DOMAIN gallery \/ i = r
  BY DEF GalleryStep, StoreFile, RefuseFile, CreateImage, FindUploader, CreatePicture, SetPicture,
         FindPicture, DeleteUser, AskDeletion, DeleteDocument, Unlink, AddImage, images
<1>2. ASSUME NEW c \in Colleges PROVE ImportOf(c)'
  <2>1. /\ \A n \in {0, 1} : <<c, n>> \in DOMAIN gallery' => <<c, n>> \in DOMAIN gallery
        /\ job[ImageJob(c)].stalls \in {0, 1} /\ ImportOf(c)
    BY <1>1, JobTypes, GalleryAssumption, MigrationAssumption DEF ImportInv
  <2>2. HasItem(c)' = HasItem(c) /\ UNCHANGED <<job, items, upset>>
    BY DEF HasItem, migration
  <2>3. job'[AddJob(c)].at \notin {"migrate", "update"}
    BY <2>1, <2>2 DEF ImportOf
  <2>4. QED
    BY <2>1, <2>2, <2>3, ImportFrame
<1>3. QED
  BY <1>2 DEF ImportInv

LEMMA StepImport == IType /\ ImportInv /\ [Next]_vars => ImportInv'
<1> SUFFICES ASSUME IType, ImportInv, [Next]_vars PROVE ImportInv'
  OBVIOUS
<1>1. ASSUME NEW r \in Requests, Handle(r) PROVE ImportInv'
  BY <1>1, RequestsImport DEF Handle
<1>2. CASE Migrate
  BY <1>2, MigrationStepImport DEF Migrate
<1>3. ASSUME UNCHANGED migration, UNCHANGED gallery PROVE ImportInv'
  BY <1>3 DEF migration, ImportInv, ImportOf, HasItem, MadeImage, ImageOf
<1>4. CASE Fault
  BY <1>3, <1>4, FaultImport DEF Fault, CallFails, HandlersStop
<1>5. CASE UNCHANGED vars
  BY <1>3, <1>5 DEF vars, images
<1>6. QED
  BY <1>1, <1>2, <1>4, <1>5 DEF Next

LEMMA InitImport == Init => ImportInv
BY JobTypes, InitTypes
DEF Init, GalleryInit, MigrationInit, ImportInv, ImportOf, HasItem, MadeImage, ImageOf, Ended

\* However often the server and the command stop, jobs are lost or run again and
\* administrators delete images: an image the import made is the one its item
\* shows, unless its job is at the write that says so, is the first of a job that
\* ran twice, or the job met trouble and the item shows none.
THEOREM MigratedImagesAreUsed == Spec => []MigratedImageIsUsed
<1>1. IType /\ ImportInv => MigratedImageIsUsed
  <2> SUFFICES ASSUME IType, ImportInv, NEW c \in Colleges, NEW n \in {0, 1},
                      <<c, n>> \in DOMAIN gallery
               PROVE  \/ items[SlugOf[c]].image = <<c, n>>
                      \/ job[ImageJob(c)].at = "update" /\ <<c, n>> = ImageOf(c)
                      \/ job[ImageJob(c)].stalls = 1 /\ <<c, n>> = <<c, 0>>
                      \/ ImageJob(c) \in upset /\ items[SlugOf[c]].image = NoImage
    <3>1. \A i \in MigratedImages : i[1] \in Colleges /\ i[2] \in {0, 1} /\ i = <<i[1], i[2]>>
      BY MigrationAssumption
    <3>2. QED
      BY <3>1 DEF MigratedImageIsUsed
  <2>1. job[ImageJob(c)].stalls \in {0, 1} /\ ImportOf(c)
    BY JobTypes DEF ImportInv
  <2>2. CASE n = job[ImageJob(c)].stalls
    <3>1. <<c, n>> = ImageOf(c) /\ MadeImage(c)
      BY <2>2 DEF MadeImage, ImageOf
    <3>2. QED
      BY <2>1, <3>1 DEF ImportOf
  <2>3. CASE n # job[ImageJob(c)].stalls
    BY <2>1, <2>3 DEF ImportOf
  <2>4. QED
    BY <2>2, <2>3
<1>2. QED
  BY <1>1, InitTypes, StepTypes, InitImport, StepImport, PTL DEF Spec
=============================================================================
