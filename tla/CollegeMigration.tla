--------------------------- MODULE CollegeMigration ---------------------------
(***************************************************************************)
(* The import of colleges: a command (CollegeMigrationRunner) reads the    *)
(* pages of the old service and puts a job on a queue for each record; the *)
(* server's workers (CollegeQueueConsumer) make an item of it and put a    *)
(* second job on the queue that gives the item its image.  Neither waits   *)
(* for the queue to take a job.                                            *)
(*                                                                         *)
(* The queue is Bull's: a job whose worker dies is run again once, and a   *)
(* job that throws is not (attempts is 1).                                 *)
(***************************************************************************)
EXTENDS Gallery, FiniteSets, Sequences

CONSTANTS
  Colleges,   \* the records the old service may serve
  SlugOf,     \* [Colleges -> slugs], convertToSlug of the names
  Served,     \* [Workloads -> Seq(SUBSET Colleges)], the pages it serves
  Workers     \* the jobs the server runs at a time

ASSUME MigrationAssumption ==
  /\ MigratedImages = Colleges \X {0, 1}
  /\ DOMAIN SlugOf = Colleges /\ DOMAIN Served = Workloads
  /\ \A w \in Workloads : Served[w] \in Seq(SUBSET Colleges)
  /\ \A w \in Workloads : \A m, n \in DOMAIN Served[w] :
       m # n => Served[w][m] \cap Served[w][n] = {}
  /\ Workers \in Nat \ {0}

Jobs == {"addCollege", "uploadCollegeImage"} \X Colleges
AddJob(c) == <<"addCollege", c>>
ImageJob(c) == <<"uploadCollegeImage", c>>

VARIABLES
  page,       \* the page the command reads next
  job,        \* [Jobs -> [at, stalls]]: the call a job is at, and how often it stalled
  items,      \* [slugs -> [by : Colleges, image]]
  upset       \* history: the jobs that met a failure, a loss or a restart

migration == <<page, job, items, upset>>

Ended == {"completed", "failed", "lost"}
Active == {"create", "enqueue", "migrate", "update"}
Pages == Served[op]
Imported == UNION {Pages[n] : n \in DOMAIN Pages}

MigrationTypeOK ==
  /\ page \in 1..Len(Pages) + 1
  /\ job \in [Jobs -> [at : {"none", "sending", "waiting"} \cup Active \cup Ended, stalls : {0, 1}]]
  /\ DOMAIN items \subseteq {SlugOf[c] : c \in Colleges}
  /\ items \in [DOMAIN items -> [by : Colleges, image : MigratedImages \cup {NoImage}]]
  /\ upset \subseteq Jobs

MigrationInit ==
  /\ page = 1
  /\ job = [j \in Jobs |-> [at |-> "none", stalls |-> 0]]
  /\ items = [s \in {} |-> NoImage]
  /\ upset = {}

Moves(j, from, to) == job[j].at = from /\ job' = [job EXCEPT ![j].at = to]

\* Variant: the last page is left out.
MoreThanOne == page < Len(Pages)

\* The loop's condition, currentPage <= totalPages.
MorePages == page <= Len(Pages)

\* run: one page, and the records' adds, which forEach does not wait for.
FetchPage ==
  /\ MorePages
  /\ page' = page + 1
  /\ job' = [j \in Jobs |-> IF j \in {AddJob(c) : c \in Pages[page]}
                            THEN [job[j] EXCEPT !.at = "sending"] ELSE job[j]]
  /\ UNCHANGED <<handlers, images, items, upset>>

\* The queue has the job.
Arrive(j) ==
  /\ Moves(j, "sending", "waiting")
  /\ UNCHANGED <<handlers, images, page, items, upset>>

\* Bull adds up the concurrency of the two processors: each of the workers takes
\* jobs of either name.
Take(j) ==
  /\ Cardinality({k \in Jobs : job[k].at \in Active}) < Workers
  /\ Moves(j, "waiting", IF j[1] = "addCollege" THEN "create" ELSE "migrate")
  /\ UNCHANGED <<handlers, images, page, items, upset>>

\* createItem, after which addCollege sends the job of the image; slugs are
\* unique, and createItem and addCollege swallow the error.
CreateCollege(c) ==
  LET s == SlugOf[c]
  IN /\ IF s \in DOMAIN items
        THEN Moves(AddJob(c), "create", "completed") /\ UNCHANGED items
        ELSE /\ Moves(AddJob(c), "create", "enqueue")
             /\ items' = [t \in DOMAIN items \cup {s} |->
                            IF t = s THEN [by |-> c, image |-> NoImage] ELSE items[t]]
     /\ UNCHANGED <<handlers, images, page, upset>>

\* The add of the image's job, which is not waited for.
SendImage(c) ==
  /\ job[AddJob(c)].at = "enqueue"
  /\ job' = [job EXCEPT ![AddJob(c)].at = "completed", ![ImageJob(c)].at = "sending"]
  /\ UNCHANGED <<handlers, images, page, items, upset>>

\* GalleryV1Service.migrate
MigrateImage(c) ==
  /\ Moves(ImageJob(c), "migrate", "update")
  /\ AddImage(<<c, job[ImageJob(c)].stalls>>, NoOne)
  /\ UNCHANGED <<handlers, files, picture, target, troubled, page, items, upset>>

\* Variant: the first image is the one that stays.
FirstImage(c) == <<c, 0>>

\* The image that a job gives its item: the one this run of it made.
ImageOf(c) == <<c, job[ImageJob(c)].stalls>>

\* updateItem; it writes, then emits an event without categories, which makes the
\* listener and so the job throw.
UpdateItem(c) ==
  /\ Moves(ImageJob(c), "update", "failed")
  /\ items' = [items EXCEPT ![SlugOf[c]].image = ImageOf(c)]
  /\ UNCHANGED <<handlers, images, page, upset>>

CollegeStep(c) == CreateCollege(c) \/ SendImage(c) \/ MigrateImage(c) \/ UpdateItem(c)

MigrationStep ==
  \/ FetchPage
  \/ \E j \in Jobs : Arrive(j) \/ Take(j)
  \/ \E c \in Colleges : CollegeStep(c)
-----------------------------------------------------------------------------
\* A query of a job fails; addCollege swallows it.
JobFails(j) ==
  /\ \/ Moves(j, "create", "completed")
     \/ \E step \in {"migrate", "update"} : Moves(j, step, "failed")
  /\ upset' = upset \cup {j}
  /\ UNCHANGED <<handlers, images, page, items>>

\* The queue does not take a job.
LoseJob(j) ==
  /\ Moves(j, "sending", "lost")
  /\ upset' = upset \cup {j}
  /\ UNCHANGED <<handlers, images, page, items>>

\* The command stops or cannot read a page, and with it the adds under way.
RunnerStops ==
  LET sent == {AddJob(c) : c \in Colleges} \cap {j \in Jobs : job[j].at = "sending"}
      unsent == {AddJob(c) : c \in UNION {Pages[n] : n \in page..Len(Pages)}}
  IN /\ page' = Len(Pages) + 1
     /\ job' = [j \in Jobs |-> IF j \in sent THEN [job[j] EXCEPT !.at = "lost"] ELSE job[j]]
     /\ upset' = upset \cup sent \cup unsent
     /\ UNCHANGED <<handlers, images, items>>

\* A job whose worker died: it waits again, once.
Stalled(j) ==
  IF job[j].stalls = 0 THEN [at |-> "waiting", stalls |-> 1] ELSE [job[j] EXCEPT !.at = "failed"]

\* The server stops, and with it its workers and the adds of image jobs under way.
WorkersStop ==
  LET running == {j \in Jobs : job[j].at \in Active}
      sent == {ImageJob(c) : c \in Colleges} \cap {j \in Jobs : job[j].at = "sending"}
  IN /\ job' = [j \in Jobs |-> CASE j \in running -> Stalled(j)
                                 [] j \in sent -> [job[j] EXCEPT !.at = "lost"]
                                 [] OTHER -> job[j]]
     /\ upset' = upset \cup running \cup sent
     /\ UNCHANGED <<page, items>>
-----------------------------------------------------------------------------
HasImage(c) == SlugOf[c] \in DOMAIN items /\ items[SlugOf[c]].image # NoImage

\* An image the migration made is that of its item, unless its job is about to
\* say so or met trouble before it did; a job that runs again makes a second image
\* and, when it ends, the item shows that one.
MigratedImageIsUsed ==
  \A i \in DOMAIN gallery \cap MigratedImages :
    LET c == i[1]
    IN \/ items[SlugOf[c]].image = i
       \/ job[ImageJob(c)].at = "update" /\ i = ImageOf(c)
       \/ job[ImageJob(c)].stalls = 1 /\ i = <<c, 0>>
       \/ ImageJob(c) \in upset /\ items[SlugOf[c]].image = NoImage

\* Every record that is served ends as an item with an image, unless a job of a
\* record of its name met trouble.
CollegesArrive ==
  \A c \in Colleges :
    [](c \in Imported =>
         <>(HasImage(c) \/ \E d \in Colleges :
                             /\ SlugOf[d] = SlugOf[c]
                             /\ {AddJob(d), ImageJob(d)} \cap upset # {}))
=============================================================================
