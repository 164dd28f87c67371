# A verification of rankordered-backend

rankordered-backend is a NestJS server over MongoDB. Visitors are shown two
colleges (or two social profiles) and vote for one; an Elo rating turns votes
into a ranking. This directory holds TLA+ models of that server, model-checked
with TLC, and proofs about them checked with TLAPS.

## 1. The system

One Node process (pm2, `pm2.prod.config.js`) runs every handler, listener and
cron job. JavaScript runs one callback at a time, and every `await` lets others
run: two requests interleave at their awaits and nowhere else. MongoDB makes a
single call (find, create, update, deleteMany) atomic; no transaction is used
anywhere. Event listeners run inside `emit` up to their first await; nobody
awaits the rest.

| component | state it keeps | operations | interacts with |
|---|---|---|---|
| Rating arithmetic `utils/eloRating` | none | probability, next rating, K | called by voting |
| Voting `component/voting` | `Voting`, `VotingLimit` collections | POST /vote, counts, statistics | reads item scores, emits `Voting.Created`, limits deleted by cron |
| Item scores `component/item-score` | `ItemScore`, one document per change, newest counts | listeners of item and voting events | written by voting's and items' events, read by voting and rankings |
| Score snapshots `component/scoresnapshot` | `ScoreSnapshot` | hourly pass, retention, limit clean-up (cron) | reads rankings, writes categories |
| Comparison items `component/comparisonItem` | `ComparisonItem` | CRUD, activation, ranked reads, pair offered | emits item events |
| Categories `component/category` | `Category` with `categoryRankingItems` | CRUD, find-or-create | ranking written by the snapshot pass |
| Flag requests `component/flag-request` | `FlagRequest` | request, decide | writes the profile's flag |
| Social profiles `component/social-provider` | `SocialProfile` | create, set category, mark, resubmit, delete | created by sign-ins; the category makes an item; deletion deletes item scores |
| Favorites `component/favorite-item` | `FavoriteItem` | add, remove, list | lists items |
| Users `component/user` | `User` | CRUD, picture | authentication, gallery |
| Gallery `component/gallery` | `Gallery`, files in `public/upload/images` | upload, profile picture, delete, migrate | users, import |
| Authentication `component/auth` | JWT, one cache slot, reset tokens | sign-up, sign-in, linking callbacks, refresh, reset | users, social profiles, providers, mail |
| College import `consumer`, `migration` | Bull queue in Redis | migrate_college command, addCollege, uploadCollegeImage | creates items and images |
| HTTP cache `shared/request` | answers by url, in MongoDB | GET /comparison-item | lists |
| Contact, mail, health | none | | |

What makes each correct, and what is hard about it:

* **Voting.** A voter gets ten votes a day (an address one); a run of five votes
  for one side is abuse and the day's votes are discarded; a vote moves the two
  ratings by the same K. Hard: the limit is read, compared and written in three
  steps; the abuse check, the deletion and every read take their own "today";
  the cron job wipes the limits at the server's midnight, the queries use UTC's;
  getUserVoting turns an error into "no votes yet"; scores are read, used some
  awaits later, and stored by a listener nobody waits for.
* **Item scores.** Each item has one first score of 1500 per category, and loses
  its scores when it is deleted. Hard: find-then-create races itself, deletion
  races voting, and the listeners' promises are dropped.
* **Score snapshots.** Every active item with a score has a snapshot per day and
  the category's ranking lists what was stored. Hard: paging over a ranking that
  moves, `forEach` over an async function, overlapping passes, retention that
  groups by item and deletes by item over all categories.
* **Items, categories.** Events follow writes; an event handler that throws
  fails a request whose write is done. Mongoose strips filter fields that the
  schema does not have (`strictQuery`), so some filters select everything.
* **Sign-in.** Tokens are those of the person who signs in, a reset link works
  once, a linked account goes to the person who linked it. Hard: the linking
  callbacks carry no token and take the user from one cache entry that every
  authenticated request overwrites; users and profiles are found, then created;
  the reset token is found, then cleared.
* **Profiles, flags, favorites, lists.** A flagged profile is hidden, a pending
  request belongs to a pending profile, places are consecutive. Hard: two
  collections change in two steps; lists are put together from a ranking and
  items read at different times, and then cached.
* **Media and import.** A document has its file, a picture its user, an imported
  item its image. Hard: each is made in two steps that may half fail, by
  handlers that overlap or by jobs that run again after a crash.

The hazards are listed with their lines in `PROJECT.json`.

## 2. The modules

| module | what it is |
|---|---|
| `RatingSystem` | the Elo arithmetic, fixed point: `Precision` units per point (1000 in the code, `toFixed(3)`), the rounded logistic as the step function `Curve` |
| `RatingLedger` | abstract specification of voting: a vote is one step that moves two ratings |
| `VoteRuns` | what a run of votes is (`InARow`) |
| `VotingAbuse` | the loop of `isConsecutiveVotesFound`, to be compared with `InARow` |
| `Voting` | POST /vote await by await, its listener, the clean-up, the day, failures and crashes |
| `VotingInvariants` | the inductive invariants behind Voting's safety |
| `ItemScores` | first scores, votes' scores and deletions against each other: the listeners and the queries nobody awaits |
| `ScoreSnapshot` | the hourly pass over a category's ranking: pages, un-awaited inserts, publication |
| `VotingRules` | composes `RatingLedger` and `VotingAbuse`: the two calculations of voting, in one run |
| `Handlers` | requests that go from await to await, meet, fail and stop: extended by all that follow |
| `SignIn` | users, social profiles, the cached user id and reset tokens under the requests of AuthController |
| `Moderation` | a linked profile: flag requests, category and item, favorite mark, deletion; the administrators' updates and deletions of items |
| `Favorites` | adding and removing favorites |
| `Listing` | the lists of items by place and the HTTP cache; extends the two above, whose state it reads |
| `Retention` | the end of score snapshots |
| `Catalogue` | composes `Listing` and `Retention` with failures and restarts |
| `Gallery` | images, files and users' pictures |
| `CollegeMigration` | the import command, the queue and its jobs; extends `Gallery`, in which it makes images |
| `Media` | composes the two with failures, lost jobs and stops of either process |
| `RatingProofs`, `VotingProofs`, `VotingRulesProofs`, `ItemScoresProofs`, `ScoreSnapshotProofs`, `SignInProofs`, `CatalogueProofs`, `MediaProofs` | theorems |
| `MC...` | instances for TLC |

Definitions called "Variant" in a comment are deliberately wrong forms of the
definition after them. No specification uses them; substituted for the right
one, each breaks the property it was written against, which shows that the
property depends on that piece of the code.

### Voting in detail

A request is a member of `Requests`; `pc[r]` names the database call its handler
makes next, `local[r]` holds the variables it has assigned. One action is one
stretch of code between two awaits, so the guard after a read (`count >= 10`) is
part of the read's action and the write is the next one:

| action | code (`voting-v1.service.ts`) |
|---|---|
| `Receive` | the controller calls `updateVoting` |
| `RejectVote`, `FindLimit`, `FindNoLimit` | `getUserVoting` and the branch on its answer; `FindNoLimit` also stands for a failed query |
| `PutLimit`, `CreateLimit` | `findByIdAndUpdate`, `create` of the limit document |
| `CheckAbuse`, `DiscardVotes`, `MissAbuse` | `isVotingAbused`, `discardUserTodayVotes`, either failing |
| `ReadContestant`, `CountComparisons`, `ReadOpponent` | the three reads of the ratings |
| `CreateVote` | `votingModel.create` and `emit`: the listener is started in the same step |
| `ScoreContestant`, `ScoreOpponent` | the listener's inserts |
| `ClearVotingLimitRecords` | the cron job, once a day at any time of the UTC day |
| `Midnight` | UTC midnight |
| `FailRequest`, `FailListener`, `Crash` | a failed query; the process restarts |

An item's scores are a collection of which only the newest is ever read, so
`itemScores` keeps that one. `createdAt` is a counter every stored document
advances. `admitted` is a history variable: how many votes a voter was let
through since the last midnight or clean-up.

A rejected listener promise is unhandled: Node before 15 logs it (`FailListener`),
later versions end the process (`Crash`); both are in the model.

Abstractions: two documents never have the same `createdAt`; the day a query
covers is computed when the query runs (the code computes it in the same
callback that sends the query). Ids, names and payloads are model values.

### Item scores in detail

`ItemScores` looks at the same votes from the items' side, so it abstracts what
`Voting` has in full (limits, abuse, arithmetic) and keeps of a score only what
it descends from: `first` (1500), `voted` (from a score), `baseless` (from the 0
that `?.score ?? 0` puts in the place of a missing one).

| action | code |
|---|---|
| `CreateItem`, `UpdateItem`, `DeleteItem`, `DeleteItemByProfile` | the writes of `comparison-item-v1.service.ts` with the event each emits; the listener runs inside `emit`, so starting its queries is part of the action |
| `FindFirst`, `CreateFirst` | the two queries of `findAndCreateScore` |
| `DeleteScoreByItemId` | `deleteMany` |
| `OfferPair` | `getComparisonItem`: the pair a visitor sees, perhaps long before the vote |
| `ReadContestant` ... `ScoreOpponent` | `updateVoting` and the voting listener |
| `FailFirst`, `FailDeletion`, `FailVote`, `Crash` | rejected promises nobody awaits; the process restarts |

An event's calls carry its number, so that equal calls of two events stay two.
`deleteItemByProfile` filters on `profileId`, which items do not have; mongoose
strips the field and `findOne` returns the first item, so any item may lose its
scores. The history variable `lost` remembers the items this, or a failure,
happened to.

### The snapshot pass in detail

One category per pass (the cron job runs the passes of the categories one after
another, and they share nothing).

| action | code (`score-snapshot.consumer.ts`) |
|---|---|
| `StartPass` | the cron job or POST /snapshot |
| `ReadPage`, `CountItems` | the two queries of `findAllWithRanking`; after the second the body of the loop runs: `forEach` starts inserts, `total` and `page` advance |
| `StoreSnapshot` | an `addSnapshot` completes |
| `ReadRanking`, `Publish` | `findAllWithRankingFromSnapshot`, `updateCategory` |
| `UpdateScore`, `ToggleActive` | a vote's listener, an administrator |
| `FailPass`, `MissCount`, `LoseSnapshot`, `Crash` | a failed query (a failed count only ends the loop), a failed insert, a restart |

Abstractions: the items of the category are fixed, only their activation
changes; of the list of snapshots a category stores per item only the last is
kept; a page beyond the last item is empty like every page after it, so the page
number stays there (`NextPage`). Not modelled: how mongoose casts
`categoryRankingItems`, and the order of the published list.

### Requests in Handlers

`SignIn`, `Catalogue` and `Media` have one shape. `op[r]` says what request `r`
asks for, `pc[r]` which query its handler makes next (an action is one query
with the code up to the next), and `overlap` remembers which requests ran at the
same time. Many properties have the form "never, unless these two overlapped":
they say that the find-then-create pairs of the code are right for requests that
wait for each other, in any number and order and over failures, and name exactly
the overlap that breaks them. `Workloads` lists what requests may ask for; an
instance gives it as scenarios of four requests, each of which may start at any
time or never. What a request creates is named after it.

### Sign-in in detail

| action | code |
|---|---|
| `Begin`, `Authenticate` | the routes of `auth.controller.ts`; `JwtStrategy.validate`, which puts the user's id in the cache |
| `ReadSlot`, `FindOwner`, `Ask`, `FindProvider` | a linking callback: `getUserFromCache`, `findById`, the provider's answer, the feed functions |
| `Lookup`, `Taken`, `InsertUser` | `getByEmail` and `createUser` behind sign-up and the social sign-ins |
| `LoadProfiles`, `InsertProfile`, `Unlink` | `SocialProfileV1Service.create`, `delete` |
| `Password`, `Username` | sign-in by password; refresh by the name in the old token |
| `StoreToken`, `SendMail`, `FindByToken`, `SetPassword` | `forgotPassword`, `resetPassword` |
| `Identified` | `getByUsernameOrEmail`: whoever has the identifier as address or as username, in no order |
| `UpdateUser`, `Delete` | an administrator's `updateUser`, `deleteUser` |
| `Fails`, `Restart`, `Tick` | a query, provider or mail that fails; the process and its cache go; time |

`UpdateUserDto` and the validation pipe keep no field out of `updateUser`, and
`updateProfile` is the same call: an update writes any of address, username,
password and reset token (`fields`), each of which the unique indexes may
refuse. The token it writes is null, or one that no mail names (either is
`NoRequest`), or that of an earlier mail to the same user, whose record the
administrator has read (`Restores`); a token written to another user, or one
guessed, is left out. A username may look like an address, another user's too.
The address may be null, as nothing checks it; a null username is left out.

`seen` (when a person last made an authenticated request, and who has since),
`fate` (what became of a reset token) and `mailed` are history. An email is
required of a profile, so a provider that gives none (`NoEmail`) leads to a
profile that is not stored, and to an answer all the same.

### Catalogue in detail

Moderation's actions are the queries of `FlagRequestV1Service`,
`SocialProfileV1Service` and the item service they call; each action names its
function in its comment. The item a category gives a profile has the profile's
id as its slug, and the slug is unique, so a profile has one item at most.
`updateMany({ profileId }, ...)` filters on a field requests do not have: every
request is decided (`Decided`). `deleteItemByProfile` deletes no item (its
effect on scores is `ItemScores`').

Administrators change items beside all this: `ToggleActive`, `ToggleActiveAll`,
`UpdateItem` and `DeleteItem` are the PUT and DELETE routes of
`comparison-item-v1.controller.ts`, each a single query on any item, a profile's
too. `UpdateItem` writes the fields the body has (`sets`: category, activation);
without a category the listener of its event throws after the write, so the
request fails and the item is changed. An item's `category` stands for its
category list and its default category, which `createProfileComparisonItem` sets
alike. An administrator's change of an item's slug or of its reference to the
profile is left out, as it would break the item's identity, and so is the
creation of further items of nobody.

A list asks the cache, reads the category's ranking, the items, the snapshots
and the count, and is stored (`AskCache` to `Store`). Deactivated and unranked
items have place 0 and come first, in no particular order, which the model
fixes. The cache holds an answer for `TTL`; its store, cache-manager-mongoose
with the cache-manager 4 of `package-lock.json`, keeps it in the database, so
restarts do not empty it (`yarn.lock` has cache-manager 5, with which
`CacheModule` would keep it in memory; the properties do not depend on which).
`late` marks a url whose search comes after `&timestamp`, where `trackBy` cuts
the key; `Misfiled` is the exception the properties make for it. A snapshot has
an item, a category, the `date` its pass began, which the clean-up goes by, and
the day it was stored (`createdAt`), which `deleteRecordsAfterDate` goes by: a
pass that runs over midnight makes them differ. The clean-up chooses items in one
query and deletes in another.

### Media in detail

`multer` stores the file before the handler runs (`StoreFile`), or refuses it.
An image and its file are named after the request: file names are drawn at
random. `GalleryV1Service.delete` is `DeleteDocument` and `Unlink`; whatever goes
wrong in it is swallowed and its caller continues (`CallFails`).

`FetchPage` is one turn of the command's loop: all adds of a page are sent,
none is awaited, so each `Arrive`s later or is lost. `Take` gives a waiting job
to a free worker; Bull adds up the concurrency of the two named processors, so
there are two. `addCollege` is `CreateCollege` and `SendImage`,
`uploadCollegeImage` is `MigrateImage` and `UpdateItem`. A worker that dies
leaves a stalled job, which runs again once (`Stalled`; `maxStalledCount` is 1);
a job that throws does not (`attempts` is 1). Every image job throws at its end:
`updateItem` emits an event without categories, and the listener reads their
length. The item is written by then, so the model goes on and the job is
"failed". An administrator who updates or deletes an imported item while its
image is on its way is outside this model.

## 3. The runs

All runs bound the number of requests, so behaviours end: `CHECK_DEADLOCK FALSE`.
Every instance of voting has a one-point-per-comparison threshold
(`ProvisionalVotes = 1`) and a `MasterRating` between the initial ratings, so
that all three K factors occur; in `voting_overlap`, where ratings do not matter,
they are so far apart that no vote moves them.

| run | question | bounds | result |
|---|---|---|---|
| `voting_rules` | what does one vote do; does the loop find runs? | 3 votes, 3 items, ratings in hundredths with the true curve; all lists up to 7 votes, run of 5 | an upset pays at least half of the least K, an expected win at most half of the largest; the loop finds exactly the runs `InARow` defines |
| `voting_patient` | is a user who waits for each answer held to the limit; how long can a run get, what is discarded? | 4 requests, limit 2, run of 2, one midnight, one clean-up per day, one fault | the limit, plus one limit per fault; at most one vote beyond a run and one per fault; only a user with a run today loses votes |
| `voting_overlap` | what can overlapping requests write; is every request answered, every vote scored? | 3 requests of one user, limit 2, run of 1, the clean-up at any time, one midnight, one fault; no address | never a count beyond the limit; all answered; scored unless a fault |
| `voting_serial` | do votes that do not overlap implement the ledger? | 3 requests, 2 categories, any winner, no faults | yes; every stored vote conserves the sum (or costs K, for neither) |
| `daily_quota` | is the limit kept when requests overlap? | 2 requests of one user | **violated**: see findings |
| `item_scores` | can a present item be, or stay, without a score? | 2 items, 4 events, 1 vote, 1 fault | only while its creation is under way, which ends, or when lost |
| `item_scores_serial` | what holds when nothing overlaps? | 2 items, 2 categories, 5 events, 2 votes, 1 fault | first scores come first and once; deleted items stay clean |
| `score_snapshot` | what does a pass store and publish, does it end? | 3 items (one inactive and unscored), pages of 1, 2 passes one after the other, late inserts, 1 vote or activation, 1 fault | no place twice; exactly the ranking if nothing moved; published snapshots never get older; it ends, unless an item is activated between the two queries of a page |
| `snapshot_complete` | is a complete pass complete? | 1 pass, no fault | **violated**: see findings |
| `sign_in` | whose tokens, profiles and reset links are they? | 18 scenarios of 4 requests, 2 users, updates of any field, one fault, the slot's lifetime passing twice | one's own, unless the overlap, update or overtaking the property names |
| `catalogue` | what do lists show, for how long, and what is kept? | 19 scenarios of 4 requests, 2 profiles, 2 items, 2 categories, pages of 2, one fault, the cache's time and the day passing three times | consecutive places of items that match; a hidden item no longer than the time to live; the newest snapshots stay where the item's own are in one category |
| `media` | do documents, files, pictures and items agree, and does the import end? | 4 scenarios of 4 uploads and deletions of 2 users, 2 imports of 3 records of which 2 share a slug, 2 workers, 2 faults | yes, except after the fault or overlap the property names; every college arrives unless a job of its name met trouble |

Why the bounds are enough: a race over the limit document needs two requests of
a voter, a clean-up needs one more to observe it, and a count exceeds the limit
only after it was created and written twice, so `voting_overlap` has one request
more than the limit: without the guard its third request writes a count of 3.
Overlapping votes of any kind, over midnights and of addresses, are the subject
of the theorems; an item's score
needs an event to create it, one to update or delete it and a vote to race them;
a pass needs two full pages, one item more to appear, and a second pass to
publish after the first; a run needs `AbuseRun` votes and one more; midnight and
the clean-up may fall at any step. In `sign_in`, `catalogue` and `media` a
hazard needs two requests to meet, a third to observe or continue what they left
and a fourth to disturb it; the scenarios put together requests that read or
write the same documents, TLC chooses the order, overlaps and faults, and the
theorems about these modules hold for every workload. Two faults let a job stall
twice. Ratings are in tenths in the runs of `Voting` (the whole
range of the curve is the ledger run's subject).

`AdmissionView` (a TLC VIEW) leaves the scores, the listener and the locals read
for scoring out of the fingerprint in the runs about admission: no action that
changes limits, votes' dates, or admissions reads them. Requests are symmetric:
nothing orders them. Items, categories and votes of `ItemScores` are symmetric
for the same reason; the `CHOOSE` in `ItemScores`'
`Init` names a pair no vote reads. Runs with a liveness property use no symmetry.
Only `voting_overlap`, of those, has a view. With one user and one ballot,
`ServiceView` keeps of the limit documents their counts, which of them is the
newest of today and which pending write holds which, and of the votes how many of
today there are and how many of them a deletion would take; it leaves out scores,
votes of earlier days, ids and `admitted`, which no guard of that instance and no
property of that run depends on. States it takes for one have steps to states it
takes for one, actor by actor, so fairness and the properties are the same in
both. `Answered` and `VoteIsScored` have the form `[]<>`: as a request is received
once, to have none under way again and again is to have answered all.

`AppliedToExistingScores` and `FirstScoreOnce` hold for votes and events that do
not overlap, and fail when they do: with two overlapping votes the second
replaces scores computed from ratings that are no longer the newest, and a first
score of 1500 may replace one a vote has just stored. The serial runs state what
is left of them, and the findings tell the rest.

## 4. Fairness

`FairSpec` asks weak fairness of each request's handler and each listener: the
event loop takes up every callback whose database call has returned, and a call
that never returns is a failure (mongoose times out) which ends it. The same of
`ListenerStep` in `ItemScores` (its calls are finitely many, so one condition
for all of them suffices) and of a running pass in `ScoreSnapshot`, where only
the start of a pass waits for the other (`FairSerialSpec`). `Media` asks it of
the import only: of each turn of the command's loop (it awaits only the page), of
each add that was sent (Redis answers or the add is lost), of each waiting job
(Bull's workers poll as long as the server runs, and it restarts) and of each
job's steps. Nothing is
assumed of clients, of midnight, of cron or of faults.

## 5. Proofs

Every safety invariant and safety action property a passing run checks is also a
theorem, for every set of requests, items, voters and ballots, every limit and
every number of faults; so is the refinement of the ledger. What remains
model-checked is at the end of this section.

**Voting**

* `RatingProofs`: the types and bounds of the arithmetic; `NextRatingsSum`: a
  decided vote conserves the sum, a vote for neither side loses K; `LeastNumber`,
  the induction over the naturals other proofs need: a set of numbers has a least.
* `VotingRulesProofs`: `UpsetsPayMore`. `EvenChance` says that the chance of an
  outsider is at most a half and a favorite's at least a half, by counting the
  steps of the curve below the difference of the ratings; `GainBounds` multiplies
  by K. `LoopFinds`: the counting loop, whose counts are the recursive function
  `Counts`, returns true exactly for lists with a run. `CountsExist` shows that
  the function exists (tlapm knows nothing of a recursive definition until then).
  `LoopInv` is the loop's invariant: while nothing is found, the count is the
  length of the longest one-sided stretch that ends here and no run lies behind;
  `LoopAlways` is its induction, from `LeastNumber`.
* `VotingProofs`: `TypeCorrect`; `LimitCountBounded`, from `CountInv` (the count
  a request holds between its read and its write is already within the limit);
  `VotesConserveRating`, from `NextRatingsSum` at the step that stores the vote.
  * `ScoresReplaceTheirBasis` and `VotingImplementsLedger`, votes one at a time,
    from `SerialInv`: what a request that computes ratings has read is what is
    stored, and only a stored vote is scored. The refinement has one lemma per
    kind of step: storing the vote casts it (`CreateCasts`), the listener's two
    inserts stutter, because a pending score is already counted in
    (`ScoringStutters`, `LedgerRatings`), the discard discards
    (`DiscardDiscards`), all other steps leave the ledger's variables alone
    (`LedgerStutter`). It holds when `MaxFaults = 0`: a listener that fails
    stores a vote without its scores, which no ledger step does.
  * `QuotaKept`, the daily quota of a voter who waits for each answer.
    `QuotaPerFault` is not inductive: admissions are compared with a limit
    document that is written one step after the admission and may vanish or
    become yesterday's in between. `QuotaInv` says where a voter's admissions are
    accounted for, in three cases: no request of the voter is between decision
    and write (`SettledInv`: the newest document of today counts them), one is
    about to write a count (`DecidingInv`: its local count does, unless the day or
    the documents were reset, and then there are none), or one is about to create
    a document. `Slack` is what earlier faults left uncounted. `DatedInv` and
    `OwnerInv` say that documents are dated apart and that a request only writes a
    document of its own voter. The proof groups the actions: *calm* steps leave
    all this alone (`CalmSteps`), *faults* may drop a decision and pay for it with
    one quota (`FaultSteps`), and each deciding, writing and resetting action has
    a lemma.
  * `NoRunGrowsLong` and `DiscardsAreJustified`, from `RunsInv`: a request that
    has passed the check may prolong a run by its own vote, so the runs of its
    voter are shorter by one (`RunInv`, `RunGrowsByOne`); a request about to
    discard saw a run, which is still there unless midnight has emptied the day
    (`DiscardInv`). `NoRunGrowsLong` needs `AbuseRun >= 2` (5 in the code): the
    discard keeps a vote stored exactly at the start of the day, which alone is a
    run of one.

**Item scores and snapshots**

* `ItemScoresProofs`: `AlwaysScored`, for any overlap. It is inductive with
  `ScoredInv`'s other half: scores are only deleted from items that are deleted
  or lost. `DeletedClean`, `FirstScoreReplacesNone` and `FirstScoreComesFirst`
  for events and votes one at a time, from `SerialInv`: the calls under way
  belong to one event (their numbers agree, and a later event's would not), a
  call about to create has found none and is alone for its item and category,
  and the items of a vote under way are present and scored. The last conjunct is
  where `AlwaysScored` is used: nothing is under way when a pair is offered.
* `ScoreSnapshotProofs`: `PlacesDistinct`, for any overlap of passes. Inductive
  is `PlacesInv`: the places a pass has asked for lie below the page it reads
  next, and those of the page in hand above (`SkipGrows`). `PublishedForward`,
  for passes one at a time, from `PublishInv`: what is published is the place of
  a stored snapshot, and a pass about to publish has read no older one; that a
  newest snapshot exists (`NewestExists`) follows from the well-foundedness of
  the naturals. `StillPassExact`, for any overlap of passes, from `StillInv`: a
  pass that nothing moved has read whole pages (`total` is the skip of the next
  one), has asked for exactly the items of the places before it, and holds the
  rows of some ranking of the items as they are. Without ties that ranking is the
  only one (`RankIsPlace`, counting the items above); a page is full unless it is
  the last (`PageCount`), so the loop's comparison of `total` with the count of
  items stops it neither early nor late (`StillCounts`). The second half of the
  invariant, `First`, is needed because a change during the first page may end a
  tie: a pass there has asked for nothing, tie or not.

**Requests that meet**

* `SignInProofs`: `SignInTypeCorrect`, for which the records a handler holds must
  be typed at each step it may be at; `OnlyOverlapMakesTwins`, from an invariant
  about a request between its look at the user's profiles and its insert: every
  like profile there is by now comes from a request that overlapped it, and every
  other request between the same two steps runs now and so overlaps it. Five
  more from `AccountInv`, whose parts say what a handler knows between two
  queries: the user it found has the address it looks for, or an update that
  overlapped it has written his address (`OwnInv`; `AddressesOverlap` says that
  every update of an address which comes between is such an overlap); a sign-up
  that finds an address taken after all finds a user whom a request made, or gave
  the address, beside it (`SignupInv`); users hold only tokens that a request
  stored for them, or an update put back (`TokenInv`, `RestoreInv`), and once a
  reset is done nobody holds its token unless it was put back, so another that got
  past the lookup overlapped it (`ResetInv`); a reset about to clear a token that
  is not its own overlapped the request that wrote it (`OvertakenInv`, for
  `MailInv`); usernames are unique (`NamesInv`); and the
  user in the slot has made a request after everybody else's last (`SlotInv`):
  `TokensBelongToAddress`, `LinkChangesPasswordOnce`, `LinkWorksUntilUsed`,
  `RefreshFindsSameUser`, `LinkGoesToItsUser`.
* `CatalogueProofs`: `FavoritesOnce`, from an invariant about a request between
  its look for the favorite and its insert: every like favorite there is by then
  comes from a request that overlapped it. `PendingFlagged`, from `PendingInv`,
  which says the same of a request that is about to store itself: what may take
  the flag from its profile meanwhile overlaps it. `ItemsFollowProfiles`, from
  `ItemsInv`: every category of a profile or of its item was set by a request
  that has begun, or the item's by an administrator's update (`Rewritten`); an
  item that is missing is being made, failed to be, or was deleted (`Deleted`);
  and a request about to make the item has saved the category.
  `RetentionKeeps`, from `RetentionInv`: an item a clean-up has chosen keeps a
  snapshot that is not old. Another night's clean-up under way might delete that
  one, so the invariant compares the days two of them began on: the later one's
  limit is higher, but what it leaves is not old for the earlier one either.
  `TogglesCount`, from `MarkInv`: the mark is the parity of the finished toggles
  and the one under way has read it. `PagesInOrder` and `CacheKeepsSearches`, from
  `ListingInv`: every page that is made, cached or given fits its query
  (`PagesInv`). That a page fits when it is made is a fact about the operators
  (`RowsFacts`): the rows are the k-th of the ranked items among the wanted ones
  (`AmongFacts`, `KthOf`), counted by how many are before them (`UptoSize`,
  `UptoNext`), so places that follow each other stay so. `HiddenSoon`, from
  `HidingInv`: an answer that shows a hidden item was made by a handler that ran
  when the item was hidden, or expires within the time to live of that moment.
  The composition has five parts; a step of one leaves the others' state alone,
  and the frame lemmas (`NextCases`, `ModerationStepOf` and their like) say so
  once.
* `MediaProofs`: `MediaTypeCorrect`; `DocumentsHaveFiles` and
  `FilesHaveDocuments` from `Inv`: an upload has its file before it makes the
  document (`UploadsInv`, `GalleryInv`), a deletion about to remove a file has
  removed the document for good (`UnlinksInv`), and a file left without a
  document is the target of a deletion between its steps or in trouble
  (`OrphansInv`, `TroubleInv`: whoever had trouble starts no other deletion). TLC
  agrees that `Inv` is an invariant of the instance. `PicturesAreUsed`, from
  `PicturesInv`: past the deletion of the old picture every other image of the
  user is excused by an overlap or trouble. `MigratedImagesAreUsed`, from
  `ImportInv`, which says for each college how far its two jobs can be, given
  that its item or its image is there.

The type invariants of `Voting`, `ItemScores`, `ScoreSnapshot`, `SignIn` and
`Media` are theorems; only `SignIn`'s is a run's invariant too, for it says that
no profile of nobody is stored.

What the theorems assume of the constants, each an `ASSUME` that TLC evaluates
in the runs:

* `VotingAssumption`, `RatingAssumption`: types; users are not addresses; the two
  items of a ballot differ, as those of a pair `getComparisonItem` offers do, for
  it samples two documents. Nothing checks this of the body of POST /vote: a body
  that names one item twice is outside the model and the theorems. `CurveAssumption`: equal ratings have a chance of exactly one half
  (`toFixed(3)` of 1/2 is 0.500). `RunAssumption`: a run has at least one vote.
* `ItemScoresAssumption`, `SnapshotAssumption`: there is an item and a category,
  items are finitely many, a page has at least one row, unscored items sort below
  scored ones; the bounds are numbers.
* `SignInAssumption`: the accounts there are at first have different usernames
  (the schema's unique index) and no reset token under way.
* `ListingAssumption`: items are finitely many, a page has at least one row, and
  a published ranking names each item once, as the aggregate over items that
  makes it does. `ModerationAssumption`, `FavoritesAssumption`,
  `RetentionAssumption`, `GalleryAssumption`, `FaultAssumption` give the types of
  what a workload asks for and of the bounds; `MigrationAssumption` adds that no
  record is served on two pages.

Model-checked only: liveness (`Answered`, `VoteIsScored`, `ItemIsScored`,
`PassEnds`, `CollegesArrive`), for ENABLED and fairness are out of the prover's
reach. The two runs that expect a violation prove nothing further.

## 6. Findings

* `daily_quota`: the limit is checked on a copy. Requests of one voter that
  overlap are all admitted on the same count.
* `snapshot_complete`: a pass publishes the ranking and reports completion while
  its own snapshots are still being stored.

Two more, seen in the serial runs' need for their restriction:

* A vote's scores are computed from ratings read several awaits before they are
  stored ("on existing score and ranking of these colleges",
  `RatingSystem.service.ts:11`); overlapping votes on a common item overwrite
  each other.
* An item is open for votes before its first score is stored
  (`ItemScore.listener.ts:15`), and the first score of 1500 may replace a score
  a vote has stored. The reverse (the vote is computed from 0 because the first
  score is not there yet, and the 1500 is then never created) is what
  `FirstScoreFirst` excludes for events and votes one at a time, and does not
  exclude when they overlap.

Not findings, for no line of the repository says otherwise, but visible in the
properties' exceptions: a pass never ends when an item is activated between the
two queries of a page (`PassEnds`); deleting a profile deletes the scores of some
item (`lost`); a score of 0 is never snapshotted (`StillPassIsExact`);
deciding one profile's flag requests decides everybody's (`Decided`); retention
drops the last snapshots of a category when the item has newer ones in another
(`RetentionKeepsNewest`); an account may be linked to whoever made the last
authenticated request (`LinksOwnUnlessOvertaken`); a search after `&timestamp`
is answered, and stored, for the whole list (`Misfiled`); a restart between the
two calls of `addCollege` leaves the item without its image for good (the job
that runs again finds the item there and sends no job, `CreateCollege`), and every image job ends
as failed (`UpdateItem`); a replaced picture may leave a document
nobody uses (`PictureIsUsed`), and a failed upload a file (`FileHasDocument`).

## 7. Not modelled

* Contact form and mail templates (output only), configuration and health
  (constants), DTOs and Swagger (declarations).
* Reads that decide nothing: voting statistics and counts, the administrators'
  lists of profiles and flag requests, single items with their ranking by id or
  slug, the charts of snapshots.
* Single-document updates nothing else depends on: categories' CRUD, the edit of
  an image's source.
* Administrators' updates of an item's slug or profile, and of imported items
  while their import runs; updates of a user that give him another user's reset
  token or no username.
* The expiry of access and refresh tokens, the guard of `sso/login`, and the
  exchange of codes with the providers, which `Ask` takes as one answer or
  failure.
* Images of the migration name files that were copied by hand; whether they are
  there, and shared by two records, is outside the code.

## 8. Plan

1. Proofs: the refinement with faults, against a ledger that may store a vote
   without its scores; which of the serial properties survive votes that overlap
   on different items.
2. The ranked reads of single items against the list.
