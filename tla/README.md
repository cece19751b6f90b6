# Roavia: TLA+ verification project

Roavia plans trips. A Next.js web application talks to a Hono API; a worker
process runs background jobs taken from PostgreSQL through pg-boss; drafts come
from an AI gateway, facts from travel-data providers and a curated catalog. This
directory holds the specifications of the parts where the order of things
matters, the TLC runs that check them on small instances, and the proofs, checked
by TLAPS, that hold for all instances. Every definition is translated from the
TypeScript sources; `map` in `PROJECT.json` names the lines, `hazards` what is
hard to test and which property watches it.

## 1. The system

| Component | State | Operations | Modules |
| --- | --- | --- | --- |
| Itinerary generation (`packages/ai`, `packages/jobs/src/itinerary-generation.ts`) | runs, attempts, the state of the trip | request, cancel, begin, stage, record, publish, fail | `ItineraryGeneration`, `GenerationContract` |
| AI gateway and drafting (`packages/ai/src/itinerary-generation.ts`) | none but the loop's | ask, validate, repair, deliver | `ItineraryDrafts` |
| Background jobs (`packages/jobs/src/pg-boss.ts`) | `application_jobs`, operator actions, pg-boss | enqueue, execute, cancel, scrub, redrive, discard, start, shutdown | `JobRuntime` |
| Trips and itineraries (`packages/db/src/trip-repository.ts`) | trips, stops, days, items, revision | create, update, move, delete | `TripRepository`, `OrderedLists` |
| Web pages on a trip (`apps/web/components`) | what a tab shows, its calls in flight | edit, save, review, follow | `ItineraryWorkspace`, `GuidedPlanner`, `NaturalPlanner`, `TripPages` |
| Account deletion (`apps/api/src/account-lifecycle.ts`, its repository) | receipt, tombstone, account, jobs, identity | confirmDeletion, its steps and retries | `AccountDeletion` |
| Account export (same repository, `apps/api/src/accounts.ts`) | archives | create, download, revoke, expire | `AccountExport` |
| Assistant actions, disruption recommendations | `assistant_actions`, `disruption_recommendations` | preview, confirm, decide, apply | `SuggestedChanges` |
| Live conditions (`packages/jobs/src/live-reconciliation.ts`) | `live_condition_impacts` | refresh, reconcile | `LiveConditions` |
| Travel-data coordinator (`packages/travel-data/src/coordinator.ts`) | cache, circuits, requests in flight | execute, revalidate | `TravelData` |
| Destination catalog (`packages/db/src/destination-ingestion.ts`) | places, content, quarantine | ingest, review, read | `DestinationCatalog`, `GroundedAnswers` |
| Grounding (`packages/ai/src/grounding.ts`) | none | rank, select, cut, tell gaps | `Grounding`, `GroundedAnswers` |
| Sharing (`packages/db/src/authorization.ts`) | links, visibility of the trip | create, revoke, open | `Sharing` |
| Offline packages (`packages/offline`, service worker) | packages, IndexedDB, page cache | build, download, refresh, remove, sign out | `OfflinePackages` |

The parts meet in the rows of one PostgreSQL database, in jobs, and in HTTP calls.
No memory is shared between processes; inside a process every `await` is a point
where another handler, request or execution runs. `components` in `PROJECT.json`
also lists the parts that are not modelled (section 5).

What is hard, and what makes a part correct:

- *generation*: a handler cannot be stopped, so an execution that timed out
  overlaps its successor, while the user edits, deletes and cancels. No edit may be
  lost, and a trip must never be relabelled by a run that has been replaced.
- *jobs*: the application row and the pg-boss job are two records of one fact, and
  five kinds of writers touch them one at a time.
- *trips*: rows move through temporary positions under a unique index that is
  checked row by row; a wrong range leaves a gap, a tie or a failed transaction.
- *pages*: a change is shown before it is saved; a plan is saved by one call after
  the other; answers get lost; other tabs edit the same trip.
- *account deletion and export*: four operations on three systems, recorded one by
  one, each of which may fail or stop half-way; requests admitted before go on.
- *suggested changes*: decided on one state of the trip, applied to a later one.
- *live conditions*: reconciliations overlap statement by statement and lock rows
  in their own order.
- *travel data*: callers share requests; entries age while a provider is asked; a
  circuit admits one probe, which must report back.
- *sharing*: visibility is derived from links that are created and revoked at once.
- *offline*: a package is built from reads made before its transaction; a download
  crosses an edit, a removal or a sign-out.
- *catalog, grounding, drafts*: records refer to each other in any order; approvals
  are given to texts that change; required evidence competes for few places; the
  check of a draft must accept what can be travelled and nothing else.

## 2. Modules

One module per component, with its state, one action per operation or statement,
its specification and its properties. `MC...` modules give it an instance for TLC.
`...Proofs` modules hold theorems. Definitions named `...` with a comment
`Mutant:` are wrong on purpose: each is a plausible bug of the definition after it
that a property finds (`mutants` in `PROJECT.json`); none is part of a
specification.

```
GenerationContract <- ItineraryGeneration <- MCItineraryGeneration, ItineraryGenerationProofs
AccountDeletion <- AccountExport <- MCAccountDeletion, AccountDeletionProofs
OrderedLists <- TripRepository <- MCTripRepository, TripRepositoryProofs
                TripRepository <- ItineraryWorkspace, GuidedPlanner, NaturalPlanner <- TripPages <- MCTripPages
TripPages, TripRepositoryProofs <- TripPagesProofs
DestinationCatalog, Grounding <- GroundedAnswers, ItineraryDrafts <- GroundedWork <- MCGroundedAnswers
                                 GroundedWork, ItineraryGeneration <- ItineraryGenerationProofs
SuggestedChanges   JobRuntime                                  each with its MC module and its proofs
TravelData   LiveConditions                                    with their MC modules, proved in TravelDataProofs
Sharing   OfflinePackages                                      checked as they are, proved in TripAccessProofs
```

### ItineraryGeneration and GenerationContract

`trip` is the trips row (`revision`, `generation_state`) with a version of what the
user sees; `run` the run rows, `rows` the attempt rows, `job` the
`application_jobs` rows; `queue` is pg-boss (external); `exec[<<r, a>>]` is the
handler of the a-th delivery, at the await it has reached; `api[r]` is the request
about the run. One action stands for the code between two awaits that touch shared
state. The request transaction is `RequestGeneration`, the job `Enqueue`, the
rollback of a failed enqueue `Compensate`, cancelling `CancelQueue`, `CancelRow`,
`CancelRun` in that order; `Claim`/`Report`/`Return` are executeJob around the
handler; `Begin...`, `Stage`, `Gateway...`, `RecordAttempt`, `SetPersisting`,
`Publish`, `FailRun` are the service and its store. `TimeOut` aborts the signal
and fails the queue job while the handler runs on; `WorkerCrash` and `Expire` lose
the process and later its lease. `GenerationContract` says what a traveller is
promised: a request is answered by at most one publication, which replaces the
trip only if it is still the one the request was made for.

Abstracted: the draft is accepted, rejected or an error, chosen freely
(`ItineraryDrafts` has the rest); a version stands for days and items; backoff is
no time at all; `count(*)` of earlier repairs is the string it is in JavaScript,
modelled by the number its concatenation yields (`Counted`).

### AccountDeletion and AccountExport

`receipt` is the receipt row with its checklist; `tombstone` its tombstone;
`account` the users row with all that cascades from it; `job` the rows of the user
in `application_jobs`, `queued` the jobs pg-boss has, `handler` the workers;
`identity` and `sessions` live at the provider; `call` are the POST calls, each at
its await with the receipt it has seen last; `request` are other requests that
passed the tombstone check. `effects` is a history variable: operations carried
out at least once. `OperationFails` is an exception of the operation, before or
after it took effect; `Interrupt` is a process that stops, or a failed write of
the receipt, for which `step` has no handler because it returns the promise
unawaited.

`AccountExport` adds what such a request may be: the creation and the download of
an archive, transaction by transaction. `row` numbers the users row, since an
account that is provisioned again is another row; `stored` and `owner` are the
archive and what the request has read. The deletion's own steps become `Deletion`,
which revokes the archives with a new tombstone and takes them along in the purge.

### SuggestedChanges

`revision` and `place` are the trip (an item is the place it stands at; a change of
anything else, `Same`, bumps the revision and leaves the places); `impact` is what
`live_condition_impacts` says that is active, fresh and certain enough, the three
conditions every reader asks for together; `rec` and `action` are the rows of
`disruption_recommendations` and `assistant_actions`; `call` are the requests in
flight, each at its await. A recommendation is applied at most once, so its action
carries its key. `Refresh`, `Create`, `NoAlternative` are the refresh route;
`Query`, `Offer`, `OfferNothing` the assistant; `Confirm`, `ApplyAction`,
`RefuseAction`, `ResolveApplied`, `ResolveFailed` confirm; `BeginApply`, `ReadTrip`,
`CreatePreview`, `ClaimPreview`, the confirm steps, `FinishApply`, `GiveUp` apply.
`StatementFails` is an exception, `ProcessStops` the loss of the process between
two awaits. A transaction that locks the row it decides on is one step. A preview
may have expired at any claim, a place may be inactive at any change.

Abstracted: what the assistant answers; the order of candidates and the limits of
three candidates and ten listed rows; the trip stays active, its owner alone asks.

### JobRuntime

`row` and `queue` are the two records; `exec` is executeJob per delivery, at its
await; `call` the calls of operators, users and the account deletion, each between
its statements; `audit` the operator actions; `worker` the process. `Deliver`,
`Claim` and the steps of `Work` are executeJob; `Cancel`, `Scrub`, `Redrive`,
`Discard` with `Serve` the calls, read, queue and row apart where the code has them
apart; `Shutdown`/`Exit` the graceful stop, `Die`/`Start` the other. Payloads and
errors are reduced to whether they are there.

### TravelData

A caller reads the cache, answers from it or waits for a flight: a chain (primary,
then fallbacks) it starts or joins, or a refresh of a stale entry in the
background. `circuit` is the breaker, `inFlight` the table of flights, `cache` the
entries with their two ages. A provider answers with any of the kinds of result the
code tells apart. The clock moves only while every flight waits for a provider or
for its back-off; the memory cache takes no time.

### TripRepository and OrderedLists

`place` maps every row to its parent and its `order_index`; each operation is a
chain of `Statement`s on it (`Shift`, `Put`, `CloseOrderGap`, `MoveOrderedRow`...)
that records whether a statement met the unique constraint on its way (`Clear`).
`OrderedLists` is the abstract specification: lists that change by one insertion,
removal, move or replacement at a time, with a new revision. `ImplementsLists` is
the refinement.

### ItineraryWorkspace, GuidedPlanner, NaturalPlanner, TripPages

Each extends `TripRepository`, whose own steps are the other tabs, and adds what its page
knows: the trip as it was loaded, the change in flight with the page before and after it,
the form, the calls of a save one by one. `Lose` and its like are requests and answers that
get lost; a page may be reloaded or left at any point. In the workspace other clients also
move items to other days and add days; the history field `missed` of a page holds the items
whose saved change it did not show, because they had left the day it looked in. `TripPages`
opens one of the three in a tab and states their properties together. Runs, for the third
page, are what `ItineraryGeneration` promises.

### LiveConditions

A job reads its targets, asks for forecasts (which may change in between, or not come), and
writes its transaction statement by statement with row locks: an upsert per impact in key
order, then the resolution of what was not observed. Who waits for whom follows from the
rows written and wanted (`WaitsFor`); a job that waits for itself is in a deadlock
(`Deadlocked`). Its victim, or a transaction whose item has gone, fails, and its job starts
again until its attempts are used up (`Doomed`, `Fail`). Scores and wording are reduced to
severe and certain; the places of one refresh are asked under one forecast.

### Sharing

Creation and revocation are READ COMMITTED transactions whose statements see what
others committed and wait where their row locks conflict (`keyShared`, `locked`);
`page` is the owner's list and what it said. Reading a shared trip is `Opens`.

### OfflinePackages

`packages` are the rows of the server; a request reads trip and guidance before the
transaction that compares and inserts. `tab` is the page in its states, `device`
IndexedDB, `routes` the cached pages, `worker` unanswered messages, `session` how
far a sign-out came.

### DestinationCatalog, Grounding, GroundedAnswers, ItineraryDrafts, GroundedWork

An ingestion places the records of a catalog in rounds, quarantines the rest and
writes content rows with their quality (`DestinationCatalog`). A place goes by the number
of the key that inserted it; `identity` says which place a key means now, since a record
claims its own key and the ones it names, those of other records included. A place has
one content row, whoever writes it, and a catalog that makes a place its own parent is
refused as a whole. `Grounding` is the
pure selection: ranks, required kinds first, the cut to the budgets, gaps and
conflicts. `GroundedAnswers` reads the catalog query by query while it changes and
selects. `ItineraryDrafts` is the validation of a draft, the repair loop and what is
told of an accepted one. `GroundedWork` puts the two uses of evidence in one
specification. The text of the context and the tokens of its frame are left out.

### Smaller abstractions

Details of the code the modules simplify. The places of one refresh of live conditions are asked under one
forecast (`live-conditions.ts:90` asks one by one). An impact counts only while it is
certain enough, which the listing asks for and `beginApply` does not
(`disruption-recommendation-repository.ts:369`). Of the two reads of a job that may fail in
executeJob only the first does (`pg-boss.ts:357`, 382); a graceful stop also waits for
handlers that timed out. A revocation reads the clock after it waited for its locks, not
before (`authorization.ts:262`), and those on link, trip and user are the one on the trip.
What may be retried follows from the kind of a failure and not from the adapter's own flag
(`coordinator.ts:447`). Grounding reads the places and the hierarchy in one query per
question (`destination-repository.ts:226`, 493); records of media or without a source, and
the gap that tells of the latter, are left out (`postgres-grounding.ts:97`).

## 3. Runs

Every run is exhaustive for its constants and passes. `CHECK_DEADLOCK FALSE` is
set because the systems stop: all runs settled, all calls answered, the bounds
used up.

| Run | Instance | Shows |
| --- | --- | --- |
| `generation` | 2 runs, 2 attempts, 2 repairs, 1 edit or deletion, no fault | a late execution never relabels the trip under the other run; the contract is implemented |
| `generation_overlap` | 1 run, 2 attempts, 2 repairs, 1 edit or deletion, 2 faults, fairness | no edit is lost; a reported success was a publication; an undisturbed request settles unless its repairs were miscounted |
| `deletion` | 2 calls, 1 request that may export, 1 job, 1 fault, fairness | a completed receipt is earned; identity and data go in order; no archive outlives the account; a call that has the account to itself completes |
| `suggestions` | 1 item, 2 places, 1 impact, 1 offer, 2 calls, 1 edit, 1 fault, fairness | an action changes what was previewed; outcomes are true; an apply concludes while nothing fails |
| `jobs` | 2 jobs, 1 key, 2 calls, 2 attempts, 1 fault, fairness | an open row is worked on, a settled one rests, redrives are recorded, a key has one job; jobs settle |
| `travel_data` | 2 callers, 1 input, 2 fallbacks of which one does not cover it, threshold 2, 2 attempts, time 2, fairness | one flight per key, one probe per circuit; answers are as current as they say; whoever asks is answered; probes report back |
| `trips` | 2 stops, 2 days, 3 items, 3 dates, 3 initial itineraries, revision up to 3 | orders stay dense, no statement meets the unique constraint, every transaction is one step of ordered lists |
| `pages` | one page of the three, on a trip of two stops and a day, or of two items and one or two days; 2 stops, 2 days, 3 items, 2 dates, revision up to 2, 2 changes, 2 tries, 2 generations, fairness | what a page shows as saved is saved; what it sends fits the rows it showed; a plan announced as saved is saved; no page waits for ever |
| `live_conditions` | 2 items, 2 jobs of 2 attempts, 2 forecasts, rows of an earlier refresh or none, 1 edit, fairness | active impacts are material; a refresh that ran alone leaves exactly what it found; refreshes end or are dead-lettered, deadlocks included |
| `sharing` | 2 links, 2 requests, time 2, fairness | active links open, revoked ones do not; the last revocation hides the trip; no deadlock of requests |
| `offline` | 2 tabs, 1 change | a new package is the trip as it is; no twin packages; an undisturbed sign-out clears the device |
| `catalog` | 3 keys, of which a record may take over another's, 2 ingestions, 2 editorial decisions, contexts of up to 3 records, drafts with 1 repair, 3 warnings | the hierarchy is rooted but for chains that meet a place which records of two keys wrote, and rejections are told; an approval is for its text; only approved text is given and required kinds come first; the check of a draft is feasibility, and unknowns are told |

Bounds. The properties speak of pairs: two executions, two calls, two flights, two
transactions, two tabs are the smallest instances that overlap, and every interleaving of
the pair is checked. One fault is placed at every point at which the code can fail; a
property that survives a disturbance anywhere and is inductive (section 4) does not depend
on the number. Two runs compete for a trip; a third would compete with one of them in the
same way. Whether a run settles is asked of one run, since no rival can start while it is
active. Two attempts give a last attempt and one before it, two repairs are what production
allows (`jobs/src/itinerary-generation.ts:94`) and the fewest that can be miscounted. One
archive request meets a deletion before, between and after each of its transactions;
`MCAccountDeletion` bounds this further to behaviours without jobs, in which the fault came
first (section 4 proves the property without any of these bounds). Two stops, two days and
three items are the smallest itinerary with a move within a day, a move between days and a
row in the middle; three revisions follow one operation by two others from each initial
itinerary. In `pages`, other tabs interleave with one change, save or generation and with
its repetition after a failure; with a second day, or a date for one, another client moves
an item away from under an open editor. In `live_conditions`, two jobs deadlock on rows that
are there before them: each takes the rows of a scope in an order of its own; a second
attempt meets the other job again (production has three). A threshold of two failures opens
a circuit by a run of failures and not by one; one fallback that does not cover the input is
skipped, the other asked. Three keys in the catalog make a chain, a cycle, and a place
beside it, and are enough for a record between two others to take over the key of one of
them. The warnings of a draft are limited to three in place of fifty, which the drafts of
the instance exceed. Times are ticks: fresh, stale and expired each hold at some of them.

Fairness, and why the code justifies it. *Generation*, *jobs*: workers poll, leases
expire, the platform restarts the process, an accepted request is carried through
(weak fairness of `Deliver`, `Work`, `Expire` and `Serve` in `ItineraryGeneration`;
of `Goes`, any of them, in `JobRuntime`, where none goes on for ever).
*Deletion*: a call that was accepted is carried on (`Advance`); that a call starts is
never assumed. *Suggestions*: an accepted request is carried on (`Proceed`) unless a
fault ends it. *Travel data*: every attempt has a timeout and every back-off a timer
(the steps of flights and calls together). *Pages*: a fetch ends with an answer or
without (`Lose \/ Settles`, `Ends`); workers take up and end runs and the page's
timer fires (`RunStarts`, `RunEnds`, `PollEnds`). *Live conditions*: a worker goes on
with a job (`Works(j)`); that a victim of deadlocks stops at last is not assumed, it is
the bound on its attempts. *Sharing*: a transaction goes on while its locks let it
(`Works(r)`). Nothing is assumed of users, faults, providers' verdicts or the clock.

Where a liveness property has an exception, the code has it: `RunSettles` is stated for runs
without faults that nobody edits, cancels or deletes, and whose last attempt did not count
more repairs than there may be (`Miscounted`), `JobsSettle` leaves out jobs whose last
delivery was lost, `ProbesConclude` probes whose caller left, `PagesSettle` trips that were
deleted elsewhere, `ApplyConcludes` requests that a fault ended. `ViewIsSaved` and
`AppliedAsSeen`, which are no liveness, leave out a page that missed where an item went
(`missed`, a history variable), and `HierarchyIsRooted` chains through a place of two
records (`mixed`, another); both are among the disagreements.

### Disagreements

What the models reach and the documents, comments, tests or labels of the
repository say otherwise. No run is spent on them; each follows from the actions
named.

- A lost job (decision 0002:12, "a committed trip or refresh request cannot lose
  its corresponding work item"): the run is committed before its job is enqueued
  (`jobs/src/itinerary-generation.ts:90`), so a crash in between leaves a queued run
  without a job, which blocks the next request (`RequestGeneration`, `ApiCrash`).
- A cancelled run comes back (0002:70, "record cancellation as terminal"): the
  failure of the attempt in flight puts it back to queued, with no job left
  (`CancelRun`, `FailRun`; `postgres-itinerary-generation.ts:539`). A timeout aborts
  through the same signal and is recorded as a cancellation (`TimeOut`, `Report`;
  `pg-boss.ts:360`).
- A succeeded job is executed again when its report was lost (0002:45, "Return the
  prior terminal result"): `Claim`, `BeginRefused`, and the job is dead-lettered
  (`pg-boss.ts:323`).
- Repairs are miscounted from the second on
  (`packages/ai/test/itinerary-generation.test.ts:276`, "stops after the configured repair
  bound"): `count(*)` is text and is concatenated (`postgres-itinerary-generation.ts:401`).
  The second repair, of one delivery or of two, counts as 11 where production allows two,
  the check of the table refuses it (`schema.ts:799`), the write throws, and after the last
  delivery the run stays active for ever, though nothing else went wrong (`NextRepair`,
  `Miscounted`).
- An accepted draft with more than fifty warnings throws after its attempt was
  recorded as accepted (`itinerary-generation.ts:723`; `ItineraryDrafts`).
- A user's edit while the draft of the last attempt is persisted leaves the run at
  `persisting` and the trip at `generating` for ever: the refusal of persistSuccess
  (`PublishRefused`; `itinerary-generation-service.ts:181`) reaches no finishFailure.
- One scrubbed dead letter makes every listing of dead letters throw
  (`pg-boss.ts:198` clears the error that `pg-boss.ts:433` requires). A job that is
  redriven while the account is scrubbed survives (0005:84, "cancel account-related
  jobs immediately"; `Redrive`, `ScrubRemove`), and a running handler writes its
  result into a scrubbed row (`Conclude`; `pg-boss.ts:345`).
- The account is provisioned again behind an open receipt (0005:169-170, "retries
  without recreating data"; `account-lifecycle-repository.ts:747`), and by a request
  that passed the tombstone check before (0005:165-166, "deny requests"; `app.ts:444`,
  an export at `account-lifecycle-repository.ts:624`).
- The late failure of an overlapping call reopens a completed receipt (`Mark` after
  another call's `Confirm`; `account-lifecycle-repository.ts:824`).
- An alternative overwrites an edit made while it is applied
  (`disruption-recommendation-repository.ts:376`, "The trip or live condition
  changed"): the place is checked before the revision is read (`disruptions.ts:113`).
- "The alternative was not applied" (`disruption-recommendations.tsx:126`) is shown
  for one that was, when a later write failed (`disruptions.ts:142`); a process that
  stops after `BeginApply` leaves the recommendation applying for ever.
- A half-open probe that is cancelled in its back-off reports nothing, and the
  circuit refuses every later request (`coordinator.ts:297`).
- An older reconciliation that finishes late overwrites what a newer one found:
  `checkedAt` is written and never compared (`live-condition-impact-repository.ts:258`).
- A record of a catalog may claim the key of another one among its `providerIds`
  (`destination-ingestion.ts:474-493`), and the two share a row from then on. An accepted
  catalog closes a ring of parents that way: a naming the key c, b under a, c under b;
  `schema.ts:189-192` stops a place that is its own parent only. One in which the child
  names the key of its parent is accepted once and refused by that check ever after
  (`Write`, `Ingest`).
- An editor, or a removal dialog, that is open over a reload keeps the day its item had.
  When the assistant (`assistant.ts:104-113`) or an API client moved the item to another
  day, the page looks for it in the old one (`itinerary-workspace.tsx:918`, 970-990,
  1001-1021), saves, says "Changes saved." and takes the new revision: it shows contents,
  or an item, that are no longer there, and its next change passes the revision check on
  a trip it did not see (`Elsewhere`, `SubmitEdit`, `Taken`), against "the latest saved
  itinerary has been reloaded".
- A download that crosses a sign-out is stored after the device was cleared
  (`browser.ts:181`), against "removes this account's offline downloads".
- A lost answer to the creation of a trip makes the planner create another one at
  the next try (`guided-trip-planner.tsx:346`). Stops that move while a review
  fetches their details get each other's (`crossed` in `GuidedPlanner`). The planner
  from a sentence stops polling, and says nothing, when a status has no run
  (`trip-planner.tsx:240`).

## 4. Proofs

A safety property is seldom inductive. Each proof module states a stronger
invariant, shows it for the initial states and for each action by itself, and
derives the properties the runs check.

`ItineraryGenerationProofs`, from `AttemptsAssumption`, `RepairsAssumption`,
`BoundsAssumption`, for any sets of runs and any bounds: `TypeCorrect`,
`ActiveRunDrivesTripHolds`, `JobSuccessMeansPublicationHolds`, `NoLostEditHolds`,
`SucceededIsFinalHolds`, `ImplementsContractHolds`. `IInv` is `TypeOK` with a ledger
part (reserved revisions are distinct and not ahead of the trip; at a reserved
revision the trip is the one the request was made for; at most one active run) and
an execution part (at the reserved revision the trip is the one the execution read;
only a publication lets an execution report success). `ActiveRunDrivesTrip` is not
inductive alone: a late failure is harmless only because no two runs reserve one
revision. In the refinement four kinds of steps show in the contract (edit, delete,
request, publish); all others stutter.

The same module proves the catalog, from `CatalogAssumption`, for any number of
keys and any records, and of `WorkSpec`, in which answers and drafts read while it changes:
`CatalogInductive`, `CatalogIsSoundHolds`, `ApprovalIsForItsTextHolds`, and
`ReviewedRowsStayHolds` (an ingestion never writes to a reviewed row; stated as an action
property in `DestinationCatalog`, proved only). What the rounds
of an ingestion place is a function defined by recursion over the rounds; that
it exists is proved by hand (`IteratesExist`, `UnfoldsExist`), since the library's theorem
takes an operator. A record is placed exactly when its chain of parents ends at the
top (`Placed` and `Sound` say the same), and a chain without repetition is no longer than
there are keys (`ChainsAreShort`), so as many rounds as keys are enough. A place that no
other record wrote hangs under the place of its record's parent, so a chain of places
follows a chain of records until it comes to the top, to a place of two records or to one
this ingestion left alone, which climbs as it did before; and it comes there within as
many steps as there are keys (`ChainsMeetSoon`). What an ingestion leaves is rooted but
for the places of two records (`IngestRooted`). That a key means a place
that is there (`IdentitiesLead`) is the rest of `CatalogIInv`.

And the drafts, from `DraftAssumption` (the value sets of the two schemas; "not given"
is none of the values), for any requests and any answers with any number of days and
items: `DraftsInductive`, `DraftsAreSoundHolds`. The check is one pass that carries what
it has met; the reference says of a draft as a whole what it must be. One lemma per
loop says what the pass has collected after `n` items (`ItemsAre`) and days (`DaysAre`)
and that it has found nothing that blocks exactly if each of them fits with those before
it (`FitsAfter`, `DaysFit`). "New when met" is "distinct" (`IdsDistinct`,
`DatesDistinct`, `PlacesDistinct`); that the pass compares an item only with the last
timed one is enough because that one ends last (`LastEndsLast`); and the two sums agree
when every cost is admitted (`ChargeIs`). `CheckIsFeasibility` joins them, `ValidateIs`
and `UnknownsOfDraft` add what is told, and `DraftIInv` says that the verdict at hand is
of the answer at hand.

And the evidence, from `AnswersAssumption` (the types of the options and of a request),
for any requests, budgets and numbers of candidates: `ReadsInductive`,
`EvidenceIsSoundHolds`. `ReadIInv` says that the rows of a read were approved with their
texts (approvals only grow, so a later rejection or ingestion cannot undo it), that a place
has one row, and that an answer is the one of just these rows; TLC checked it on the
instance of `catalog` before it was proved. The rest is about the operators of
`Grounding`. The comparison orders any two candidates in one way, since ids differ
(`BeforeOrders`), so each has a rank of its own and the ranking lists them all
(`RankedIs`). The two loops of the selection are recursive functions: what they yield is
found by induction along them (`RequiredIs`, `FillIs`): the first places hold the best of
required kinds, every such best is held or had no room, which stays so as the selection
grows (`NoRoomStays`), and unless it truncates the filled selection holds all that is
usable. The cut to the tokens keeps a prefix (`CutIs`): either it lies within the first
places, and all that is left is the best of a required kind, or it holds them all; this
is the disjunction of `RequiredKindsComeFirst` (`ContextIs`). A context calls itself
complete only without gaps, and no gap of a kind means that its best is fresh
(`NoGapIsFresh`).

`AccountDeletionProofs`, for any calls, requests, jobs and faults: `TypeCorrect`,
`Inductive`, `CompletedIsEarnedHolds`, `IdentityGoesLastHolds`. `IInv` says that what
the receipt and each call's copy of it record as done was done, that an answered
operation has been carried out, and that a call on a step is past the steps that
must not fail before it; the copies matter because a call decides on its own copy
while others rewrite the receipt. With the exports added, for any requests:
`ArchivesBelongHolds` (a stored archive belongs to the users row that is there) and
`ExportsEndWithAccountHolds`. A step of the deletion is taken as a whole, by what it
does to `account`: whatever ends the row ends its archives, and a row that is made
again finds none.

`SuggestedChangesProofs`, from `ImpactAssumption`, `NamesAssumption`,
`BoundsAssumption`, for any items, impacts (any number on one item), offers,
requests, edits and faults: `TypeCorrect`, `Inductive`, `OutcomeIsTrueHolds`,
`AppliedIsBackedHolds`, `ChangesWhatWasPreviewedHolds`, `OnlyAppliedReplacesHolds`,
`DecisionIsFinalHolds`. `IInv` ties three records together: where a request is
against the status of its action (`Stage`), the action against the trip of its
revision (`ActionSound`: the revision names one state, because every change bumps
it), and the recommendation against both (`RecommendationSound`); `Exclusive` says
that no two requests work on one action, which is what the row locks and the
statuses `confirmed` and `applying` are for.

`TripAccessProofs`, from `SharingAssumption`, for any links, requests and lifetimes:
`Inductive`, `LinksAreSoundHolds`, `LastRevocationHidesHolds`. The invariant says what
the row locks keep: who holds which lock (`Locks`), and that what a revocation read
of the other links stays true until it commits (`RevocationsAreRight`), because an
insert holds the trip for key share and a revocation for update. From
`OfflineAssumption`, for any tabs and changes: `OfflineInductive`,
`PackagesAreSoundHolds`, `PackagesAreCurrentHolds`, `SignOutClearsHolds`. Here the
invariant says that an answer names a package that is there (`RequestSound`), the
device holds one of those (`DeviceSound`), and that nothing is on its way to a device
that was cleared undisturbed (`Cleared`).

`JobRuntimeProofs`, from `AttemptsAssumption`, `FaultsAssumption`, `KeysAssumption`,
`NamesAssumption`, for any jobs, keys and calls: `Inductive`, `RowsAreSoundHolds`. The
queue job and its executions determine what the row may say (`JobSound`): an open row
has an execution that will write, a first delivery, or a retry that pg-boss has or
will have once it hears of this delivery (`Awaited`), unless the row was taken away or
a delivery lost; a settled row has no delivery to come (`Settled`). A call relies only
on what no step takes back (`CallSound`, `Advances`), which is why calls need no locks.

`TravelDataProofs`, from `PoliciesAreValid` and `NoneAssumption` (the
absent value is no time and no status), for any callers, inputs, fallback chain and
policy: `Inductive`, `FlightsAreSoundHolds`, `AnswersAreCurrentHolds` (an action
property). The invariant adds what a flight and a caller carry (`FlightSound`,
`CallerSound`): a result in hand is current when it is delivered, since time stands
still while it is on its way. That one probe is alone follows from the three ways a
flight may move a circuit: it keeps it, reports to it, or enters it (`AlonePreserved`).

The same module proves `LiveConditions`, from `LiveAssumption` (slots and items are
numbered, weather is severe at slots), for any items, jobs and forecasts: `LiveInductive`,
`ImpactsAreSoundHolds`, `LoneRefreshReplacesHolds`. `LiveIInv` says that a row, committed
or about to be, is what its forecast supports (`Rests`, `CarriesSound`), and that no two
transactions have written the same one (`Apart`, which is the row locks). A refresh that
ran alone leaves exactly what it found: what it has done so far is done for good
(`LoneInv`, `Done`), there is always a least key left to upsert (`LeastKey`, `NextKey`),
and the last statement resolves the rest.

`TripRepositoryProofs`, from `RowsAssumption`, `OffsetAssumption` (the offset exceeds the
number of rows) and `StartsAssumption` (a saved itinerary is of its types), for any stops,
days, items and calendar: `Inductive`, `ItineraryIsSoundHolds`, `OrderingNeverFailsHolds`,
`ImplementsListsHolds`. The invariant is the two properties themselves. A shift whose
targets are free meets no constraint (`ShiftSound`); each helper is two shifts, out by an
offset and back (`ShiftForInsertSound`, `CloseOrderGapSound`, `MoveOrderedRowSound`); each
operation inserts, removes, moves, transfers or replaces in lists, and leaves lists
(`InsertLists` ... `ReplaceLists`). That orders are `0 .. n - 1` for the number `n` that
`collectionCount` returns is a fact about cardinalities (`DenseListed`, `ListedCount`). For
the refinement the rows under a parent are read as a sequence (`RowsOf`, and `OneSeq`: only
one sequence has every row at its place), what a statement did to the orders becomes an
`InsertAt`, a `RemoveAt` or both (`OpenedSeq`, `ClosedSeq`, `ReorderedSeq`), and each
operation maps to one action of `OrderedLists` (`InsertStep` ... `TransferStep`).

`TripPagesProofs`, from the assumptions of `TripRepositoryProofs` and, for the planners,
`CalendarAssumption` (the first date of every sentence is a date) and `FormAssumption` (the
dates entered are dates, and "no row" is not a stop), for any rows, other tabs and tries:
`PagesInductive`, `ViewIsSavedHolds`, `AppliedAsSeenHolds` of the workspace,
`SentenceInductive`, `QueuedAsReviewedHolds` of the planner from a sentence,
`GuidedInductive`, `PlanIsSavedHolds` of the planner by hand. Whatever the workspace holds
(the page, a load or a reload on its way, the page before a change) is `Faithful`: a state
that the trip had, under the revision it had then, or one that misses what became of an item
and says so (`PageInv`, part of `PagesIInv`). It stays so because every operation of anyone
advances the revision by one or ends the trip, and because the page reckons as the
repository does: the rows before a place are as many as its order says (`RankOf`), so what
the page inserts, moves and removes is what the statements leave (`PageInserts`,
`PageMoves`, `PageRemoves`). An item that had left the day of the open dialog is the one
thing the page cannot follow: it is then in `missed`, and of what the page takes in all that
is shown is its revision (`ServePartly`), until the trip is read again.

Both planners rest on one fact: whoever else changes the trip
leaves another revision, or no trip (`Renews`, `BehindIs`), so a page behind the trip owes
nothing, and its next request is refused. The planner from a sentence counts its answers,
and under the revision it holds the trip has the reviewed dates and exactly the first
stops, as many as were counted (`HoldsFirst`, part of `SentenceIInv`): a lost answer leaves
the count and advances the revision, so a later stop never takes the place of one that was
added without its knowledge. A retry only queues, which is as much as reviewed because it
is offered only after a generation was queued. The planner by hand keeps five parts
(`GuidedParts`): what it knows is the trip's stops in order and the dates with a day
(`LinkOk`), every row in its form is a row it knows (`Entered`), a save under way works on
what the page shows and knows (`Saves`), and what it announced is so while the trip stays
(`ToldOk`). One lemma per request shows that what the page makes of an answer, an
`InsertAt` or `RemoveAt` on its own list, is what the repository's statements made of the
trip (`TripAnswers` ... `DayAnswers`, on `StopsAre` and `TakingIs`); the next request is
always the first thing missing (`NextCallIs`, by least numbers), so when none is left the
list is the trip's (`DoneHolds`). That a new day's position fits is counting: every date
before it has a day of its own (`DaysBefore`). TLC checked `GuidedParts` on the instance
of `pages` before it was proved.

Only model-checked: everything under fairness (liveness is beyond this prover:
`RunSettles`, `RetryCompletes`, `ApplyConcludes`, `JobsSettle`, `AsksAreAnswered`,
`ProbesConclude`, `PagesSettle`, `RequestsEnd`, `RefreshesEnd`). Every other property of
the runs is also a theorem.

## 5. Not modelled

- *Account deletion*: the expiry of tombstones and receipts, and the preview, which
  only reads. *Offline packages*: the fetch strategies of the service worker.
  *Catalog*: search and the pages of destinations. *Grounding*: the text of the context.
- *Rate limiting*: counters in one process that refuse requests; a refusal changes
  nothing else.
- *Seasonal insights*: the worker does not register the job, so it runs in tests
  only; the scoring is decimal arithmetic.
- *In-memory job runtime* (`memory.ts`): a test double.
- *Travel-data providers*: HTTP adapters and response parsing without state of
  their own; what they answer is a free choice in `TravelData`.
- *API request handling*: token verification, headers and the mapping of errors.
  *Worker process*: retention monitor and metrics. *Observability*, *shared UI*,
  *configuration*, *schemas*: no decision of the system depends on them beyond the
  value sets the modules take from them. The dashboard, the profile and the
  destination pages read, or make one call.
- *Release operations*: scripts of one sequential pass each.
