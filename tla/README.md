# Formal models of radar-puls-api

The repository is the backend of a traffic-report service: Android listeners
post Viber messages, a worker turns each message into a report, an enrichment
process completes the report with a type, a place and coordinates, and the api
shows reports on a map, takes votes and new reports from the public, lets
administrators correct and moderate them, and notifies subscribers. Everything
is kept in one Postgres database; there are no queues or locks besides its rows.

This directory holds TLA+ modules of that program, TLC configurations that
check small instances of them, and proofs that TLAPS checks.

## 1. The system

Processes (docker-compose.prod.yml): `api` (HTTP, WebSocket, push), `worker`
(`processing/worker.bootstrap.ts`), `enrichment` (`enrichment.bootstrap`), the
backfill CLI, and Postgres. The first three run the same code with the same
modules; each has its own memory and its own in-process event publisher.
Interaction between processes is only through rows.

| Component | State | Operations | Hard behaviour | What makes it correct |
|---|---|---|---|---|
| Ingest (`events/events.service.ts` 43-144) | `raw_events` | store one message, store a batch in a transaction | none beyond the transaction | a stored message is processed or failed in the end |
| Raw event queue (`processing/processing.service.ts`) | `raw_events` columns status, retry_count, next_retry_at, processing_started_at, processor_instance; per process: the claimed batch | claim, process, mark processed, retry or fail | several processes, leases, crashes between statements, stale decisions, lost replies | lifecycle of an event; retry budget; report before processed; nothing stuck |
| Parsing (`parsing/*`) | `parsed_events` | parseRawMessage, persistParsed | find and insert are two statements | one report per event; no worker parses over a report until one loses its lease |
| Backfill (`processing/backfill.service.ts`) | none | reparse processed events | second writer of parsed_events; takes web reports too, also while they are being filed | nobody who was told of a review is shown without one |
| Enrichment (`enrichment/enrichment.service.ts`) | `parsed_events.enrich_*`; per process: the selected batch | select pending, extract, geocode, write, announce, retry | rows selected without a claim, stale attempts, failure after success, slow AI calls next to admin edits | every report enriched or failed; an enriched report stays so; admin edits survive |
| Enrichment cache (`enrichment-cache.service.ts`) | `enrichment_cache` | find (counts a hit), upsert, verify, admin edit | shape of the driver's result; upserts over verified rows | verified content is what is served |
| Geocoding (`geocoding/geocoding.service.ts`) | `geocoding_cache`, `location_aliases` | fallback, alias, cache, Google, promotion, verification | a late answer against an admin's confirmation; verification by text and by id | what an administrator confirmed stays; Google is not asked past a row |
| Moderation (`admin/admin.service.ts`) | moderation_status, hidden_at, edit_source | update, confirm, approve, reject, restore, re-enrich, bulk | orders of legal calls; several statements without a transaction | what is shown is what was approved |
| Public reports and votes (`events.service.ts`, `map/*`) | `map_report_votes`, upvotes, downvotes; a raw and a parsed event per submission | submit, vote, list | a vote is three statements, a submission two with the backfill in between | the counters equal the votes; a submission awaits review |
| Realtime and push (`realtime`, `map/push-*`, `map/mobile-push*`) | subscriptions, tokens; in-process Subject | subscribe, unsubscribe, notify | a dead endpoint is disabled while its owner subscribes again; batches, deletions at once; publisher and subscriber in different processes | everyone subscribed is reached and nobody else; a live subscription stays, a dead one goes |
| Rate limits (`*-rate-limit.guard.ts`) | per-process table of clients | allow or refuse, prune, sweep | full table, restart | never more than the limit in a window; the table keeps nobody who has gone |
| Referrals, mobile users | users, codes, referrals | register, attach, profile (qualify and addPoints have no caller) | find-then-save races that only unique indexes catch; refused invitations are stored too | a code that was told works; an accepted invitation stands |
| Rewards, config, health, stats, well-known, auth | entities, constants | reads | none | not modelled |

The hazards of the code, each at its line and with the properties that cover
it, are listed in `PROJECT.json`.

## 2. Plan

| Step | Modules | State |
|---|---|---|
| the queue, and what it promises of an event | `EventLifecycle`, `RawEventQueue`, `RawEventQueueProofs` | checked, proved, refinement proved |
| enrichment with its cache, next to administrators and reparsing | `Enrichment`, `EnrichmentProofs`, `SinglePollerProofs` | checked, safety proved for any number of pollers or, where the code needs it, for one |
| moderation, votes, visibility, the log | `Moderation`, `ModerationProofs` | checked, safety proved |
| geocoding cache | `GeocodingCache`, `GeocodingCacheProofs` | checked, proved |
| who is told of a report | `Notifications`, `NotificationsProofs` | checked, safety proved |
| rate limits, and what they promise | `SlidingWindow`, `RateLimit`, `RateLimitProofs` | checked, proved, refinement proved |
| public requests of one api process | `PublicReports`, `Referrals`, composed with `RateLimit` in `MapApi`; `MapApiProofs` | checked, proved part by part and of the composition |
| open | the content of one report through queue, enrichment and moderation at once; the audit trail's old values; what voters saw before a promotion | not begun: `Enrichment` and `Moderation` abstract from each other what the other one has, and their product is too large for TLC |

## 3. Modules

### EventLifecycle

What the queue promises of each event, without workers and time. `Submit`,
`Begin`, `Finish`, `Reschedule`, `GiveUp` over the columns `processing_status`
and `retry_count`. `Settles` is its liveness promise.

### RawEventQueue

| TLA+ | code |
|---|---|
| `status`, `retries`, `retryAt`, `lease`, `owner`, `created` | columns of `raw_events`: processing_status, retry_count, next_retry_at, processing_started_at, processor_instance, created_at |
| `report` | the `parsed_events` row of the event: none, pending, no_match, or settled for enriched and failed alike |
| `pc`, `batch`, `cur`, `found`, `seen` | where `runSingleBatch` of a process is, and what it keeps in memory between two statements |
| `claimant`, `faults` | history variables |
| `Ingest` | `ingestViberEvent`, `ingestViberBatch` |
| `Claim` | `runSingleBatch` up to `claimBatch`, with the guard `cycleInProgress` (a process that is not idle does not claim) |
| `TakeEvent`, `EndCycle` | the loop over the claimed events and its end |
| `FindReport`, `WriteReport` | the two statements of `persistParsed` |
| `MarkProcessed` | the guarded UPDATE to processed in `processEvent` |
| `ReadRetryCount`, `WriteRetry` | the SELECT and the UPDATE of `markRetryOrFailed` |
| `StatementFails`, `Crash` | a statement of `processEvent` throws (applied or not); the process dies or `markRetryOrFailed` throws out of the loop |
| `RetryComesDue`, `OrphanExpires`, `LeaseRunsOut` | time passes |
| `Backfill` | `backfillProcessedEvents`: `persistParsed` over the report of a processed event |
| `ReEnrichReport` | `reEnrichEvent`, `reEnrichBatch`: a report is pending again |
| `EnrichReport` | an outcome that the enrichment process writes, by id alone: settled, or pending for a retry |

Time: a row's next_retry_at and processing_started_at matter only as "passed or
not", so each has three values and time is a step that moves one of them. Two
leases stamped by one claim may run out one after the other: more behaviours
than the clock allows, never fewer. A message is one of three kinds: readable,
noise (parsed as `no_match`), and the dev marker `[fail-processing]`.
`RETURNING` gives the claimed rows in no particular order, so the loop takes
them in any order. `FOR UPDATE SKIP LOCKED` makes concurrent claims disjoint,
which the atomic `Claim` expresses; a row locked by a settling statement is
skipped, which is the claim coming after that statement.

The `Instance` function gives each process its WORKER_INSTANCE_ID. Two
processes may share one: the README's `.env` sets `dev-worker-1` for whatever
is started from it, and a scaled or overlapping worker container inherits
`worker-1`. `DistinctInstances` says they do not.

### Enrichment

| TLA+ | code |
|---|---|
| `row` | columns of `parsed_events`: enrich_status, enrich_attempts, enrich_next_retry_at (`due`), parse_method, event_type and location (`content`: who produced them), enriched_at (`shown`), edit_source (`edited`) |
| `cache` | `enrichment_cache` by normalized_text: hit_count up to the 3 that matters, verified, content |
| `pc`, `batch`, `cur`, `ext` | where `pollAndEnrich` of a process is, the selected records it has not begun, the one in work, and its extraction |
| `edits` | `updateEvent` calls between their UPDATE of the report and their upsert of the cache |
| `failures`, `erred`, `announced`, `asked`, `approved`, `late`, `kept`, `faults`, `requests` | history variables and bounds; `failures` counts the attempts that ended in the catch, `erred` holds the reports at which the model or a statement failed |
| `Parse`, `Reparse` | `persistParsed` of the worker, and of the backfill or of a worker that lost its lease |
| `Submit` | `createPublicReport`: stored as enriched. Such a report never passes through the queue |
| `Poll` | `findPending`: a plain SELECT, nothing is claimed |
| `Take`, `EndCycle` | the loop over the selected records |
| `Lookup` | `findCached` and the choice between cache, keyword and model; a keyword whose type an administrator has made unknown goes to the model |
| `Extract`, `ExtractFails` | the call to the language model |
| `Save` | `upsertFromAI`, `upsertFromKeyword` |
| `Write` | the UPDATE to enriched, by id alone; without an event type it violates NOT NULL and goes on in the catch |
| `Announce` | `findVisibleReportById` and `publish` |
| `Fail` | the UPDATE of the catch: attempts of the selected record plus one |
| `StatementFails`, `Crash` | a statement throws (applied or not) and the attempt goes on in the catch; the process dies or the catch itself throws out of the loop |
| `ReEnrich` | `reEnrichEvent`, `reEnrichBatch` |
| `AdminEdit`, `AdminVerify`, `AdminEditBreaks` | `updateEvent`: its UPDATE, its `upsertFromAdmin`, its end between the two |
| `AdminCacheEdit`, `AdminCacheDelete` | the administration of the cache |

`PairResults` is the shape of what the database driver answers to an UPDATE
with RETURNING. The queue and the moderation code handle the pair
`[rows, count]` that the installed TypeORM gives; `findCached` is written, cast
and mocked in its tests as if it were the list of rows. `TRUE` is the program
as it runs, `FALSE` is what `findCached` assumes; both are checked, because
with `TRUE` no message with text ever reaches the model, which would hide all
other behaviour of the poller.

The order in which due rows are selected is left open (the code takes the
oldest), and so is the order within a batch: more behaviours than the code has.
Whether an enriched report is visible (approved, not hidden, not expired) is
left open too, so `Announce` may publish or not. Geocoding happens inside an
attempt and writes tables of its own; an error of it is an error of the
statement it precedes.

### Moderation

| TLA+ | code |
|---|---|
| `row` | columns of `parsed_events`: moderation_status, hidden_at (`hidden`), enriched_at (`shown`), expires_at (`expired`), upvotes, downvotes |
| `votes` | `map_report_votes`, with its UNIQUE key |
| `job` | requests of administrators: what a handler still has to do after the statement it has executed |
| `ballot` | calls of `voteForReport` |
| `unlogged` | changes of a report (by a batch apart) less its entries in `admin_activity_log` |
| `owed`, `banned`, `faults`, `requests` | history variables and bounds |
| `Active`, `Visible` | the WHERE clauses of the vote, and of the map and the statistics |
| `Publish` | `RealtimePublisher.publish` in the api process |
| `ParseNew`, `Submit`, `Reparse`, `Enrich`, `Expire` | what the worker, the public, the backfill, the enrichment process and the clock do to a row, as one step each |
| `Approve`, `Reject`, `Restore`, `ReEnrich`, `ReEnrichBatch` | the UPDATE of the handler of that name |
| `ReadFirst`, `WriteUpdate`, `WriteConfirmed` | the SELECT and the UPDATE of `updateEvent` and `confirmLocation` |
| `PublishChange`, `LogChange` | the event and the log entry of a handler, in the order of that handler |
| `CheckReport`, `StoreVote`, `CountVote`, `PublishVote` | the statements of `voteForReport` and its event |
| `RequestBreaks`, `CallBreaks` | a statement throws, a reply is lost, or the api process dies |

A removal is `owed` from the statement that takes a report off the map (a
rejection, a re-enrichment of that report, a vote) until `report_removed` is
published. Expiry, an edited expires_at, a reparse and a batch re-enrichment
take reports off the map too and publish no removal; the clients' documentation
does not promise one.

`PairResults` is the shape of the driver's answer as in `Enrichment`. The
handlers of the administrators unpack the pair; `voteForReport` does not.

### GeocodingCache

| TLA+ | code |
|---|---|
| `cache` | rows of `geocoding_cache`: normalized_text, is_partial, verified, and of the coordinates who gave them (`fix`) |
| `aliases` | `location_aliases`, by normalized_alias |
| `work` | what a poller does between two statements: looked for an alias, waits for Google, is to verify, has read the votes |
| `made`, `confirmed`, `answers` | history variables and the bound of rows |
| `FindAlias`, `FindCached` | `geocodeLocation` up to each of its lookups |
| `SaveAnswer` | `geocodeWithGoogle` with an answer, and `upsertCache` |
| `Then`, `MarkAsVerified` | the verification of confident extractions in `enrichEvent` |
| `ReadVotes`, `Promote` | `promoteVerifiedLocations`, at the end of a cycle |
| `BreakOff` | no answer, an error (which `geocodeWithGoogle` swallows), a crash |
| `ConfirmLocation`, `BulkConfirmLocation` | the upserts of the handlers of that name |
| `UpdateEntry`, `DeleteEntry`, `CreateAlias`, `DeleteAlias` | the administration of the two tables |

The upsert of a Google answer leaves verified as it is and replaces the
coordinates, so a verified row is safe only because nobody asks Google for a
text that has a row. `ConfirmedStays` states what follows from that; it leaves
out a confirmation made while a poller is waiting for Google on the same text,
where the code does let the answer replace the confirmed coordinates and keeps
calling them verified. Votes are not counted here: any unverified rows may be
the ones they favour.

### Notifications

| TLA+ | code |
|---|---|
| `sub`, `nextId` | rows of `map_push_subscriptions` (a browser) and `mobile_push_tokens` (a phone): id, enabled, zone; an address has at most one |
| `dead` | the addresses their push service has given up |
| `run` | one `notifyForReport` of either service: the process it is in, what it has read and not sent yet, what it waits to have disabled or deleted |
| `heard`, `due`, `known`, `tried`, `refused` | history: map clients told, addresses owed and known at the publication, sends, answers 410 |
| `Subscribe`, `Unsubscribe` | `subscribe`, `registerToken`, `unsubscribe`, `unregisterToken` |
| `Announce` | `publish` of new_report in a process, and the callbacks of the two services |
| `Find`, `Send`, `Disable` | the query, and one turn of the loop of web push with its catch |
| `Multicast`, `Delete`, `MulticastFails`, `DeleteFails` | a batch of phones, the deletions of its `Promise.all`, their errors |
| `Crash` | the process dies, also by an error of the query or of `update`, which nothing catches |

`KeysIn` says which process has the keys of which service, `GatewayOf` which
process a map client is connected to, and `Announcers` which processes publish
new_report. The order within a loop is left open. `Expire` is the push service
that gives an address up.

### SlidingWindow, RateLimit

`SlidingWindow` is a rate limit that forgets nothing: it serves a request
unless as many requests of that client as the limit were served in the window
before it. `RateLimit` is the code: `table` is `buckets`, `Admit` is
`canActivate` up to `return true` with its pruning and sweep (`Compact`),
`Refuse` is the 429, `Restart` the process that starts again, `Tick` the clock.
`canActivate` awaits nothing and is one step. `now` does not go back; the code
uses `Date.now()`, which an adjusted clock may set back. Stamps carry a number
so that two requests of one moment count twice. The three guards are the same
code with other constants: `Guards` names them, `Limit`, `Window` and
`MaxTracked` are their constants.

### PublicReports

`createPublicReport` from the captcha to its second INSERT, statement by
statement (`BeginSubmission`, `AssertHuman`, `StoreRaw`, `FileReport`), next to
`backfillProcessedEvents` (`ListProcessed`, `FindParsed`, `WriteParsed`), which
takes every processed event, and a submission's raw event is stored as
processed. `EnrichReparsed` and `Moderate` are what the enrichment process and
the administrators do to the row. `SubmissionFails` is a statement that throws
or whose reply is lost, `SubmissionsLost` and `ReplayDies` the two processes.

### Referrals

| TLA+ | code |
|---|---|
| `users`, `code`, `referral` | `mobile_users`, `referral_codes`, `referrals` |
| `call` | requests in hand, each with its next statement and what it has read |
| `told`, `attached` | history: codes given to users, invitations accepted |
| `FindDevice`, `SaveDevice` | `upsertDevice` of either registration |
| `Check`, `SaveReferral` | `attach` |
| `FindOwn`, `Draw`, `GiveUpDrawing`, `SaveCode` | `getProfile`, `getOrCreateCode` |
| `CallFails`, `CallsLost` | a statement throws, executed or not; the process dies |

The queries of `attach` are one step, `Check`: no row that they look for is
changed or deleted, so a user or a code that was found is there at the last
query too, and one that was missed when it was stored a moment later is the
request coming a moment earlier. The third query of `FraudCheckService` finds
nothing that the second one has not found. A failed `registerToken` in the
`Promise.all` of `registerMobileDevice` is a `SaveDevice` that fails.

### MapApi

The composition: `RateLimit`, `PublicReports` and `Referrals` in one api
process. Each public request is its guard and then its handler
(`CreatePublicReport`, `RegisterMobileDevice`, `OtherMapRequest`, `TooMany`);
those of `mobile-users` and `referrals` have no guard (`MobileRequest`). `Crash`
takes the tables of the guards and all requests in hand at once; rows stay.

Definitions under a comment "Mutated form" are wrong on purpose: each is a
plausible bug of the definition after it and shows that a property notices.
They are not part of the specification.

## 4. What is checked

| Run | Instance | Shows |
|---|---|---|
| `queue_safety` | 2 workers with own ids, 2 events, batch 2, 2 retries, 2 faults | all safety properties and the refinement of `EventLifecycle` |
| `queue_shared_name` | 2 processes with one id, 1 retry, 1 fault, fair | every event is settled without the owner guard too |
| `enrich_safety` | 1 poller, 2 reports with one text, one of them for the keyword path, 2 attempts, 1 fault, 2 requests | what administrators send to enrichment is served, what they edit and verify stays, the map and the announcements agree with the status |
| `enrich_two_pollers` | 2 pollers, 2 reports, one noise and one without text, the driver's pairs, 1 fault, 1 request, fair | every report settles, and is failed only after all its attempts, though two pollers work on one row and attempts fail |
| `enrich_no_error` | the driver's pairs, no faults | finding: a cache miss is a hit without content |
| `moderation_safety` | 1 report, 2 administrators, 2 calls of 2 voters, 3 requests, 1 fault; the rows `voteForReport` expects of the driver | visibility, removals, counters and the log under concurrent administration and votes |
| `moderation_approved` | 1 administrator, 2 requests | finding: an approved report stays hidden |
| `moderation_outvoted` | the driver's pairs, 2 voters | finding: no vote takes a report off in the clients |
| `notifications` | 2 browsers, 1 phone, 2 announcements, 2 subscriptions or cancellations, 1 fault, each service in a process of its own, fair | whom an announcement reaches, whom not, who is dropped; every announcement ends |
| `notifications_heard` | the processes and keys of docker-compose.prod.yml | finding: new_report reaches no map client |
| `map_api` | 2 addresses, limits 2 (map) and 1 (submission) in 2 moments of 3, tables of 1, 1 submission, 2 devices of which one is registered, 2 codes, 2 requests in hand, 3 requests, 1 fault | rate limits and their refinement, the review of submissions, codes and invitations |
| `geocoding_safety` | 2 texts, 2 pollers, 3 rows ever, with automatic verification | one row per text, confirmed coordinates, answers of Google |

Bounds. Two events and two workers are enough for a worker to lose one event of
its batch and keep the other, and for a second worker to reclaim, finish or
reschedule it meanwhile. Two retries let a stale count be behind by one and by
two. `MaxFaults` bounds crashes, failed statements and leases that run out
while their holder is still working; two of them allow a process to lose its
lease and the next one to crash. Backfill, administrators and enrichment write
the report of an event at any time and without bound (`OtherWriter`). The system may stop (all events settled), so
deadlock is not checked.

Two reports with one text let the first one fill the cache row the second one
hits, and let a re-enriched report be the second of a batch while the first is
in work. Two attempts are the least for a retry. `MaxRequests` bounds requests
of administrators and reparses together: two of them allow an edit and a
re-enrichment of the same report, or two re-enrichments. Hits are counted up to
3, the number at which an unverified row is served.

`enrich_safety` answers `findCached` as it expects, since with the driver's
pairs no message with text gets past the cache; `enrich_two_pollers` answers as
the driver does. `FailedSpentAttempts` says when a report is failed and not
why: an attempt that fails on the driver's pair is an attempt, and that it
fails without an error is what `NoFailureWithoutError` denies and
`enrich_no_error` finds.

`RequestServed`, `ShownIsEnriched`, `AnnouncedOnce` and `PollerLeavesSettled`
are stated for one poller (`Alone`), as deployed, and until a statement fails
(`Quiet`); `SinglePollerProofs` proves them under the same two conditions.
Without either condition the code breaks them: two pollers announce a report
twice, and a failure after the UPDATE to enriched (even of reading the report
for the announcement) sends an enriched report back to pending.

Every statement of the moderation module touches one report (the batch apart,
which does the same to each of its reports), so one report suffices. Two
administrators overlap two requests for it; three requests allow a rejection,
an edit begun before it and a restoration or a vote. Two calls of two addresses
and one address calling again are what the UNIQUE key is about. A vote of a
call that breaks off between `StoreVote` and `CountVote` is lost for ever, so
`VotesCounted` asks for equality only until a request has broken off.

Two texts let an entry be renamed to the text of another one; two pollers let
both miss a text and both store an answer; three rows let one text be deleted and
stored again while the other has its row. The number of hits and the two
coordinates themselves are left out: only who gave them is told apart.

Two browsers let one endpoint die while the other is sent to; batches of one
phone let a failed batch be followed by another; two announcements let the
answer to one meet what the other or a new subscription has done to the row.
Each service has its keys in one process, so that an announcement starts one
run: the two share no row.

Two addresses exceed a table of one and make it sweep; three moments are one
more than the window, so that times leave it. Three requests allow two
submissions or registrations and a third request that is refused, or a
submission, the backfill that overtakes it and a review; or two registrations
with a code and the profile that drew it. Two codes and two devices let two
users draw the same code, and let a user enter the own one. Addresses, codes
and requests in hand are interchangeable (symmetry).

Fairness (queue). The poll timer of a poller never stops (`startPolling`), so its claim
is weakly fair; a cycle that has begun goes on unless it fails; time passes.
Ingest, triggered batches and faults are not fair. A lease that runs out while
its holder works counts as a fault: with batches that always outlive the lease
the code really makes no progress, so liveness holds for finitely many of them.

Fairness (enrichment). `startPolling` sets an interval, so `Poll` is weakly
fair; a batch that has begun goes on (an HTTP call to the model returns or
times out), and the date of a retry passes. The model owes no answer:
`ExtractFails` may be taken every time. Requests and faults are not fair.

Fairness (notifications). The loops await one send after the other, and a push
service answers or the connection breaks, which is an error like any other; so
each step of a run is weakly fair. Subscribing, dying addresses and faults are
not fair.

Findings. `NoFailureWithoutError` is false: with the pair the driver returns,
`rows.length === 0` never holds, `rows[0]` has no columns, and the UPDATE with
an undefined event type violates NOT NULL, so every message with text fails
without any error of the model. That pair is the whole reason: where
`findCached` gets rows the property is proved (`FailureNeedsError`), and with
the pairs every other failed report has seen an error (`FailureIsExplained`).

`ApprovedIsShown` is false: `approveEvent` leaves hidden_at set after a
rejection, and `restoreEvent` then refuses the report because it is no longer
rejected. `OutvotedIsTold` is false with the driver's pairs: a row of an array
has no downvotes, so the event of every vote is a report_updated without an id. It is
proved where `voteForReport` gets rows (`OutvotedCorrect`); removals by
administrators are told with the pairs too (`AdminRemovalCorrect`).

`NewReportIsHeard` is false as deployed: the event is published on the Subject
of the enrichment process, and map clients are connected to the api. With the
keys where docker-compose.prod.yml puts them no push is sent either.

Three things hold only with the exception their property states. Until a fault
no worker parses over a report that is there (`WorkersParseOnce`); one that lost
its lease does, and backfill and administrators reset reports at any time, which
is what they are for. A poller (or a
reparse) does overwrite an administrator's edit made while an attempt was due or
under way (`EditStays`). A submission that the backfill overtakes between its
two INSERTs, or after the first of them failed, is shown as auto_approved
without review, and its sender gets an error (`ReviewedFirst`).

## 5. What is proved

`RawEventQueueProofs` proves, for every set of events and of workers, batch
size, retry budget and bound of faults, and from `QueueAssumption` alone:

- `TypeCorrect`, `FinalCorrect`, `ProcessedCorrect`, `HeldOnceCorrect`,
  `ParseOnceCorrect`, also under shared instance ids;
- `BudgetCorrect`, `DecisionCorrect`, `ClaimantCorrect` and the refinement
  `ImplementsLifecycle`, when instance ids are distinct.

Inductive invariants. `ReportInv` adds that a process about to mark has stored
the report. `BudgetInv` adds to the budget that a decision that will be applied
was taken on the current count; it is kept because a row that others touched
meanwhile has another owner (`OwnershipComesFromClaim`), which is where
distinct ids are needed. `QuietInv` says that without faults every event in a
process's memory is a row it owns within its lease, and that a report exists
only of a processed event or of one that is about to be marked.

`EnrichmentProofs` proves, for every set of reports, of texts and of pollers,
batch size, number of attempts and bound of faults and requests, and from
`EnrichmentAssumption` alone:

- `TypeCorrect`;
- `VerifiedHolds`, `EditsCorrect`, `FailedIsSpent` and `FailureIsExplained`, for
  either answer of the driver;
- `FailureNeedsError`, only where the driver answers as `findCached` assumes,
  which the installed one does not (`enrich_no_error` shows it false there).

Inductive invariants. `TypeInv` bounds the attempts of pending rows and of
records taken from them more sharply than `TypeOK` does, since a failed attempt
adds one. `ApprovalInv` adds to `VerifiedIsApproved` that no poller is
extracting the text: a poller that looks the row up after the approval is
served at once, so only an extraction that began before can overwrite it.
`FailedRows` and `FailingPollers` bound every attempts column, and every copy
of one in a poller's memory, by the failures there have been: a stale copy is
too small, never too large. `CaughtIsExplained` says of a poller in the catch
that its report has seen an error or was looked up in the driver's pair, and of
an extraction without an event type that it comes from such a pair. `KeptInv` adds to `EditStays` that such a report
neither waits for a poller nor is in one's hands; only a request or a reparse
makes it pending again, and that takes it out of `kept`.

`SinglePollerProofs` proves `RequestsCorrect`, `ShownCorrect`, `AnnouncedCorrect`
and `SettledCorrect` from `EnrichmentAssumption` and `Alone`, for the rest as
general as above. `Alone` is a hypothesis of these theorems and not an
assumption of the module, since the code does not enforce it: the deployment has
one container that enriches. All four follow from `PollerInv`. `OneRecordEach`
says that a poller has no report twice in its hands, so that writing one report
leaves nothing stale of it behind; it needs neither condition. `QuietInv` says
of every report that the poller has yet to write that it is still unsettled, off
the map, unannounced and not asked for anew, which is what makes UPDATEs by id
alone safe. Without the one condition another poller settles what this one has in
hand; without the other a statement fails after the UPDATE to enriched, and the
catch writes a settled report.

`ModerationProofs` proves, for any sets of reports, of voters and of concurrent
requests (the requests and the voters finite), any bounds of requests and of
faults and either answer of the driver, from `ModerationAssumption` alone:
`TypeCorrect`, `RejectedCorrect`, `LogCorrect`, `VotesCorrect` and
`AdminRemovalCorrect`; and where `voteForReport` gets rows, `RemovalCorrect` and
with it `OutvotedCorrect`.

Inductive invariants. `BannedHidden` says that a rejected report has its
hidden_at, which no statement but that of a restore clears; status would not do,
since `updateEvent` and `confirmLocation` write it whatever it is. `OneVote` is
the unique index over report and address; with it the votes of a report map
one to one to voters, which bounds the counters once they equal the votes.
`LogTellsTruth` and `VotesCounted` are inductive beside the types: the step that
changes a report is the one that makes its request owe an entry, and the call
that inserted a vote is the only one that counts it. `RemovalIsTold` is not:
that some request for the report is under way (`InFlight`) does not say that it
will publish a removal. `ToldInv` says so: a report owed to the clients is in
the hands of a request that has a removal yet to publish, or of a call that
counted the vote and will find enough downvotes, which later votes only add to.
With the driver's pairs such a call finds none, and the invariant then says only
that the report has been voted down.

`GeocodingCacheProofs` proves, for any texts, any finite set of pollers and any
number of rows, with automatic verification or without, and from
`GeocodingAssumption` alone: `TypeCorrect` (one row per text), `ConfirmedCorrect`
and `AskedCorrect`.

Inductive invariant. `NotAsked` says that nobody waits for Google on a confirmed
text; it is kept because a poller asks only for a text without a row, and a
confirmed text has one. `Budget` adds to the answers stored for a text the pollers
that still wait for one, which are other pollers; `Fresh` says that ids are not
given twice.

`NotificationsProofs` proves, for any finite sets of browsers and phones, any
processes, keys, batch size and bounds, from `NotificationsAssumption` alone:
`TypeCorrect`, `ReachedCorrect`, `SubscribersCorrect`, `LiveCorrect` and
`DeadCorrect`. The invariants say what each run has in hand: whoever is due and
not yet sent to is still in its list, whoever is in its list was known, and what
it is to drop was refused; an id belongs to one address and is never given
again, so that a late 410 cannot hit a subscription made anew.

`RateLimitProofs` proves, for any guards, any finite set of clients, limits,
windows and maxima, from `RateAssumption` alone: `WindowCorrect`,
`TableCorrect` and the refinement `ImplementsPromise`. The invariant says that a
table holds only requests that were served, and all of them that still count:
pruning and sweeping drop only what is out of the window, and (time does not go
back) for good.

`MapApiProofs` proves of the parts `ReviewedCorrect`, `ToldCorrect` and
`InvitationsCorrect`, for any numbers of submissions, users, codes and
concurrent requests, and of the composition `TypeCorrect` and `ApiCorrect`: a
step of the api is a step of each part or leaves it alone, so every property of
a part is one of the api, the refinement included. `Filed` says which statement
gave a row its status. `CodesUnique` and `Standing` are the unique indexes;
`Checked` says of a request between its checks and its INSERT that what it was
refused for still holds.

So every invariant and action property of a passing run is also a theorem. The
liveness properties (`EveryEventSettles`, `EveryReportSettles`, `RunsEnd`) are
model-checked only: they rest on fairness, hence on ENABLED, of which the prover
knows nothing.

## 6. Not modelled

Left out for good: rewards (entities without operations), `qualifyReferral`,
`addPoints` and `backfillByRawEventIds` (no caller), configuration, health,
stats, well-known files and token checks (stateless), the tables of keywords and
places, distances and zones beyond inside or outside, logging, formatting and
the texts of messages. The room of administrators, which gets every event a
second time, adds nothing to who hears what.

Left out for their size: one module of a report's content through all its
writers (section 2), and so the old values in the audit trail and what a voter
saw before a promotion by votes. Whether a report that enrichment announces has
hidden_at set is not in `Enrichment`, which has no rejections; `Moderation`
shows that such reports exist.
