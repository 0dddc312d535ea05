# TimeTiles in TLA+

TimeTiles imports spreadsheets and feeds into datasets of geocoded events. This
directory specifies the parts of it that are hardest to test: an import that
writes into a shared events table while workers crash, deliveries repeat and
locks time out; the pipeline of tasks, reviews and routes around it; the
schedules and scrapers that start imports, with their claims and reapers; and
the data exports and erasures of accounts. TLC checks the modules on small
instances; TLAPS proves every invariant and every action property of the passing
runs, and that event creation implements an abstract atomic import, for every
value of the constants that satisfies the assumptions section 5 names.

All source paths below are relative to `src/apps/web/`.

## 1. Inventory

TimeTiles is one Next.js application (Payload CMS) over PostgreSQL. Background
work runs in Payload's job queue: rows of `payload-jobs`, polled by a cron
(`autoRun`) in the web process or in separate workers, several at a time.
Delivery is at least once; a workflow with a concurrency key runs one at a time
per key. State is shared through the database, plus per-job files on disk.

| Component | State it keeps | Operations | Talks to |
|---|---|---|---|
| Event creation, `lib/jobs/handlers/create-events-batch*` | events, sidecar file of snapshots, `ingest_jobs.stage`, local reservation | one task, its catch/finally, `onFail`, `onSuccess` | lease, quotas, bulk insert |
| Dataset import lease, `lib/database/dataset-import-lock.ts` | a session advisory lock per dataset | acquire (poll until a deadline), release | event creation |
| Quotas, `lib/services/quota-service.ts` | `user_usage` counters, lifetime and daily | check-and-increment, decrement, daily reset | every import, geocoding, URL fetch |
| Ingest pipeline, `lib/jobs/workflows/*`, six task handlers | stage, reviewReason, schemaValidation, reviewChecks of each job | process-sheets, ingest-process, the tasks, the review gates | routes, event creation |
| Ingest job routes and file status, `app/api/ingest-jobs/[id]/*`, `lib/ingest/ingest-file-status.ts`, `lib/collections/ingest-jobs/hooks.ts` | stage, queue rows, file status | approve (with its hook), retry, reset, derive the status | pipeline |
| Scheduled ingest, `lib/ingest/trigger-service.ts`, `scheduled-ingest.ts`, `schedule-manager-job.ts`, `cleanup-stuck-scheduled-ingests-job.ts` | lastStatus, lastRun, nextRun, currentRetries | tick, webhook, manual trigger, workflow, reaper | URL fetch, pipeline |
| URL fetch and cache, `url-fetch-job*`, `lib/services/cache` | cache entries, ETags | fetch, conditional request, eviction | scheduled ingest |
| Schema versions, `lib/ingest/schema-versioning.ts`, `schema-maintenance-job.ts` | version rows of a dataset | create, merge, refresh | pipeline |
| Dataset detection, upload | ingest file, ingest jobs | detect sheets, create jobs | pipeline |
| Geocoding, `lib/services/geocoding*` | provider slots, backoff | wait for slot, report success or throttle | geocode-batch |
| Rate limiting, `lib/services/rate-limit*` | windowed counters | check and increment, block | routes |
| Scrapers, `scraper-execution-job.ts`, reaper | scraper status, run rows | claim, run, finish, reap | runner container, pipeline |
| Account deletion, `lib/account/deletion-service.ts` | pending deletions | schedule, cancel, execute | catalogs, imports |
| Data export, `data-export-job.ts` | export records, archives | build, notify, clean up | email |
| Interpretation, previews, progress, access control, audit, email, frontend | see `PROJECT.json` | | |

What makes each of them correct, and what is hard about it:

* **Event creation.** An import is all or nothing although the database
  transaction covers one sub-batch of inserts only. Committed events are never
  lost; what a failed import wrote goes away, overwritten originals come back;
  at most one import of a dataset is between cleanup and release. Hard: crashes
  between the snapshot append and the overwrite, torn lines, redeliveries of
  completed jobs, rollbacks from three places (attempt start, catch, onFail).
* **Quotas.** TOTAL_EVENTS equals the events that exist and never passes the
  limit. Hard: reserve, reconcile and refund are three steps around a failure.
* **Pipeline, reviews and routes.** A pause ends by the user's answer, by an error
  of the task that asked for it or by the reaper, and by no retry, reset or other
  task; nothing passes create-schema-version on an unapproved schema; no job is left
  in a stage that no run, queue row or route will move, unless an admin reset it
  there; the file's status is that of its sheets. (That every pause can be answered
  is not so, see section 4.) Hard: sheets run in parallel, a task throws after it
  has written its result, routes check and write in several statements, a queue call
  fails after the write it belongs to.
* **Scheduled ingest, scrapers.** A record says `running` while a run waits or
  works, and not for ever; retries are bounded; the reaper does not fail a run
  that is done. Hard: claim, revert, reap and the outcome's write race, and most
  of them use a copy of the record read earlier.
* **Account deletion, export.** An admin remains; one export of a user at a time;
  a record and its archive agree. Hard: checks outside the transaction they
  guard, and two stores of which only one rolls back.
* **Geocoding, rate limits.** A late success that clears a throttle; a window
  boundary. Neither loses data.

`PROJECT.json` lists the hazards that matter most, each at its line.

## 2. Modules

| Module | What it is |
|---|---|
| `AtomicImport` | Abstract: a dataset's content changes only when a job commits, by rows of that job; nothing is ever removed. |
| `EventImport` | Event creation with lease, cleanup, quota, commit, rollback, delivery and the routes as far as they touch it. Implements `AtomicImport`. |
| `IngestReview` | The six tasks of every sheet, reviews, resume workflow, approve/retry/reset routes, file status. |
| `ScheduledIngest` | One scheduled ingest: webhook calls, manual triggers and the scheduler claim and queue; the workflow; the reaper. |
| `ScraperRun` | One scraper: triggers and scheduler, the execution task with the owner's daily quota and its run rows, deletion, the reaper. |
| `AccountErasure` | Exports (request, job, download, clean-up, reaper) and the scheduling, cancelling and execution of account deletions. |
| `EventImport_proofs` | Theorems: types, lease, limit, committed events. |
| `EventImport_refinement` | Extends it: cleanups, failed imports, and the implementation of `AtomicImport`. |
| `EventImport_quota` | Extends that: the counter is exactly the events there are. |
| `IngestReview_proofs`, `ScheduledIngest_proofs`, `ScraperRun_proofs`, `AccountErasure_proofs` | The theorems of each. |
| `MC*` | The instances TLC checks. |

How they meet in the system: `ScheduledIngest.ProcessSheets` and
`ScraperRun.ImportEnds` stand for the whole of `IngestReview`, whose
`CreateEvents` stands for the whole of `EventImport`. In each case the outer
module keeps of the inner one what it can observe: that it ends, and how. That
the inner one ends is what `StageSettles` and `ImportSettles` check; that it is
atomic is `AllOrNothing`.

In every module a step is what the code does between two awaits whose outcome
someone else can see: one statement or transaction, one append to or removal of a
file, one call of the queue. `Faults` chooses what may go wrong.

### EventImport

One worker (`pc`, `task`, `loc`) is one delivery of a job. `loc` holds the
handler's local variables, so a crash, which drops it and keeps the tables, is
`Finish` plus the loss of the lease. A delivery goes

    acquire -> guard -> begin -> restore -> delete -> reserve -> stream
            -> complete -> finalize -> discard -> release -> returned

and from any of the middle steps, on an error, through `EnterCatch` to
`restore -> delete -> refund -> release -> threw`; from there to a retry
(`TaskRetry`), to `MarkSheetFailed` (the sheet workflow catches errors itself) or
to `OnFail`, which takes the lease again for a cleanup of its own. The routes
`RetryRoute`, `ResetRoute` and `ApproveRowErrors` close the loop.

Abstractions. An event is its uniqueId with a row id; its content is the job
that last wrote it (`owner`, the column `ingestJob`) and `born`, the job that
inserted it, stands for `created_at`: the delete filter compares it with the
job's own creation, and only `Seed` events are older than the jobs. Rows are
the usable, internally unique ones. Versions, progress counters and result
fields are left out. The chunked delete is one step: a prefix of it followed by
an error is retried by the next cleanup and nobody can act on the rest, which
carries the job's own id. One owner holds all jobs; unlimited quotas are left
out.

### IngestReview

Per job: the columns `stage`, `reviewReason` (`reason`), `schemaValidation`
(`requires`, `approved`), `datasetSchemaVersion` (`linked`), `reviewChecks`
(`skip`); the run (`step`, `resumed`, `retried`), the queue rows of ingest-process
(`queue`, with their resume points), the local variables of routes (`claimed`,
`reset`) and of the status derivation (`view`), and one history variable: `via`,
the reset target the job was last queued by. A sheet's data is the set of review
gates it trips (`Trips`); the gates of a task fire in the order of the code, the
first one that is not skipped. `CreateEvents` is the one step `EventImport` details.

A run goes

    analyze -> detect -> validate -> compare -> complete -> version -> geocode -> events

where validate-schema takes three steps: it looks for another job in review
(`GuardReview`), writes the result or the review (`CompareSchemas`), marks its
progress complete and returns (`FinishValidation`). The third is a statement of its
own that may throw (fault `late`) after the review was written: the sheet workflow
then marks the sheet FAILED with an approval due that nobody gave, ingest-process
first runs the task once more out of the review (`RetryValidation`). In every other
task the review is the last write, so its errors come before it. `TaskFails` stands
for all errors that are final, the file that is too large for the analysis included.
Two details of an error are left out: in strict mode FAILED is written before the
task throws, not after, and the second attempt then starts from FAILED; and the
failing progress write may have written a copy of the progress, which no guard reads.

`ReapJob` is the part of the schedule's reaper that fails the jobs of an unfinished
file, one by one, and the file with its last one: jobs in review too, but none that
something moves on. Routes are split at their awaits: the retry claims with one
compare-and-set and then queues; the reset checks, writes and queues. The approval
hook runs in one transaction and is one action. The fault `race` lets a retry in
between a reset's check and its queue call, the user answer before the run that
asked has ended, and the reaper take a job that something moves on; nothing in the
code keeps these out, and section 4 says what they do. Also with `race` a job has
one run at a time. Crashes of the web process or of a worker are not part of this
module; they are of `EventImport`.

### ScheduledIngest

The record is `status` (`lastStatus`), `lastRun`, `retries` (`currentRetries`),
`enabled`, `nextRun`; beside it the queue rows of the workflow (`job`, `created`),
the files the runs made, in the order of their creation (`file`, `files`), and
the handlers in progress. A webhook call claims with one compare-and-set
(`HookClaim`) and then re-asserts running without a condition (`HookAssert`); a
user's call only claims by compare-and-set (`UserClaim`); both keep the copy of
the record they read, which `RevertTriggerClaim` writes back when the queue call
fails. The scheduler lists, claims, queues and on an error writes `failed`
(`HandleImportError`). A run fetches (`FetchThrows`, with the task's retries and
`RecordOutcome` of the last), processes its sheets, judges the file and writes
the outcome (`Conclude`), where five failed attempts in a row are one lost
write. The reaper lists what looks stuck, asks for an active job, reconstructs
the outcome from the newest file, cancels, fails and releases, one step each.

Time is counted in hours and stands still unless it matters. A time stamp is the
hour and how many files existed, which orders events within an hour without a
finer clock. The source's contents, ETags and the cache are left out: a fetch
finds nothing new or creates a file.

### ScraperRun

Per scraper `status` (`lastRunStatus`), `lastRun`, `nextRun`, `enabled` and
`alive` (the row exists); per run its `scraper-runs` row and its queue row; the
owner's counter `used`. The task of a run goes

    check -> row -> mark -> call -> saveRow -> finish -> (import)

and after an error through `failRow`, `failedRow`, `failedScraper`, `release` and
`refund`, as the nested catch blocks of `scraper-execution-job.ts` have it. A
finish-write that fails after the row says `success` rewrites the row to `failed`
although its file is imported; that is what the code does. `forced` records that
the reaper, six thresholds after the claim, released it although the cleanup of its
jobs and rows failed; a scraper with an active job is never released. `Delete` is the
owner's delete, refused while a claim younger than the threshold says `running`; `EraseAccount` is the
erasure of the owner's account, which takes the claim back and deletes the scraper
in one transaction, in the middle of a run too.
The fault `overlap` lets a run start, or a trigger claim, while a pass of the
reaper is between its statements.
Runner, container and output file are one call with three results.

### AccountErasure

Per export `status`, `path` (`filePath`), `disk`, `age` of the request, `lapsed`
(`expiresAt`) and its job; per user `account` (`deletionStatus`), `due`, a route in
progress (`asking`). Downloads, the clean-up's four passes over lists they read
first (`expire`, `unlink`, `purge`, `reap`) and the nightly erasures (`next`,
`collect`, `commit`, `unlink`) interleave. An erasure's transaction is one step
that commits or not; its unlinks follow. Active imports, which also keep an
account from being deleted, are a nondeterministic refusal. Sessions, the system
user, the transfer of public data and emails are left out.

## 3. Runs

Every property of a passing run has a mutant of the code in `PROJECT.json`, an
operator named in the module, that violates it under the same run. A run takes
between a few seconds and three minutes with two workers.

| Run | Instance | Shows |
|---|---|---|
| `EventImportRetries` | 1 update job, 2 rows, one of them a seed event, 3 deliveries, nine kinds of fault including crash, failing restore and redelivery of a completed job; 180 000 states | type correctness, `CommittedEventsKept`, and `AllOrNothing`: every path through retries and rollbacks is a commit of `AtomicImport` or invisible |
| `EventImportConcurrent` | 2 update jobs on one dataset, a row each and one in common, 2 workers, 2 deliveries each, errors anywhere; 708 000 states | the lease makes `AllOrNothing` hold for overlapping imports; `FailedLeavesNothing`; `QuotaSettled` at a limit that both together can exceed |
| `EventImportCrash` | an update and a skip job that write the same row, crashes, torn lines, failing restore and cleanup; 1.2 million states | `CleanupDeletesOwnInserts`: a cleanup never deletes the other import's event |
| `EventImportLease` | the same two jobs, double deliveries, failing lock queries and guards, redelivery after review, fairness; 184 000 states | `Serialised`, `LeaseFreed`, `ImportSettles` |
| `IngestReviewReset` | 2 sheets, one with a changed schema, one with a review in each other task; errors in any task and after validate-schema's result, failing queue calls, the reaper, a retry or a reset to one of three stages per sheet; fairness; 626 000 states | `NoStrandedJob`, `NoUnapprovedSchema`, `CompletedFileIsComplete`, `ReviewNotBypassed`, `StageSettles` |
| `ScheduledIngest` | a webhook call, a user's call, the scheduler, 2 runs, the reaper, 2 of eight kinds of fault; fairness | `LiveRunHeld`, `OneLiveRun`, `FinishedRunsSpared`, `ClaimsAreReleased`, `DisabledOnlyAfterFailures` |
| `ScraperRun` | a caller, the scheduler, 2 runs at a quota of 1, deletion by the owner and by the erasure of the account, the reaper, 2 of twelve kinds of fault; fairness; 370 000 states | `PendingRunHeld`, `NoStrandedRow`, `QuotaSettled`, `DeleteSparesRuns`, `ClaimsAreReleased`, `RunsEnd` |
| `AccountErasure` | 2 users, both admins, an export of one of them, 2 of eight kinds of fault; 1.4 million states | `AdminRemains`, `ReadyHasArchive` |
| `DataExport` | 2 exports of one user who stays, downloads and clean-up, 2 faults; fairness | `OneActiveExport`, `ArchiveReachable`, `ExportsSettle`, `ArchivesRetired` |
| `OnFailUndoesCompleted`, `TopUpBeyondLimit`, `ErasedArchive` | | violations, section 4 |

Bounds. `MaxTries` deliveries per job (two are enough for every cleanup to meet
the remains of an earlier delivery, three for the cleanup of a cleanup),
`MaxCalls` retry and reset calls per job (one in the run, with fairness and two
sheets; the inductive invariants of the proofs were also checked with one sheet, four
calls and all five reset targets), two workers (the lease is
between two), two or three rows (one per role: only one job's, shared, already
there). In `ScheduledIngest` and `ScraperRun`, `MaxRuns` = 2 is a run and the one
beside or after it, and a queue call fails when none is left; `Horizon` keeps
claims early enough for the clock, which stops at `MaxTime`, to pass the stuck
threshold after each of them; with the clock at its end the reaper repeats.
`ForceAfter` shortens the factor 6 of the forced release. `MaxFaults` = 2 allows a
fault and one in its recovery. Deadlock is not checked, since a system whose jobs
have settled and whose tries are used up stops.

Fairness. The event loop runs every continuation, so each handler in progress has
weak fairness (in `IngestReview` once per job, over its run, its resumes, its routes
and its status update: `Moves`); so have the periodic jobs (`SchedStep`, `ReapList`, `Cleanup`,
`Erasures`), which the cron starts, and the delivery of waiting jobs, which it
polls for. `EventImport` adds the lease poll, which ends after `maxWaitMs`. Time
passes (`Tick`, `GrowStale`, `GrowOld`); `ScraperRun` asks for strong fairness of
`Tick`, since a request or a pass of the reaper disables it for a moment, again and
again. No user is obliged to approve, retry, reset, download, trigger
or cancel: `StageSettles` and `ImportSettles` end in a stage the user sees. Two
faults are left out of `EventImportLease` because the code gives no guarantee
under them: a crash of the last delivery, and a failing write of FAILED
(`lib/jobs/workflows/process-sheets.ts:51` is best effort); both leave the job to
the reaper of the schedule, if it has one. Likewise nothing recovers a retry
route that dies between its claim and its queue call.

## 4. Disagreements between code and comments

Three runs check what a comment states and TLC refutes it; `PROJECT.json` quotes
the lines.

| Run | Refuted |
|---|---|
| `OnFailUndoesCompleted` | the completed check protects committed events from a redelivery: not in onFail, when the redelivery never gets the lease |
| `TopUpBeyondLimit` | what an import created beyond its reservation is charged even when usage crosses the limit: it is dropped |
| `ErasedArchive` | the erasure removes a user's export archives: not the one whose job is still writing it |

Others show with a small change to a passing run's configuration, a fault added
to `Faults` unless something else is said, or are visible in a definition.

Event creation:

* `guardFail` in `EventImportRetries`: the lease counts as held before the
  completed check, so a failing read of the stage rolls a completed job back
  (`lib/jobs/handlers/create-events-batch-job.ts:349`); `AllOrNothing` and
  `CommittedEventsKept` fail.
* `redeliver` in `EventImportConcurrent`: it takes no failing lock query for
  `OnFailUndoesCompleted`. A redelivered completed import that waits for the lease
  behind the other import until `maxWaitMs` ends in the same `onFail`, and so do
  `double` and `redeliverReview`; `CommittedEventsKept`, `AllOrNothing`,
  `QuotaSettled` and `CleanupDeletesOwnInserts` fail with each of the three.
* `crash` in `EventImportConcurrent`: the reservation of a crashed delivery is
  never given back (`create-events-batch/job-completion.ts:215`); `QuotaSettled`
  fails. `FailedLeavesNothing` fails too: a delivery after a crash that waits for
  the lease in vain leaves the crashed one's writes
  (`create-events-batch-job.ts:462`, where the comment says there is nothing to
  roll back).
* `redeliverReview` in `EventImportCrash`, with two keys and `MaxTries = 3`: an
  import in review has discarded its snapshots, so a redelivery's cleanup takes
  an event of another import, updated by this one, for an insert of its own.
* Two updating jobs in `EventImportCrash` (`UpdateJobs = {a, b}`, three deliveries,
  `throw` and `crash`): a delivery snapshots a row that a crashed delivery of the
  other job had taken over and not committed. Restoring that snapshot later gives
  the event back to a job whose own snapshots are gone, and the next cleanup of
  that job deletes it although it did not insert it
  (`create-events-batch/job-completion.ts:241`, `CleanupDeletesOwnInserts`, 51
  steps). One updating job among any others is safe, and so is any number of them
  if cleanups are finished: `CleanupKept` proves both.
* "imports are processed one-at-a-time per dataset ... with no concurrent import
  to interfere": the duplicate analysis runs before the lease
  (`create-events-batch-job.ts:341`); a row it skipped because of an event another
  import then rolls back is silently lost. What the import does write is still
  all or nothing.
* `TopUpBeyondLimit`: an attempt that crashes after an overwrite, whose original
  cannot be restored, leaves an event that the next attempt overwrites without
  having planned it; at the owner's limit `checkAndIncrementUsage` refuses the
  difference, `reconcileReservedEventQuota` ignores the answer, and the counter stays
  below the events there are. The comment has usage exceed the cap in this case
  (`create-events-batch/job-completion.ts:64`). `UsageBounded` proves that the counter
  never passes the limit, which is so because of it.

Pipeline and reviews:

* `approved` is never cleared, so a second pause for the same schema cannot be
  approved (`lib/collections/ingest-jobs/hooks.ts:71`), where
  `approve/route.ts:7` says it works for all reasons. Only the reaper takes such a
  job out of its review.
* An error after the pause was written (`validate-schema/validation-persistence.ts:96`
  and 179) leaves a job FAILED that owes an approval, with no review to answer. A
  retry validates it again. An admin's reset to geocode-batch resumes at
  create-schema-version, which stops it there: a stage with no route, out of which
  only the reaper of a schedule moves it (`Parked`). A reset to create-events imports
  it, since that task does not ask; the reset route says of itself that it "bypasses
  normal stage transition rules" (`app/api/ingest-jobs/[id]/reset/route.ts:4`).
* A reset to geocode-batch of a job that an earlier pass linked to a schema version
  does not ask for the approval either: create-schema-version looks for the version
  first. Its comment (`create-schema-version-job.ts:134`) is about just such a reset
  and says that the pipeline stops. `NoUnapprovedSchema` excepts this, and a reset to
  create-events.
* `reviewReason` outlives its review. A job that waits for high-row-errors, is failed
  by the reaper and then retried into a review of its schema is completed by the
  approval of the schema, with nothing imported by that retry (`hooks.ts:278`).
* The check for another review of the file and the own pause are two statements
  (`validate-schema/validation-persistence.ts:127`): of two sheets that validate
  together one goes on, which the comment at line 120 excludes.
* Approving the order of the start dates silences the question about the end
  dates, by the same skip flag (`hooks.ts:202`,
  `lib/jobs/workflows/review-checks.ts:383`).
* `race` in `IngestReviewReset`: the reaper fails a job whose task runs, an admin
  resets it, the task pauses for review, and the reset's unconditional write takes it
  out of the review (`ReviewNotBypassed`;
  `app/api/ingest-jobs/[id]/reset/route.ts:64`, `:75`). So does a retry between a
  reset's check and its write, with two calls per job: both queue a resume, one of
  them pauses and the other runs past it. `NoUnapprovedSchema` fails with two calls
  as well: of two resumes that wait, `via` names the later one only, and the earlier
  one may be the reset to create-events. `NoStrandedJob` holds with `race`, which
  `JobsReachable` proves.
* `updateIngestFileStatusById` reads the stages and writes the status in two
  statements; an update computed before the last approval can overwrite the
  newer one and leave the file "processing". `CompletedFileIsComplete` holds
  regardless.

Schedules:

* `LiveRunHeld` fails under each of `overlap`, `longRun`, `staleDisable`, `claimFail`. The
  webhook's claim does not stamp `lastRun` (`lib/services/webhook-registry.ts:237`),
  so a reaper's pass takes it for a stuck one; a run that outlasts the threshold in
  the queue, where the reaper's check for an active job does not see it, loses its
  claim while alive; the scheduler's error paths write `failed`
  without a condition, over a run that another trigger queued.
* The reaper fails every unfinished file of the schedule
  (`lib/jobs/handlers/cleanup-stuck-scheduled-ingests-job.ts:48`), files of earlier
  runs that wait for a review included, where the comment at line 38 speaks of
  the abandoned run's. `FinishedRunsSpared` is about the latest run; `ReapJob` of
  `IngestReview` is what befalls the others.
* A schedule that is enabled again keeps `currentRetries`, so one failure turns it
  off. `DisabledOnlyAfterFailures` counts failures since the beginning.

Scrapers:

* `advanceFail`: the queue call succeeded and the write of `nextRunAt` throws; the
  catch writes `failed` over the queued run
  (`lib/jobs/handlers/schedule-manager/scraper-scheduling.ts:134`) and
  `PendingRunHeld` fails.
* `overlap` and `window`: the reaper's check for an active job and its write of
  the status are separate statements and the write has no condition
  (`lib/jobs/handlers/cleanup-stuck-scrapers-job.ts:114`). A run that starts in
  between, or a trigger that claims the scraper after the pass's run has let it
  go, loses its claim while it works: `PendingRunHeld`, `NoStrandedRow` and
  `DeleteSparesRuns` fail. A forced release leaves behind the waiting job or the row
  whose cleanup failed, on purpose (`cleanup-stuck-scrapers-job.ts:118`), so all three
  except it.
* The erasure of an account deletes its scrapers in the middle of a run, on purpose
  (`lib/account/deletion-service.ts:566`, `lib/collections/scrapers/hooks.ts:188`): it
  takes the claim back first, so that a stuck scraper does not hold the erasure up.
  `EraseAccount` models it, and `DeleteSparesRuns` says that rows of an executing run
  go in this way only.
* `rowFail`: a row whose failure cannot be written stays `running` after the
  scraper has left it (`NoStrandedRow`), which
  `cleanup-stuck-scrapers-job.ts:111` rules out.
* A killed worker leaves `processing = true` on its queue row, and nothing resets
  it: `hasActivePayloadJob` (`lib/services/payload-job-queries.ts:54`) takes it for
  active for ever, and the reaper goes on to the next scraper
  (`cleanup-stuck-scrapers-job.ts:196`) before it comes to the forced release.
  Only a delete of the scraper ends such a claim. The comment at
  `cleanup-stuck-scrapers-job.ts:40` and the tests assume that the flag is reset.
  `ClaimsAreReleased` and `RunsEnd` except killed workers.
* The daily reset wipes what was used since midnight, and a refund after it
  reduces the next day's counter (`lib/services/quota-service.ts:604`): a user can
  have nearly twice the daily limit around the reset. `QuotaSettled` is about
  one day.

Exports and accounts:

* `backlog`: a job that starts after its export was reaped makes it `processing`
  again, beside the newer one (`OneActiveExport`;
  `app/api/data-exports/request/route.ts:37`).
* `statFail`: a download whose `stat` fails for any reason drops `filePath`, as if
  the file were gone (`app/api/data-exports/[id]/download/route.ts:73`);
  `ArchiveReachable` fails.
* `slowCancel`: a cancel's unconditional write after the erasure's commit marks the
  erased account active, so it counts as an admin and the last one left can be
  erased (`lib/account/deletion-service.ts:306`); `AdminRemains` fails.
* A cancel that is accepted after the nightly job listed the account does not
  stop it: `executeDeletion` does not look at the status again.
* An archive whose record was never made ready (a failing write, a dead worker),
  and archives whose unlink fails after the erasure, stay on disk with no record
  of them (`lib/export/archive.ts:136`). `ArchiveReachable` is about archives that
  were ready and owners who still exist.

ADR 0041 puts recovery from a crash of one import that another import of the
dataset overtakes out of scope. `AllOrNothing` is therefore checked, and proved,
with crashes for jobs that share no row and without them for jobs that do;
`FailedLeavesNothing` and `QuotaSettled` without them.

## 5. Theorems

Each holds for any number of jobs, workers, datasets, rows, sheets, calls, runs,
users, exports and faults and every value of the bounds, from the modules' named
assumptions on the constants and what the second column adds. Every invariant
named below was checked by TLC on the runs' instances before it was proved.

**EventImport** (`_proofs`, `_refinement`, `_quota`)

| Theorem | Assumes | Gives | Argument |
|---|---|---|---|
| `TypeCorrect` | | `TypeOK` | Inductive with `TaskOK` (a worker that is not idle has a job), without which `DatasetOf[task[w]]` means nothing. |
| `ImportsSerialised` | | `Serialised` | Two holders cannot be told apart by their `pc`, so the invariant names the lock: `LeaseInv`, every worker between `guard` and `release` is the value of its dataset's `lease`. |
| `UsageBounded` | `Cardinality(SeedKeys) <= Limit` | `usage <= Limit` (`UsageWithinLimit`) | Reservations compare before they add, a top-up that would cross the limit is dropped (section 4), refunds subtract with a floor of zero (`UsageStep`). |
| `CommittedKept` | `DeliveredWhenDue` | `CommittedEventsKept` | The only step that removes events is `DeleteFresh`, of its own job's. `CommitInv`: a job has one delivery at a time (`OneDelivery`) and what may still reach the delete has not committed (`NotYetCommitted`). |
| `CleanupKept` | `Orderly` | `CleanupDeletesOwnInserts` | `ImportInv`: of an event an unfinished job took over there is a snapshot (`Snapshotted`); a restore that met no failure has left none behind its cursor (`Restoring`); and what a snapshot hands an event back to needs no snapshot of its own (`LinesSettled`). |
| `FailedKept` | `DeliveredWhenDue`, `CleanFailures` | `FailedLeavesNothing` | `Tidy`: with every cleanup finished, only a job whose delivery holds the lease owns events or snapshots it has not committed. |
| `ImportIsAtomic` | `Separated` | `AllOrNothing` | The refinement: initial content is the seed, and every step commits (`FinalizeRefines`) or keeps the logical content (`ContentKept`). The content of an event whose writer has not committed is what the snapshots name, so it takes `Agree`: all snapshots an unfinished job has of an event name the same owner, the present one if the job has not overwritten it. |
| `QuotaKept` | `Accountable` | `QuotaSettled` | The counter is not a function of the events while deliveries run. `Balanced` makes it one: usage is the events of the logical content plus one token for each event a delivery has reserved and neither used nor returned. `Counting` ties each delivery's counters to what it has written: `updated` is the events it took over, the rest was planned as inserts. |

`DeliveredWhenDue`: the queue delivers a job only while it is due and once at a
time. `CleanFailures`: no crash, failing restore or failing cleanup.
`Orderly == DeliveredWhenDue /\ (CleanFailures \/ SeparateUpdates)`, where no two
updating jobs share a row. `Separated` is the same with no two jobs sharing a
row. `Accountable == DeliveredWhenDue /\ CleanFailures`, and no refund is lost.

**IngestReview**

| Theorem | Assumes | Gives | Argument |
|---|---|---|---|
| `TypesKept` | | `TypeOK` | With `Targeted`: a reset under way has a target. |
| `CompletionShown` | | `CompletedFileIsComplete` | No step leaves `completed`, so a status read from the stages and written much later (`Found`, over file and views) is still true. |
| `JobsReachable` | | `NoStrandedJob` | `Behind`, per job: where a run may stop with the job still active, something is behind it. That is after a review that a route has taken the job out of meanwhile, and in create-schema-version; and the last resume queued there comes from an approval or from a reset to geocode-batch, which is what `Parked` names. |
| `ReviewsHeld` | `NoRace` | `ReviewNotBypassed` | `ReviewInv`, per job: run, queued run, retry and reset exclude one another (`OneDriver`); what moves a job in `needs-review` has its approval or is validate-schema, about to return or to run again (`DrivenStage`). |
| `ApprovalsHeld` | `NoRace` | `NoUnapprovedSchema` | The same, with `Gated`: what each task and each queued resume has behind it. A run comes to create-schema-version without the approval its schema needs through a reset to geocode-batch only, and a job that geocode-batch has paused has a schema version. |

`NoRace` excludes the fault `race`: no route and no reaper takes a job that
something else moves.

**ScheduledIngest** (`Calm`: a threshold above zero and none of the faults
`overlap`, `longRun`, `staleDisable`, `claimFail`)

| Theorem | Assumes | Gives | Argument |
|---|---|---|---|
| `TypesKept` | | `TypeOK` | The bound on `files` needs `FileInv`: a run makes one file at most, in the attempt that gets past the fetch, and is not queued again after that. |
| `DisablingIsEarned` | | `DisabledOnlyAfterFailures` | `Earned`: the record's retries, and those in every copy a call may write back, never exceed the failures there were. |
| `ClaimHeld`, `RunsExcluded` | `Calm` | `LiveRunHeld`, `OneLiveRun` | `ClaimInv`: whoever holds the claim (a call after its claim, the scheduler, a live run) finds the record running, and there is one holder (`OneHolder`); a reaper's pass past its job check is alone (`PassAlone`); a claim young enough is not on its list (`FreshClaim`). |
| `RunsSpared` | `Calm` | `FinishedRunsSpared` | `SparedInv`: runs are queued one after the other, so the newest file is the last run's if it made one (`Serial`), and the claim the reaper listed is the one the record holds (`SameClaim`). |

**ScraperRun** (`Calm`: a threshold above zero and none of the faults `overlap`,
`window`, `advanceFail`)

| Theorem | Assumes | Gives | Argument |
|---|---|---|---|
| `TypesKept`, `QuotaKept` | | `TypeOK`, `QuotaSettled` | They rest on each other: a refund does not take the counter below zero because the claim it returns is counted in it (`QuotaClaim`), and a run is dispatched once (`DispatchedOnce`). |
| `PendingKept` | `Calm` | `PendingRunHeld` | The claim is a token (`HolderRuns`, `OneHolder`) until the reaper forces it; a job that waits is as old as its claim (`QueuedStamp`), which makes the reaper's cancellation of old jobs reach the abandoned one only (`PassAlone`). |
| `RunsSpared` | `Calm` | `DeleteSparesRuns` | The run in progress holds the token, and the owner's delete refuses a scraper whose claim is as young as an executing run's; the erasure takes the token back in the step that deletes. |
| `RowsReachable` | `Calm`, `RowsAreFailed` | `NoStrandedRow` | `OpenRow`: a row that says `running` keeps the scraper running, with nobody claiming, until the reaper has closed it and before it resets. |

**AccountErasure**

| Theorem | Assumes | Gives | Argument |
|---|---|---|---|
| `TypesKept` | | `TypeOK` | Inductive by itself, in parts: exports, clean-up, users, eraser. |
| `LastAdminRemains` | no `slowCancel` | `AdminRemains` | `AdminInv`: no account that is active, or may be made so by a cancel in progress, is erased; an admin about to be erased has another admin who is not. The nightly job erases one at a time. |
| `OneExportAtATime` | no `backlog` | `OneActiveExport` | `WaitingInv`: a job that still waits belongs to a pending or deleted record, and one that is not new does not wait. Every step but a request, a start and a reap is `Quiet`: it makes nothing active. |
| `ReadyArchiveKept` | | `ReadyHasArchive` | `ArchiveInv`: an export that is ready, expired, points at an archive or is old is past its job (`PastJob`), so the lists that clean-up and erasure read earlier still describe exports that will not become ready again (`CleanerInv`, `EraserInv`). |
| `ArchivesReachable` | no `statFail` | `ArchiveReachable` | Over `ArchiveInv`: whoever clears `path` or takes the record away has seen the archive go. |

The assumptions are not decoration. TLC violates each property of the schedule,
the scraper, the accounts and the reviews when any one fault that its theorem
excludes is added to the run that checks it (for `NoUnapprovedSchema`, with a second
call per job). So it does for the import in `EventImportConcurrent`, with each of
`crash`, `restoreFail`, `cleanupFail`, `refundFail`, `redeliver`, `redeliverReview`
and `double`, except that `CleanupDeletesOwnInserts` needs a third delivery to fail
under crashes and that `FailedLeavesNothing` stands up to redeliveries of completed
jobs. Section 4 tells the traces. One run checks more than the theorems say: in
`EventImportRetries`, `CommittedEventsKept` and `AllOrNothing` hold with
redeliveries of completed jobs, because its one job never waits for the lease in
vain.

Model-checked only: liveness (`LeaseFreed`, `ImportSettles`, `StageSettles`,
`ClaimsAreReleased` of both modules, `RunsEnd`, `ExportsSettle`,
`ArchivesRetired`), since fairness and ENABLED are beyond the installed provers.

## 6. Not modelled, and plan

Not modelled: a dead maintenance worker; requests in flight while their account
is erased; the deletion of a schedule, by its owner or by an erasure; more than one
scraper or schedule, which share a quota and a queue only; the size of the lease's connection pool (`lib/database/dataset-import-lock.ts:44`),
below which the deployed concurrency stays; the contents of schemas. The
in-memory limiter of geocoding and the one-statement rate limits cost a delay when
they go wrong and no data. Rendering, map and filter queries, parsing and field
interpretation (pure functions of strings with unit tests), email, audit log and
access predicates keep no protocol state. Generated types and migrations, the
largest files of the repository, have no behaviour of their own.

Next:

1. `SchemaVersioning`: version numbers and the merged schema under concurrent
   jobs of a dataset, composed with `IngestReview`'s approval.
2. The daily reset: counters between midnight, the reset job and concurrent
   increments and refunds, for scrapers and URL fetches.
3. `GeocodingBackoff` and the URL cache: small protocols of one record each.

Theorems:

1. `FailedKept` with redeliveries of completed jobs, which TLC finds it to survive.
2. The theorems of `SchemaVersioning`, once it is there.
