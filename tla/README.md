# Verification of The Small Map

The Small Map is a FastAPI backend with a React client: a map of public amenities
(POIs, such as toilets and smoking areas) that are imported from open data and
submitted by users, who confirm them, report on their state and ask to remove
them. This directory holds TLA+ models of the backend, the TLC configurations that
check them on small instances, and proofs that TLAPS checks. `PROJECT.json` maps
every definition to the lines it stands for. Paths below are relative to
`src/backend/app/` unless they start with `src/`.

## The system

One server process runs the request handlers, the background tasks and the
scheduled jobs on one event loop. A request handler, task or job opens one
PostgreSQL session under READ COMMITTED, reads rows into Python objects, computes
on these copies and writes back the columns it changed. Another handler can run at
every `await`, so almost every handler works on copies that may be stale. The
components talk to each other through the tables: `users` and `reputation_events`
are shared by moderation and reports, `pois` by moderation, importers, photos and
reports.

| component | state | operations | modelled by |
|---|---|---|---|
| POI moderation (`routers/pois.py`, `routers/admin.py`, `services/confirmation_service.py`, `removal_service.py`, `moderation_service.py`) | `pois`, `poi_confirmations`, `poi_removal_proposals` | submit, confirm, propose removal, admin reject and approve | `PoiModeration` |
| Reputation and trust (`core/trust.py`, `services/reputation_service.py`) | `users.reputation`, `users.is_banned`, `reputation_events` | append an event, derive tier and ban | `Reputation`, used by `PoiModeration` and `Reports` |
| Reports (`services/report_service.py`, `routers/reports.py`, `jobs/report_expiry.py`) | `reports`, `report_confirmations` | submit, confirm, resolve, dismiss; expiry every 15 minutes | `Reports`, `ReportLifecycle` |
| Photos (`services/photo_service.py`, `routers/uploads.py`, `jobs/photo_cleanup.py`, `jobs/photo_blur_task.py`) | `photo_uploads`, `pois.photo_url`, two keys in the R2 bucket | presign, PUT, claim, blur, hourly cleanup | `Photos` |
| Importers (`importers/`) | `pois` rows of a source | fetch, filter, geocode, upsert, soft-delete what is stale | `Importer` (runs as transactions), `Listing` (rows of a listing) |
| Rate limiter (`core/rate_limit.py`) | buckets in memory | hit, state; lost at a restart | `RateLimit` |
| Sign-in (`routers/auth.py`, `deps.py`, `services/user_service.py`, `core/kakao_oauth.py`, `core/jwt_tokens.py`) | `users`, two cookies per browser | redirect, callback with code exchange and upsert, logout, expiry | `Accounts` |
| Notifications (`routers/notifications.py`, `services/notification_service.py`) | `notifications` | enqueue; list, mark one, mark all | enqueue in `PoiModeration` and `Reports`, the inbox in `Accounts` |
| Account (`routers/me.py`) | none of its own | reads of the caller's submissions, confirmations and events; there is no operation that deletes an account | not modelled |
| Scheduler and command line (`jobs/importer_scheduler.py`, `main.py`, `src/backend/scripts/run_importers.py`) | none | ticks of the jobs, runs by hand | `Listing` and the jobs' own modules |
| Reads (`services/poi_service.py`, `core/staleness.py`, `core/geo.py`) | none | lists, detail, duplicate search | not modelled |
| Client (`src/frontend/`) | query cache, steps of the submit sheet | flows over the API | presign, PUT, submit only, in `Photos` |

`Backend` composes moderation and reports over one `users` table and one ledger.

What is hard in this code, and where the hazards of `PROJECT.json` come from:

* **Stale copies.** Counters (`verification_count`, `confirmation_count`,
  `reputation`) are read, incremented in Python and written back without a lock.
* **Decisions on what was read.** A confirmation flips a POI, a resolution closes a
  report and the expiry job overwrites one on the strength of an earlier SELECT.
* **Two stores.** A photo moves in the bucket before the row that says so commits.
* **Jobs beside users.** The cleanup and expiry jobs, two runs of an importer, and
  confirmations and deletions meet on the same rows.
* **Retries and strangers.** A callback of the sign-in is repeated by an impatient
  browser, redirected to another one, or lost between two of its five steps.
* **Data nobody controls.** Listings repeat, reorder, shorten and mislabel rows.
* **Process memory.** Blur tasks and rate-limit buckets do not survive a restart.

What makes each component correct: counts never claim more than was recorded and
are exact without concurrency; enough attestations verify and enough proposals
remove a POI; neither is undone; bans follow the reputation and are final; reports
close once, in time and for the recorded reason; a photo belongs to one POI and has
been processed when the row says so; a listed POI stays and a dropped one goes away after
the grace period; a place of a listing has one POI and none is lost without a word;
a person has one account, is signed in where they consented, and takes a ban along;
no window of the limiter holds more calls than its budget.

## Modules

The database models share one shape. `txn[r]` is the session of request `r`: the
handler it runs, its next statement (`pc`), the copies it holds and the rows it has
written and so locked. An action is one statement of a handler with the code up to
the next one. The tables change only at COMMIT, which applies the columns the
session changed to the rows *as they are then*. An UPDATE waits while another
session holds the lock of its row; an INSERT of a key waits for an uncommitted
insert of the same key. `Abort` rolls back at any point.

* **`Reputation`**: thresholds, event deltas, `AppendEvent`, the ledger and its sum.
* **`PoiModeration`**: five handlers. `SubmitBegin`; `ConfirmBegin`, `ConfirmRead`,
  `ConfirmInsert`, `ConfirmFlush`; `ProposeBegin` to `ProposeCount`; `RejectBegin`,
  `RejectRead`, `SoftDelete` (which a third proposal reaches, too); `ApproveBegin`,
  `ApproveRead`, `ApproveFlush`; `LockUser` (the UPDATE of the submitter) and
  `Commit`.
* **`PoiLifecycle`**: the abstract promise of moderation, without sessions, copies or
  counters: distinct people vouch and object, enough of them or an admin verify or
  remove, nothing is undone. It is one-sided, as the code is: enough people make
  the change possible and do not force it.
* **`Reports`**: four handlers as above; the expiry job as `ExpireSelect`,
  `ExpireUpdate`, `ExpireCommit`, `ExpireFail`; a clock for the 24 h delay and the
  TTL.
* **`ReportLifecycle`**: the abstract promise of a report, again without sessions or
  copies: others than its author back it, at most once each; its author withdraws it,
  others resolve it after the delay, staff dismiss it, the job expires it after its
  life; it is not reopened. It is one-sided: of two closings that overlap, the last
  one says how the report ended, and who began to back an open report still may.
* **`Photos`**: `Presign`; `Put`, any number of times and at any time, since the presigned
  URL can be used again until it expires and a PUT begun in time may land later; a
  submission as `SubmitRead`, `ClaimReject`, `ClaimMove` or `ClaimHalf`, `MarkClaimed`,
  and a commit with or without the blur task; the task as `BlurPut`, `BlurCommit`,
  `BlurUnreadable`, `BlurFail`; the job as `CleanupSelect` to `CleanupCommit`; `Crash`.
  Calls to R2 block the event loop, so those between two `await`s are one action and
  fail at any of them; the browser is another process, whose PUT can come between them.
  `strays` remembers the uploads at which a PUT landed after the copy, after the
  expiry, or between the sniff and the copy with bytes that are no image. What
  process_photo_bytes returns is "processed": the default detector finds no faces
  (`core/photo_blur.py:51`), so that nothing is said about whether it is blurred.
* **`Importer`**: a run as `Start`, `UpsertSelect`, `Insert` or `Flush` for every row,
  `Sweep`, `Commit`; a failed run leaves nothing (the transaction is aborted);
  `DeadlockVictim`; beside it `Confirm`, `Delete`, `SourceChanges`. Parsing and
  geocoding are the choice of which rows of the source can be used.
* **`Listing`**: what a run makes of the rows: the district filter, coordinates or the
  geocoder and its cache, attributes and the schema that can refuse them, the
  external id, insert or update under the date of the run or the as-of date of the
  row, the sweep, the counters of the report. `run` is the
  open run, with the tables as its session sees them: `ScheduledRun` and
  `CommandLineRun` fetch the listing and differ in the geocoder they are given,
  `NextRow` is the body of the loop over the rows, `FinishRun` sweeps and commits,
  `FetchFails` and `RunCrashes` leave nothing, `Publish` changes the listing, also
  while a run works on the one it fetched. Runs follow each other (`Importer` has
  the overlap).
* **`RateLimit`**: `Admit` or `Refuse` a call, `State`, `Restart`, a clock of fractions
  of a second.
* **`Accounts`**: `KakaoAuthorize` sets the state cookie, `Consent` is Kakao's side; a
  callback as `CallbackBegin`, `ExchangeCodeForToken`, `FetchProfile`, `UpsertRead`,
  `UpsertInsert`, `CallbackCommit`, `CallbackAnswer`, and `CallbackFail` at any point;
  `Logout`, expiry of either cookie, `Ban`, and the inbox. Marking is a request of its
  own, `AskToMark` (authentication), `MarkRead` or `MarkAllRead` (the statement) and
  `MarkCommit`, so that the cookies and accounts can change between its steps.
* **`Backend`**: `P == INSTANCE PoiModeration` and `R == INSTANCE Reports`. A step is a
  step of one of them that leaves the tables of the other alone, a request has one
  handler (`OneHandler`), and a `users` row locked by one is locked for the other
  (`UserLockedOnce`). `SerialSpec` lets one session or run of the job at a time.
* **`PoiModerationProofs`**, **`ReportsProofs`**, **`PhotosProofs`**, **`ImporterProofs`**,
  **`ListingProofs`**, **`AccountsProofs`**, **`RateLimitProofs`**, **`BackendProofs`**: theorems
  about the modules they are named for.
* **`MC*`**: the constants of the instances, symmetry sets and bounds.

Data is abstracted to what the properties tell apart: a POI has no position or
name, and attributes in `Listing` only; a photo is an image or not and processed or not, notices are counted.
Definitions whose comment begins with "Mutant" are the code with a plausible bug;
nothing uses them, they are there to replace the definition after them and to see
the property fail.

## Runs

| run | instance | shows |
|---|---|---|
| `poi_interleaved` | 4 users, 1 POI, 2 overlapping sessions | types, `CountNeverOverstates`, `BanFollowsReputation`, `BanIsFinal`, `NoticeMeansVerified`, the inductive `SessionsAgree`, and that the sessions implement `PoiLifecycle` (`KeepsPromise`) |
| `poi_liveness` | 2 users, 2 sessions | sessions that wait for each other's locks end (`SessionsEnd`) |
| `reports` | 2 users, 1 report, 2 sessions, the job | `TimersRespected`, `NoticeMeansClosed`; sessions and the job implement `ReportLifecycle` (`ClosesAsPromised`); every report is closed although a run of the job fails (`EveryReportEnds`), and sessions end |
| `backend_serial` | 3 users, 1 POI, 1 report, no overlap | what the docstrings promise exactly, across both components: `CountersAreExact`, `ThreeAttestationsVerify`, `ThreeProposalsRemove`, `ReputationIsLedgerSum`, `NoticeTellsOutcome`, `VerificationIsTold`, `LedgerTellsOutcome`, `LedgerTellsConfirmations` |
| `photos` | 2 users, 1 upload, any PUTs, 2 POIs, 2 submissions, task and job, two failures | who owns a photo, what processed means and where orphans come from, each with the exception of stray PUTs; uploads and photos come to an end |
| `importer` | 2 rows (one with as-of dates), 2 overlapping runs, one failure | `ListedStaysActive`, `GraceBeforeRemoval`, `DroppedIsRemoved` |
| `listing` | 6 listings, 3 runs of either importer | `OnePoiPerPlace`, `RemovedOnlyUnplaced`, `GeocoderAskedOnce`, `NothingLostSilently` |
| `accounts` | 2 people, 2 browsers, 3 sign-ins, 2 overlapping requests, 1 notice | `OneAccountPerPerson`, `SignInLandsWhereItBegan`, `BanFollowsPerson`, `ReadByRecipient` |
| `rate_limit` | 2 users, 1 action, 2 calls in 2 s of 2 ticks | `WindowBudget`, `RefusedOnlyWhenSpent`, `BackoffPlusOneSuffices` |
| `verify_lost_update` | as `poi_interleaved` | **violated:** two overlapping confirmations read the same counter; three people attest and the POI stays unverified (`confirmation_service.py:80`) |
| `expiry_overwrites` | 3 users, 1 report, 2 sessions, the job | **violated:** the job updates by id and turns a report that was resolved meanwhile into an expired one (`report_service.py:272`) |
| `importer_old_dates` | as `importer`, dates older than the grace period | **violated:** a row that the source lists with an old as-of date is imported and removed in the same run (`importers/base.py:138`, `161`) |

What these properties do not say:

* Those that hold under overlap are one-sided. `CountNeverOverstates`, `SessionsAgree`,
  `KeepsPromise` and `ClosesAsPromised` bound what the code may do; a lost confirmation,
  a missed third proposal and a report closed twice are behaviours of the code that
  they allow. That nothing is lost is said, and holds, without overlap
  (`backend_serial`), and `verify_lost_update` shows what overlap breaks.
* `NoticeTellsOutcome` says that a verification is announced at most once;
  `VerificationIsTold` says when it is: a confirmation that verifies tells the submitter,
  unless banned, and an approval by staff tells nobody.
* `GeocoderAskedOnce` allows one call more for each lookup that raised, since only
  answers are cached: while the geocoder raises, each row asks.
* `NothingLostSilently` is about the loop over the rows. Rows that were counted and
  then undone by a database error are not in `Listing`; that a failed run leaves
  nothing is in `Importer`.
* `EveryPhotoProcessed` stops to say anything after the first failure anywhere, and of a
  photo whose upload a PUT strayed to.
* A claim between the SELECT and the UPDATE of the cleanup job leaves a claimed photo
  whose row says deleted. `PhotoBelongsToPoi` says that the photo is there all the
  same, not that the row is right.

### Bounds, and why they are enough

* Two sessions: every hazard listed is a conflict of two sessions over one POI,
  report or user; locks are held on at most one POI or report and one user, so a
  third session adds a queue and no new kind of conflict. The safety results on
  POIs and reports are proved for any number.
* `poi_interleaved`: four users are the submitter and the three others that a removal
  needs. The submitter starts one charge away from the ban or well into trust, so
  that both thresholds are crossed. `MaxRejections` stops admins from charging the
  same submitter for ever.
* `reports`: a reporter and an admin, who confirm, resolve, dismiss and report again;
  with a third person the liveness check is too large. Two confirmations that overlap
  need one, so `ConfirmationsNeverOverstated` is not among the properties of this run
  and rests on its proof alone, which like those of the other safety properties is for
  any users. `ResolveDelay` 1 and `ReportTTL` 2 keep their order (24 h,
  then the TTL), and `MaxNow` 4 leaves time for a report to be submitted, to fall due
  and to be picked up after the one run of the job that fails (`MaxFailures` 1).
* `backend_serial`: an admin and two others; with the submitter they are the three
  who verify or remove. All start with nothing, and `MaxRejections` 4 just reaches the
  ban by deletions alone; otherwise it takes charges of both components. The delay is
  0, the TTL 1 and `MaxNow` 2. These 1.3 million states are the largest instance here.
  Overlapping sessions of both components multiply to more than TLC can cover, with
  liveness certainly: what is said of them is proved (`BackendProofs`), and so are
  the serial promises for any users, POIs, reports and sessions.
* `accounts`: two of everything that can be confused with another one; three states
  let a browser restart a sign-in while another is open, and the two requests are
  callbacks or mark notifications, in any mixture. States and ids are used up
  and nobody has to call again, so the instance may really stop and its configuration
  does not check deadlock.
* `listing`: `GraceRuns` 1 and three runs let a row be placed, missed, and removed or
  kept; the listings hold a row for every decision of the importers (no coordinates,
  coordinates abroad, another district, a blank road address, two rows at one
  address, another under the very same id, the date of a current and of an old survey). `Text` is every string. It stops after
  `MaxRuns`, so deadlock is not checked. Listings of any length and rows with
  anything in their cells are covered by the theorems.
* Photos: `TTL` 1 and `MaxNow` 3 let an upload be claimed just in time, expire, and be
  cleaned up after the job has failed, also when a submission failed before
  (`MaxFailures` 2). One upload is what two submissions and the job compete for, over
  104,840 states; with two of them the PUTs alone multiply to too many, and the safety
  properties are proved for any number. The clock then stops and nobody has to upload
  or submit, so this instance may really stop: its configuration does not check
  deadlock. `EveryUploadEnds` would show a job or a submission that is stuck.
* Importer: with `Grace` 1 and dates 0 and `Grace` ago a row is imported at 0,
  refreshed at 0 or 1 and stale at 2; every run starts at most once per tick, as
  the scheduled and a manual one.
  Deletions, confirmations and changes of the source stop when what they do could
  no longer be undone by a later run. The bounded end of time is the action `End`,
  so a run that waits for ever is reported as a deadlock. Other dates, with more
  than two runs, are covered by the theorems.
* RateLimit: a window of four ticks, two of them a second, tells a hint that is cut
  to whole seconds from one that is not; seven ticks hold a full window, a refusal
  and the call after it. Longer windows, budgets and histories are covered by the
  theorems.

### Fairness

* `SF(Step(r))` for sessions: the event loop serves an open session, and the queue of
  a PostgreSQL row lock is first come, first served, so a statement that can run
  again and again is run. Opening a session and aborting are never forced.
* `SF(Expire)` and `SF(Cleanup)`: APScheduler fires the job again after a tick that
  failed; the number of failures is bounded, which says that the database and R2
  come back. The scheduler is opt-in: `importer_scheduler_enabled` is off by default
  (`config.py:25`) and `jobs/importer_scheduler.py:91` then starts no job at all.
  `EveryReportEnds` and `EveryUploadEnds` are therefore about deployments that have it
  on; elsewhere no report expires and no upload is cleaned up.
* `WF(Tick)`: time passes. In `Importer` it passes when no run is open: a run takes
  minutes and a cycle a month.
* `WF(Start)`, `WF(Step)` and `WF(DeadlockVictim)` in `Importer`: every run starts some day
  (not in every cycle), is served, and PostgreSQL breaks a deadlock. `DroppedIsRemoved`
  depends on it: on the scheduler being on, or on somebody who keeps running the
  importers by hand.
* `WF(Blur)`: the background task that was scheduled runs. After a failure or a
  restart nothing runs it again, and of bytes that are no image it makes nothing.
  `EveryPhotoProcessed` says no more than that. No scheduler is involved.

## What is proved

Each theorem holds for every value of the constants that satisfies the named `ASSUME`s
of the modules: any users or people, rows, listings, callers, requests or runs, any
delays, deadlines, limits and starting ledgers. Every invariant and every action
property of the passing runs is the statement of a theorem; `CreditExactness`,
`OutcomeExactness` and `ListedSafety` have a premise, which the table gives.

| module | theorem | states |
|---|---|---|
| `PoiModerationProofs` | `TypeCorrect`, `CountSafety`, `SessionSafety` | `[]TypeOK`, `[]CountNeverOverstates`, `[]SessionsAgree` |
| | `BanSafety`, `BanFinality` | `[]BanFollowsReputation`, `BanIsFinal` |
| | `NoticeSafety` | `[]NoticeMeansVerified` |
| | `Refinement` | `KeepsPromise`: the sessions implement `PoiLifecycle` |
| `ReportsProofs` | `TypeCorrect`, `ConfirmationSafety`, `TimerSafety`, `NoticeSafety` | `[]TypeOK`, `[]ConfirmationsNeverOverstated`, `[]TimersRespected`, `[]NoticeMeansClosed` |
| | `Refinement` | `ClosesAsPromised`: the sessions and the job implement `ReportLifecycle` |
| | `ClosedSafety` | `NeverReopened`, a consequence a reader may want by itself |
| `BackendProofs` | `BanSafety`, `BanFinality` | the two statements on bans, for overlapping sessions of both components |
| | `CounterExactness`, `VerificationQuorum`, `RemovalQuorum` | under `SerialSpec`: `[]CountersAreExact`, `[]ThreeAttestationsVerify`, `[]ThreeProposalsRemove` |
| | `ReputationExactness`, `NoticeExactness`, `VerificationNotice` | under `SerialSpec`: `[]ReputationIsLedgerSum`, `[]NoticeTellsOutcome`, `VerificationIsTold` |
| | `OutcomeExactness`, `CreditExactness` | under `SerialSpec`: `[]LedgerTellsOutcome`, `[]LedgerTellsConfirmations`, when the ledgers begin without an event of a confirmation or a report (`FreshHistories`, as in the run: what these two count begins with the model) |
| `PhotosProofs` | `PhotoSafety`, `ProcessedSafety`, `OrphanSafety` | `[]PhotoBelongsToPoi`, `[]MarkedMeansProcessed`, `[]OrphansNeedFailure`, for any number of PUTs at any time |
| `ImporterProofs` | `GraceSafety` | `GraceBeforeRemoval`, whatever dates the rows carry |
| | `ListedSafety` | `ListedStaysActive`, when no listing carries a date older than the grace period (`NoOldDates`, which `importer_old_dates` shows to be needed) |
| `ListingProofs` | `GeocoderSafety`, `AccountingSafety` | `[]GeocoderAskedOnce`, `[]NothingLostSilently` |
| | `PlaceSafety`, `RemovalSafety` | `OnePoiPerPlace`, `RemovedOnlyUnplaced`, whatever dates the rows carry |
| `RateLimitProofs` | `BudgetSafety`, `RefusalSafety` | `[]WindowBudget`, `RefusedOnlyWhenSpent` |
| | `BackoffSafety` | `BackoffPlusOneSuffices` |
| `AccountsProofs` | `TypeCorrect`, `OneAccount`, `SignInSafety` | `[]TypeOK`, `[]OneAccountPerPerson`, `[]SignInLandsWhereItBegan` |
| | `BanSafety`, `ReadSafety` | `BanFollowsPerson`, `ReadByRecipient` |

None of the properties is inductive as it stands: what a commit writes was computed
from copies, and nothing in the tables bounds a copy. Each proof adds what an open
session may rely on although its copies are stale.

* **`PoiModeration`**: `SessionsAgree`. The POI a session found still exists and has the
  same submitter, its copy of the counter is at most the counter that the recorded
  confirmers justify, the key it inserted is in no table and in no other session,
  a session that removes on its own proposal has counted enough of them, and a
  POI being created is nobody else's. `SessionStep` covers every step that moves only
  a session, `CommitStep` the commits, with one case for the committing session and
  one for any other, whose copies must survive the commit. `BanSafety` needs
  `AppendEventFacts` alone: each write of a reputation comes from `append_event`, whose
  row is banned when the threshold is reached, and no write clears the flag.
  `NoticeSafety` adds that a POI somebody was told about exists; no commit takes a
  verification back (`VerifiedStays`). `Refinement` maps every commit to one action of
  `PoiLifecycle` (a proposal that removes is one `Object`) and everything else to a
  stutter; uniqueness of keys in `SessionsAgree` makes the voucher new.
* **`Reports`**: `SessionsAgree` (a report that a session found still exists, with the
  same reporter and creation time; whoever resolves another's report does so after
  the delay, and time does not go back; the counter and the key as above; no two
  sessions create one report), `ReportersExist`, and `JobAgrees`: what the job selected
  has outlived its TTL, and has so for ever. `Refinement` maps the commit of a session
  to the one action of `ReportLifecycle` its handler stands for, `ExpireCommit` to one
  `Expire` of all it selected, `Tick` to `Pass` and every other statement to a stutter;
  the facts about stale copies (`Entitled`: whoever is about to close a report was allowed to, and
  still is) are what makes each abstract guard true at the commit.
* **`Backend`**: `Charges` says that a session of either component writes a user row
  that `append_event` made. A step of one component keeps it for the sessions of the
  other, which do not move. The serial promises rest on `SInv`. Only one session is
  open (`Solo`), and until it commits the tables are what it found, so each of its
  copies is the committed row with what the handler did to it (`SessionsExact`): the
  counter it writes is one more than the keys it found, the outcome it writes is the
  one its notice and its event tell. Thus a commit takes exact rows to exact rows
  (`RowsAgree`, `LedgersAgree`); overlap breaks precisely this, as `verify_lost_update`
  shows. Each handler has its lemma, and the handlers of the other component leave
  what it reads alone.
* **`Photos`**: `SessionAgrees`, `SessionsApart`, `PoiAgrees`, `BlurAgrees`, `UploadAgrees`. No row
  is locked between the check of an upload and its claim; what keeps two submissions
  apart is the bucket. A submission that passed the move found the object at `tmp/` and
  left it at `photos/`, so no other one can pass it unless a PUT strayed. Whether one
  did or not, nothing deletes at `photos/`: the cleanup job looks at `tmp/` only.
* **`Importer`**: `DatesAgree` (a row was verified when its listing says, or later, and not
  in the future), `ChangesAgree` (a run has locked the rows it changed), `StaleAgrees` (what
  the soft-delete matched stays locked and stale until the commit), `LocksApart`, and
  `ListedAgrees` (what a run found listed is recent, so that its own soft-delete does
  not match it). `seen`, the history the theorem is about, is the
  listing a row was last *written* from: a run that finds nothing to change may
  commit after one that wrote an older date.
* **`Listing`**: what a run has done is told by the rows it has taken. Each of them is
  counted once (`RowsCounted`, a cardinality that grows by one row at a time in place
  of a sum over the listing); a row that could be placed was verified by this run
  (`UsableVerified`), because a lookup that is cached as failed did fail (`CacheAgrees`);
  an address is in the cache once it was asked for, or each of its lookups raised
  (`AskedAgrees`). Between runs, the date of a POI and the runs that could not place it
  add up to the present, or it has the as-of date of the row that last wrote it
  (`DatesAgree`), and a place has a POI exactly when some run placed a row there
  (`KnownAgrees`); within a run the new POIs are those it has counted as created
  (`CreatedAgrees`). `AlwaysValid` shows on the way that the schemas never refuse what the
  importers make of a row.
* **`RateLimit`**: a bucket forgets calls, so no property follows from buckets alone.
  Each is the end of the history of admitted calls, and what it has forgotten is
  older than the window (`BucketAgrees`); a call is admitted only when the one
  `MaxCalls` calls before it is out of the window (`Spaced`); the oldest call that a
  refusal counted is the one its hint waits for (`HintAgrees`).
* **`Accounts`**: `StatesLead` (a state cookie names a sign-in that began in its browser),
  `CallAgrees` (what a callback holds belongs to the person who consented in its
  sign-in), `InsertsDiffer` (two open inserts differ in Kakao id and in key) and
  `MarksAgree` (a request that marks notifications still serves whom it was
  authenticated for, and has selected rows of that account only).

Only model-checked: liveness (`SessionsEnd`, `EveryReportEnds`, `DroppedIsRemoved` and the
ends of uploads and photos), since fairness and ENABLED are out of the prover's reach,
and the three violations. Nothing that is proved needs induction over data:
`LedgerSum` is a sum over the five event types, written out; a bucket is cut at
a position, not filtered; and a listing is taken row by row by the steps of
the run, so the induction is the one over behaviours.

## Where code and documentation differ

Besides the three violated runs, reading the code for the models showed:

* `models/reputation_event.py:3` promises a nightly recomputation that repairs drift.
  `recompute_reputation_for_user` has no caller outside the tests, so the reputation
  that overlapping sessions overwrite stays different from the ledger.
* `core/rate_limit.py:8` calls Retry-After "the seconds the client should back off". It
  is cut to whole seconds, and a call exactly one window old still counts, so a
  client that waits just as long may be refused once more; `BackoffPlusOneSuffices` is
  the promise that holds.
* `core/photo_blur.py:51`: the default detector finds nothing, so a photo that is marked
  as processed has been decoded and encoded again, and blurred only where another
  detector is wired.
* `core/trust.py:5` says a reputation below -10 bans and one above 50 is trusted; the
  comparisons in its code include -10 and 50, and so does the model.
* `src/backend/scripts/run_importers.py:13` says that `--dry-run` does not commit; `run()`
  commits by itself before the script rolls back.
* A re-import makes a POI active again that users or an admin removed, with its
  deletion columns unchanged. `PoiLifecycle` speaks of moderation alone.
* The scheduler builds the toilets importer without a geocoder
  (`jobs/importer_scheduler.py`), although the file it reads has no coordinates: a
  scheduled run places nothing, and after the grace period it removes the toilets
  that a run by hand had placed. `RemovedOnlyUnplaced` says that rows which cannot be placed, and rows
  that carry an as-of date older than the grace period, are the only listed ones
  that are removed.
* The external id of a smoking area has its row number in it
  (`importers/seoul_smoking_areas.py:66`, which calls it a "stable id"), so a row that
  moves in the listing becomes another POI;
  `OnePoiPerPlace` is therefore stated for the toilets. Two toilets with one address
  and one name share an id, and the later row overwrites the earlier one.
* A road address of blanks hides the lot address of the row; a lookup
  that found nothing is counted under "no geocoder"; a smoking area that cannot be
  placed appears in no counter (`NothingLostSilently` is stated for the toilets).
  A change of the location alone does not count as a change.
* The callback deletes the state cookie the browser has by then, which may be that
  of a sign-in begun later: the later one is refused and has to begin again.
* The object of a submission that dies between the move in the bucket and its
  commit stays at `photos/`, where the cleanup job does not look
  (`OrphansNeedFailure`).
* The presigned URL can be used again until it expires (`core/r2.py:44`). After a claim
  has moved the bytes, another PUT lets a second submission that had found the upload
  claimable claim it too: two POIs share the photo, and the bytes of the second move
  replace a processed object while photo_processed_at stays set. A PUT that lands
  after the cleanup stays at `tmp/`. The photo properties name these as the exception.

## Not modelled, and why

The client's flows are planned (below). Reads change nothing, and so do the pages of
a user's submissions, confirmations and reputation events. The duplicate search needs geometry,
decoding of CSV and XLSX and face detection are pure functions, logging and headers
carry no shared state. Migrations and seed scripts run once, outside the traffic. Validation of single requests is assumed: the models
begin with a valid request, or with the choice that it is refused where later
steps tell the difference. `configure` and `reset(user)` of the limiter are used by
tests only. The clock of the models does not go backwards.

## Plan

1. A stronger promise of a report (closed once, for one reason) that `Reports` keeps
   when nothing overlaps; an abstract specification of the object store for `Photos`
   (an upload is held by its sender, a POI or nobody); proofs of both.
2. The client: the submit sheet over `Photos`, optimistic updates of the notification
   and confirmation queries.
3. POIs with positions on a small grid: the duplicate search beside the INSERT.
