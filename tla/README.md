# Verification of Aura-Risk

TLA+ models of the concurrent core of Aura-Risk, TLC configurations that check them on small
instances, and TLAPS proofs for every instance. Aura-Risk shows hydro-meteorological risk for
places in Kenya and collects community reports of floods and landslides: a Go backend over
Postgres/PostGIS that runs in several instances, an Expo mobile app that works offline, and a web
frontend.

Run a configuration with `tlc -config <Cfg>.cfg <Module>.tla` and a proof with
`tlapm <Module>Proofs.tla`. `PROJECT.json` lists the runs, for each property a change to the code
that it catches, the code lines of every definition (`map`), the hazards and the theorems. `Bug…` definitions are those changed forms; nothing else uses them.

## 1. Inventory

Paths are relative to `src/`; `be/` is `aurarisk-backend/`, `mo/` is `aurarisk-mobile/src/`.

### Backend: reports

| Component | Code | State | Operations |
|---|---|---|---|
| Report curation | `be/internal/handlers/reports.go`, `moderation.go`, `services/curation.go`, `workers/verifier.go` | `community_reports` (status, moderated_by, score, duplicate_of), `report_moderation_events`, advisory lock 7311003 | store a report with duplicate detection; the verifier's periodic run: score undecided originals and verify those with evidence; a moderator's verify / reject / reopen / unmark duplicate |
| County response | `handlers/responders.go`, `services/response.go`, `workers/webhooks.go` | `response_status`, `acknowledged_at`, `resolved_at`, `report_response_events`, `report_webhook_deliveries`, advisory lock 7311004 | responders acknowledge and resolve; the worker queues verified reports and delivers them with retries |
| Photos | `handlers/photos.go`, `workers/photos.go`, `services/imaging.go`, `clamav.go`, `storage/` | `report_photos`, objects in S3 | presign, upload, complete, claim, scan, strip, publish or refuse |
| Retention | `workers/retention.go` | all of the above, the same lock 7311004 | purge old rejected and duplicate reports, abandoned photos, tokens, inactive accounts |
| SMS and USSD | `handlers/channels.go`, `services/channels.go`, `africastalking.go` | `channel_reporters` (phone hash → account), a token bucket per phone and instance | parse an SMS; walk the USSD menu; make the phone's account; store through the same `storeReport` |

**Interactions.** All writers meet in rows of `community_reports`. `storeReport` reads candidates
and inserts without a lock; moderators and responders take the row with `SELECT … FOR UPDATE`; the
verifier reads without locks and writes with a guarded `UPDATE`. Workers exclude each other across
instances only through advisory locks tied to a database session, so a lost session frees the lock
while the run goes on over the pool. The webhook worker announces what the verifier or a moderator
verified; retention deletes rows and objects other components point to.
**Hard behaviours.** Reads that are stale when used; duplicates of duplicates; a decision between
evidence and verdict; two decisions on one row; crash between a county's answer and its record; a
lock shared by two workers. **Correct means.** `duplicate_of` names a stored original, never a
chain; a moderator's decision is final for the verifier; the audit trail explains the status; no
report is auto-verified on one person's word; response statuses only go forward and only in scope;
a delivery is settled, and repeated only after a fault.

### Backend: accounts and alerts

| Component | Code | State | Operations |
|---|---|---|---|
| Authentication | `handlers/auth.go`, `services/tokens.go`, `handlers/devices.go` | `accounts`, `devices`, `auth_tokens` | register, authenticate, refresh with rotation and reuse detection, logout, delete account, push token |
| Subscriptions | `handlers/subscriptions.go` | `location_subscriptions` (threshold, quiet hours, last_notified) | list, create, update, delete |
| Risk notifier | `workers/notifier.go`, `services/quiethours.go`, `expopush.go` | last_notified, push tokens, advisory lock 7311002 | per run: assess each place, decide from level, threshold, last alert and quiet hours, push, drop dead tokens |
| Rate limiter | `handlers/ratelimit.go` | token bucket per client in each process, swept when idle | allow or refuse a request |

**Hard behaviours.** Two copies of one refresh token at once; reuse detection or logout racing a
rotation of the same device; a lost answer presented again; a notifier run on a snapshot that
users change meanwhile; crash between push and record. **Correct means.** A refresh token rotates
at most once, what was revoked never works or rotates again, and a family of tokens is a chain; an
alert goes out for each crossing, not twice within twelve hours without a fault, not in quiet hours,
and nobody is silenced by an alert that reached no device.

### Backend: weather, water and risk

| Component | Code | State | Operations |
|---|---|---|---|
| Weather service | `services/weather.go`, `openmeteo.go` | cache per grid cell, flight per cell, circuit breaker, token budget | `Get`: hit, join a flight, fetch, fall back to a stale copy, refuse |
| Hydrology service | `services/hydrology.go` | cache of discharge and elevation per grid cell, with entries for failures | `Get`: both kinds at once; hit, spare a failing provider, fetch (each caller for itself), fall back |
| Risk scoring | `services/risk.go`, `confidence.go`, `clientweather.go`, `clienthydrology.go` | none | pure scores; validation of weather the client fetched |
| Migrations | `database/database.go`, `migrations/` | `schema_migrations`, the older `schema_version`, an advisory lock per transaction | bootstrap, apply, check what is pending |
| Process life cycle | `be/main.go`, `handlers/health.go` | workers, HTTP server, the draining flag | start, migrate or check, readiness, drain, shutdown |

**Hard behaviours.** Many goroutines on one mutex that is released around each call; a result from
before the circuit opened; a caller whose saved copy ages while it waits; an upstream that hangs;
failures noted in an entry that another lookup replaced; two releases that migrate at once, or die
half-way; a balancer that learns late that an instance drains.
**Correct means.** One probe at a time; nobody is given data older than promised or older than
it already had; nobody waits for a fetch that nobody makes; outgoing calls are bounded; an assessment
that is not of low confidence is the one complete data give (but for the age of soil moisture and river); each migration runs once and in order.

### Mobile app

| Component | Code | State | Operations |
|---|---|---|---|
| Session | `mo/auth/authClient.ts`, `tokenStore.ts` | access and refresh token in secure storage, one shared refresh promise | call with a token, refresh once, re-register, log out |
| Offline queue | `mo/storage/reportQueue.ts`, `mo/sync/flushReportQueue.ts`, `mo/services/api.ts`, `mo/photos/` | queued reports in AsyncStorage, local copies of photos | submit or enqueue, flush, mark created, upload photos, give up |
| Notifications | `mo/notifications/` | cached subscriptions, push token | register, restore to a new account |

**Hard behaviours.** Read-modify-write of stored JSON across `await`s; the app killed anywhere; a
logout during a refresh; a lost answer. **Correct means.** A queued report is filed once and not
lost (but for a lost answer or record, retries given up, and a stale write of the queue; see section 3); a session that was logged out does not come back.

Left out of the models altogether: web frontend and screens (presentation over the API), open data
(read-only queries), configuration (its range checks are assumptions here), logging and metrics,
image decoding and virus scan (pure functions, only their verdict matters), backtest (offline
floating-point statistics), tables of texts and counties, deployment files.

## 2. Modules

| Module | What it is | Proofs |
|---|---|---|
| `ReportLifecycle` | abstract: what curation promises of one report | |
| `ReportCuration` | storing, automatic verification and moderation, statement by statement; implements `ReportLifecycle` | `ReportCurationProofs` |
| `CountyResponse` | responders and webhook outbox over `ReportLifecycle` (an INSTANCE) | `CountyResponseProofs` |
| `AuthTokens` | tokens of device accounts on the server | `PhoneProofs` |
| `WeatherCache` | `WeatherService` and the retries of its client | `WeatherCacheProofs` |
| `PhotoPipeline` | upload slots, photo processors, object store | `PhotoPipelineProofs` |
| `Retention` | the retention cleaner, over the photos of `PhotoPipeline` (EXTENDS) | `PhotoPipelineProofs` |
| `RiskNotifier` | subscriptions, push tokens and the notifier's runs | `RiskNotifierProofs` |
| `RiskScore` | score, confidence and checks of what devices send, as functions | |
| `RiskAssessment` | risk requests and the hydrology cache, over `RiskScore` (EXTENDS) | `RiskAssessmentProofs` |
| `Instances`, `Migrations`, `Channels` | the backend's processes; the schema they migrate; SMS and USSD requests | |
| `Service` | their composition: the life of the instances behind a load balancer | `ServiceProofs` |
| `OfflineQueue` | the phone's queue of reports, its flush and the composer | `PhoneProofs` |
| `MC…` | small instances: symmetry sets and the inputs of the runs | |

### 2.1 ReportLifecycle and ReportCuration

`ReportLifecycle` keeps status, decider and original of each report. A report is published pending
(as an original, or as a duplicate of one that is an original at that moment), `AutoVerify` touches
only an undecided original, and everything else is a moderator's `Decide`.

`ReportCuration` has one action per SQL statement wherever another session can act in between.

| Actions | Code |
|---|---|
| `BeginStore`, `CheckDuplicate`, `InsertReport`, `AbortStore` | `storeReport`: BEGIN, which fixes `created_at`; the candidates' SELECT with `FindDuplicate`; INSERT and COMMIT, or a failure |
| `BeginModeration`, `LockRow`, `Decide`, `AbortModeration` | `ModerateReport`: BEGIN, `SELECT … FOR UPDATE`, the UPDATEs with the event and COMMIT |
| `StartRun`, `GatherCorroborators`, `GatherHistory`, `RecordVerified` / `RecordScore` / `RecordNothing`, `FinishRun`, `FailRun`, `LoseSession` | `ReportVerifier.run`: lock and `loadPending`; per report the two evidence queries and the guarded write; release; failure; lost lock session |
| `PublishPhoto`, `Tick` | a photo of a stored report becomes ready; time |

What the model keeps of the data: `NOW()` is the time a transaction began. Between BEGIN and the candidates' SELECT
others begin and commit, so that a copy may be older than the original it is attached to (READ COMMITTED;
`curation.go:152` takes the absolute age). A place is a position on
a line and the radii and windows are scaled so that their order is kept (similar text < same
reporter < corroboration). Similarity of notes is a constant relation, reflexive but not transitive,
which is what Jaccard similarity gives. A category is its `CategoryGroup`. `VerificationScore` is
the code's sum of points with its clamp and the threshold 50; `Oldest` and `Newest` are
`ORDER BY … LIMIT`. `LoseSession` frees the advisory lock while the run goes on over the pool, so
two instances may score the same reports. A moderator is one request at a time; the same person with
two requests is two moderators.

The refinement maps each stored row to its status, decider and `duplicate_of`; transactions under
way are invisible and the commit of each is one abstract step.

### 2.2 CountyResponse

Reports come from `ReportLifecycle` with a countdown `fresh` for `webhookLookback`, the 24 hours of `status_updated_at`
(`webhooks.go:28`, `webhooks.go:102`).
`LockForResponse`, `CommitResponse`, `AbortResponse` are `UpdateReportResponse`: the guarded
`SELECT … FOR UPDATE` that looks for scope, `CanChangeResponse`, and the UPDATE with its event; a
row so locked blocks moderators. The worker is `StartRun` (try the lock), `QueueVerified`
(INSERT … ON CONFLICT DO NOTHING), `LoadDue`, `Send` / `SendUnanswered`, `Record`, `FinishRun`.
Its statements use the connection that holds the lock, so `NoticeLostSession` ends a run whose
session is gone; `FailRun` is a crash or database error, `LoseSession` the loss. `StartRetention` and
`FinishRetention` stand for the retention cleaner, whose lock constant has the same number
(`workers/retention.go:18`, `workers/webhooks.go:25`). `received` counts posts that reached the
county. Crashes, lost sessions and lost answers are counted in `faults` and bounded by `MaxFaults`.

### 2.3 AuthTokens

A pair is an id, a token a pair and a kind; hashing is not modelled because an id is never
guessed. `PresentRefresh` is the `SELECT … FOR UPDATE` of the token's row and what it decides: reuse if the token is
revoked, rotation if it is good, and nothing (401) if it is unknown or expired; `Rotate` the rest of the transaction, which
holds the row: the UPDATE that revokes it, the DELETE of old rows, the INSERT of the new pair and COMMIT.
`ScanTokens` and `RevokeTokens` separate what the revoking UPDATE finds when it starts (READ
COMMITTED: committed rows) from its end, since it waits for row locks in between; reuse detection
and logout share them. Only revocable rows are locked, `Locked` says which, and `Abort` is any
failure, the victim of a deadlock included. `DeleteAccount` cascades. Anybody may present any copy
of any token at any time, so replays and lost answers need no actions of their own. `condemned` is
history: the tokens a revocation was to kill.

### 2.4 WeatherCache

An instant is kept as what the code compares it for: `fetchedAt` as an age, `openUntil` and a
fetch's deadline as countdowns. A goroutine that can run does so within the tick: `Tick` waits for
fetches at their deadline and for woken callers. `GetHit`, `GetJoin`, `GetFetch`, `GetRefused` are the
branches of `Get` under the mutex; `Retry`, `FetchSucceeds`, `FetchFails` are the client's attempts and
the end of the shared fetch with the breaker and the eviction; `Return` and `GiveUp` wake a waiter.
`captured` is the local variable `cached`, read before the wait. The lazy refill of the budget from
`lastRefill` is an eager refill at each tick, which comes to the same number whenever it is read.
`requests` is history: requests sent in each of the last `Minute` ticks.

### 2.5 PhotoPipeline

`rows` is `report_photos`, `objects` the three keys of a photo in S3. `ReserveSlot` is
`CreatePhotoUpload` up to the count, under the report's `FOR UPDATE` lock, `InsertPhoto` its INSERT
and COMMIT; `Upload` a PUT to the presigned URL, good until the slot expires whatever became of the
photo; `CompletePhotoUpload` one UPDATE. A worker's attempt is `Claim`, `Download`, `Scan` (size,
scanner and decoder: one verdict), `PutLarge`, `PutThumb`, `Finish` (the UPDATE by id, for `ready` as
for `rejected` and `failed`), `DiscardOriginal`. `Retry` is any failure that schedules another
attempt, `Crash` the end of the process or an UPDATE that fails. `left` counts down what the worker
claimed; `overrun` is history: photos at which some worker outlived its lease, which the code allows
(S3 calls have no deadline) and does not notice. Content is fit or unfit. A request's transaction
lies within a tick.

### 2.6 Retention

Extends `PhotoPipeline` by the cleaner: `ExpiredReports`, `ReadKeys`, `DeleteObjects` or
`DeletionFails` per group, `DeleteReports` with its cascades, then the same for photos
(`ExpiredPhotos`, `DeletePhotos`). Which period applies to which status is left to the environment:
`Expire` and the moderator's `Decide`. `DeletionFails` deletes a prefix of the keys. `Abort` is a
crash or a failed statement. `condemned` is history: reports that expired, and their duplicates.
The loop over full batches may stop after any batch (`retentionMaxBatches`). Storage that is not
configured is left out: there are then no photos.

### 2.7 RiskNotifier

| Actions | Code |
|---|---|
| `CreateSubscription`, `UpdateSubscription`, `DeleteSubscription` | the handlers of `subscriptions.go`, each one statement |
| `RegisterPushToken`, `UnregisterPushToken`, `DeleteAccount` | `devices.go`, logout, `auth.go` |
| `BeginRun` | try the lock, `loadSubscriptions`, fix `now` |
| `Consider`, `SkipUnassessed` | assess the place (once in a run, live data only) and `decide` |
| `LowerLevel`, `ResetLevel` | the writes of `decisionLower` and `decisionReset` |
| `ReadDevices`, `Send` / `SendFails`, `ClearToken`, `RecordNotified` | `notify`: the devices as they are now, the tickets, the dead tokens, the record |
| `FinishRun`, `StatementFails`, `Crash`, `LoseSession` | unlock; a statement that fails is logged only; the process ends; the lock goes while the run goes on over the pool |

`Level` is `LevelRank`, `NeverNotified` (-1) the rank of an empty level. `age` is the time since
`last_notified_at`, cut off at `RenotifyAfter`, which also stands for NULL. The level an assessment
finds is an input of `Consider`. `told` and `strongest` are history: the last alert that reached a
device since a calmer assessment or another place or threshold, and the highest level ever. The insert that counts
subscriptions counts what is stored; the comment at `subscriptions.go:128` grants that concurrent
inserts may exceed the limit.

### 2.8 RiskScore and RiskAssessment

`RiskScore` is the arithmetic of `risk.go` and `confidence.go` over whole numbers: scores in
sixtieths of a point, so that all weights but the river's ratio are exact. `CurrentHourIndex`,
`HoursAfter` and `PreviousHours` keep the code's clamps, with series shorter than the hours they
belong to; `SlicePanics` is the one case without a clamp, answered 500. `RiverFlowOn` is the choice of the cell
(past median, future peak, missing values); `Reasons` what lowers the confidence. `ServerAssessments` and
`ClientAssessments` are all that either request can answer with what the server had of ground and river, given what the
provider may return and a device may send.

The reference is `FullScore`: the score of an hour from what was told of its rain, the conditions and the ground, and from one
soil moisture and one river. `Told` is what the weather provider says when an hour is the present one, so forecasts and soil
moisture change from hour to hour; `Flood` is the Flood API's answer of so long ago, `DayFlood` its answers of
yesterday, today and tomorrow. Of two inputs the code takes an older one without a word: `latestPositive` (`risk.go:128`)
takes the last positive reading of any earlier hour, and `lookup` a discharge up to `RiverStaleFor` old
(`hydrology.go:321`), a device a day's too (`clienthydrology.go:73`). `Honest` therefore asks for *some* reading of the
hours so far and *some* main river of an answer that is young enough; all else must be that of the hour. `TruthAssumption`
says that what providers and devices tell is as told, as far as it goes: a series may start late, end early or be of another
hour, but has no wrong entry. Outside of it: an hour whose rain is null, which counts as dry in the code, without a word
(`openmeteo.go:58`); a device's weather of up to half a degree away (`clientweather.go:30`), since a place is its grid cell here; and
a device's river put together from several answers.

`RiskAssessment` is the cache of one grid cell for both kinds of lookup. `Found` and `StartFetch` are
the branches of `lookup` under the mutex, `FetchSucceeds` and `FetchError` its end: a failure is noted
in the entry that the lookup found, or in a new one over whatever is there by then
(`hydrology.go:339`). An entry that was replaced or evicted (`Evict`) lives on in lookups that hold
it (`"orphan"`). `Abandon` is a GET that is answered 503 or a client that hangs up; its lookups end
as failures (`FetchCancelled`), because the code does not tell a cancelled context from a failing
provider. `AnswerPost` may fill in what the server lacks from the device. `answer` is what the response of the last step was made of:
whose weather, whether the server had the ground, and how old a river; `Assessments` are those it may carry.

### 2.9 Instances, Migrations, Channels and Service

| Actions | Code |
|---|---|
| `BootstrapBegin`, `BootstrapCommit`, `ApplyBegin`, `ApplyCommit`, `ApplyDone` | the transactions of `Migrate`, each under `pg_advisory_xact_lock` |
| `RequestArrives`, `RequestServed` (`Request`, `FindAccount`, `CreateAccount`, `CommitAccount`, `TheirAccount`, `CountReports`, `StoreReport`), `RequestFails` | a channel request: the instance's bucket, `channelAccount` with its race, the hourly count, the insert; a failed statement |
| `Start`, `MigrationsComplete`, `MigrationFails`, `CheckPending` | `main`: migrate and exit, migrate and serve, or check and serve |
| `Terminate`, `SetDraining`, `Shutdown`, `Exit`, `Kill` | SIGTERM, failing readiness, the drain delay, closing the listener, the end; a kill at any time |
| `Poll` | the balancer's health check; between two there are at most `HealthInterval` ticks |

A request is a slot of its own (`Callback`), `at` some instance: nothing orders the requests of a phone, and several may be
under way at one instance, as gin runs them. `Exit` at the timeout and `Kill` cut off all requests at the instance. The
age of a report counts from its commit, in whole ticks; its content and duplicate detection are those of `ReportCuration`.
A transaction that is cut off rolls back (`LeaveMigrate`, `Cut`). The SQL of a migration is a
count of how often it was committed (`ran`). `Known` says which migrations are in the binary of each
instance, `Legacy` what the older `schema_version` recorded. The balancer is external, modelled from
the comment at the drain in `main.go`: it sends requests only to instances it found ready.

### 2.10 OfflineQueue

The queue is one stored value: each change is a read (`EnqueueRead`, `UpdateRead`) and a later write
of what was computed from it (`EnqueueWrite`, `UpdateWrite`), as in `reportQueue.ts`. `Submit…` is
`submitReport`, called by the composer one at a time; `StartFlush` … `EndFlush` is
`flushReportQueue`, whose module variable admits one run. An item is created on the server, then
its photos are sent one by one; each outcome is recorded in the queue before the next (`markReportCreated`,
`removeQueuedPhoto`, `updateRetryCount`, `dequeueReport`). `Kill` ends both and keeps what is stored.
A fault is a kill, an answer that is lost after the report was created, a read that fails (the code takes
it for an empty queue) or a write that throws. `doubtful`, `dropped`, `clobbered` are history: what
the phone could not record, gave up, or overwrote with a queue it had read too early.

## 3. Runs

| Run | Properties | What it shows |
|---|---|---|
| CurationReports | TypeOK, FlatDuplicates, AutoVerifiedOnEvidence | three submissions (an account repeats or copies itself, an anonymous copy of the copy), statement by statement, against the verifier's queries, a photo and a moderator |
| CurationRaces | AuditTrail, ModeratorDecisionsFinal, ImplementsLifecycle | two moderators and a verifier on an original and its possible copy |
| CurationProgress | EventuallyVerified | two instances whose runs fail or lose their lock: enough evidence is acted upon |
| CountyResponse | ResponseTrail, AnnouncedOnce, RespondedInScope, EventuallySettled | two responders of the county and one of another, a moderator, two workers and retention |
| RiskNotifier | SilenceEarned, QuietHoursKept, NeverTwiceWithoutFault, EventuallyAlerted | two instances alert one user who changes threshold and quiet hours, withdraws consent or leaves, while answers, writes, locks and instances fail |
| AuthTokens | FamilyIsChain, RevocationComplete | two requests at once with any tokens of two devices |
| WeatherCache | SingleProbe, AnswersInTime, NoLostWaiter, RequestsBounded, MonotonicAnswers | two callers of one cell and one of another, room for one copy, a provider that answers, fails or hangs |
| Photos | PublishedClean, OneWorkerPerPhoto, SlotsBounded | two requests for the one slot of a report, uploads at any time, two processors that fail, crash or are late |
| Retention | KeptPhotosIntact, EventuallySettled, EventuallyErased | a report, its duplicate and the duplicate's photo, while storage fails and a moderator decides |
| RiskAssessment | ConfidenceHonest, DeviceWeatherScored, RiverInTime, EventuallyComplete | two requests of a cell whose lookups succeed, fail, are cancelled or pushed out; every kind of incomplete weather, soil moisture and rivers that change |
| Service | SchemaInStep, NothingRefused, OneAccountPerPhone, ReportsLimited | an old and a new release start, migrate, serve two requests of a phone at once, at one instance or at both, drain and die |
| OfflineQueue | NothingLost, FiledOnce, PhotosSurvive, EventuallyEmptied | two reports, one with a photo, through failures, kills and storage errors |

**Bounds and why they are enough.** *Curation*: three reports give a duplicate of a duplicate,
which is the longest chain the code could create in one submission; `MaxEvents` 1 bounds the log
when a decision begins, so with two moderators it grows past one; `MaxTime` 0 where only
interleaving matters (the order of BEGIN, SELECT and INSERT among submissions does not need the clock; the theorems cover any
times), 1 where the window does. `CandidateLimit` 3 does not bite in the runs; the
proofs cover every limit. `CurationProgress` has two instances and no moderator, since a moderator's
decision ends the obligation. *County*: one report suffices because nothing relates two deliveries
except the batch; three attempts give a backoff of 1 and 2 ticks; one fault is a repeat, and
`AnnouncedOnce` counts repeats against faults. *Tokens*: three pairs give a chain of three, two
devices a revocation that must not reach the other; two requests are a race, and each statement of
either may come at any time. *Weather*: a threshold of 2 makes the breaker count, a cooldown of 2
exceeds the timeout of 1 as 30 s exceeds 15 s, `FreshFor` 2 < `StaleFor` 3 gives fresh, stale and
expired copies, one entry forces eviction, two attempts give a retry. *Photos*: a limit of one and
two ids make the slot contended; a lease of two ticks, a slot of one, two attempts and the exhausted
third. *Retention*: original, duplicate and one photo of the duplicate, both reports in one batch or
not; two photos exceed what can be searched, and photos only meet in their group.

*Notifier*: nothing
relates two subscriptions but the assessment they share, so one is enough; two settings differ in threshold
and emergencies, two levels lie below, at and above them, a day of two hours has a night that wraps midnight,
one fault loses a lock, an answer, a write or an instance; two devices are not needed, since any subset of
the tickets may be good. *Risk*: two requests are a failure racing a success; the windows keep the order
of the code's (short < history) at 4, 2 and 2 hours; some twenty responses lack one thing each, from
too short by one to complete; soil moisture differs between hours and the river between ages and days, enough to change
scores. *Service*: two instances with two releases, three migrations of which
the old mechanism had one, four starts: each migrates, dies and comes back; a drain of two ticks exceeds the
health interval of one; limits of one are reached by two requests at once,
which then exceed the hourly limit by one, the bound that `ReportsLimited` gives; three requests are too many to search. *Queue*: two reports are an enqueue during
a flush, two retries a second attempt and the giving up, two faults a lost answer and a kill.

**Deadlock.** The curation runs stop at `MaxTime` and `MaxEvents` and the token runs when all pairs
are drawn, so those say `CHECK_DEADLOCK FALSE`. The other runs check for deadlock.

**Symmetry** is used only where the permuted values are interchangeable in every constant:
moderators and instances, pairs and requests, the two neighbours of a cell. Runs with liveness have none.

**Fairness.** *Verifier*: a ticker calls `run` again and again, so each instance's steps are weakly
fair; `RecordStep` is strongly fair because its UPDATE queues for the row lock and Postgres grants
it when the holder ends; a moderation transaction ends (handlers answer or their context is
cancelled). `EventuallyVerified` assumes that runs stop failing at some point and says that no
report then stays ripe for verification. *County*: weak fairness of the clock, of a run's steps and
of the end of retention; strong fairness of starting a run, since the lock is tried every 30 seconds
and retention, which shares it, holds it once an hour. *Retention*: weak fairness of the cleaner
(a ticker), the photo processors and the clock, strong fairness of the DELETE, which queues for the
row locks of requests. `EventuallyErased` assumes that storage and database work from some point on,
`EventuallySettled` only that instances stop crashing. *Notifier*: weak fairness of the ticker and of
a run's steps; strong fairness of a due alert finding live weather and of a push being accepted, both
assumptions about the outside. `EventuallyAlerted` asks that runs find the subscription outside its quiet
hours again and again, since a run may take as long as the network lets it. *Risk*: the scheduler runs every
request, a fetch ends at the latest by its timeout, time passes; `EventuallyComplete` assumes that fetches stop
failing and being cancelled. *Queue*: weak fairness of the composer's and the flush's steps (every request has a
timeout) and of starting a flush (connectivity events and the background task); `EventuallyEmptied` assumes that
the phone stays online while it works, not that the server answers well. `Service` states no fairness.
Nothing is assumed of clients, responders, moderators and the network.

### Seen on the way

Places where the code does something else than its documents say, or than one would expect. The
models allow all of these; the properties are stated so that they hold.

*Reports.* `REPORT_CURATION.md:40` says "Rejected reports are never used as originals.", but a copy is attached
to a rejected report through a non-rejected duplicate of it (`reports.go:373`, `curation.go:163`).
`COUNTY_RESPONSE.md:17` says "Only **verified, non-duplicate reports with a county** reach responders.", but a report
rejected since it was queued is still announced (`webhooks.go:112`). `REPORT_CURATION.md:112` says of unavailable
storage that "the report is kept and retried on the next run, so files are never orphaned.", but a duplicate whose
photo could not be deleted goes with its original (`retention.go:128`). Two concurrent submissions of one account are
both stored as originals (`storeReport` takes no lock), and the original of a copy may be the younger report, when it began and was
committed while the other had begun. Listings sort by `created_at`, the start of a
transaction, so a decision that waited for a row is listed before the one it followed. A processor that
outlives its lease may reject a photo that is ready; images stored before a later Put failed are never
named by a row.

*Accounts and alerts.* A notifier run that has loaded a subscription overwrites the reset that an update of its
place or threshold makes before the run records its push, so that the new place does not start "alerting fresh"
(`subscriptions.go:168`) for up to twelve hours. A pair that a refresh inserts while reuse detection revokes the
device's tokens is not revoked with them (`auth.go:162`).

*Weather and risk.* The weather budget counts fetches of up to three requests from a bucket that starts full, so a
minute may see several times the configured number (`RequestsBounded` is the bound that holds). `sumPreviousHours`
(`risk.go:121`) slices out of range when the precipitation series ends more than 48 hours before the current hour: a request
is answered 500 by the recovery middleware, the notifier has none. An elevation is meant to be cached for good, but
a concurrent lookup that fails later replaces it by an empty entry (`hydrology.go:339`). `ARCHITECTURE.md:42` lets a request with the
device's weather use the server's own ground and river data, but the GET that was answered 503 before it cancelled its lookups, which are
remembered as failures for `RetryAfter`. A river value up to 48 hours old and a soil reading of any earlier hour do not lower the
confidence; `ConfidenceHonest` grants exactly these two.

*Channels and processes.* The hourly limit is a check before an insert (`channels.go:236`), and nothing keeps the requests of a
phone apart: all that are under way may pass it together, at one instance as well as at several. The per-minute limit, one per
instance, only slows that. `REQUEST_TIMEOUT` (25 s) exceeds `SHUTDOWN_TIMEOUT` (20 s), and channel requests have no timeout, so a shutdown
that "finishes requests" (`ARCHITECTURE.md:178`) may cut them. The workers' contexts are cancelled at SIGTERM, before the drain.

*Phone.* Each change of the queue reads all of it and writes it back after an `await` (`reportQueue.ts:27`, `:48`), and a read that
fails counts as an empty queue, so the composer and the flush may overwrite what the other has just stored: a report that was
confirmed as queued is then lost, or one that was filed comes back. `NothingLost` excludes the reports whose entry was so
overwritten (`clobbered`), and those given up after the retries. `flushReportQueue.ts:30` says "the next retry must not create the report again", but it does after a lost answer,
a kill, or a record that was not written or overwritten by the composer's stale write (`doubtful`, `clobbered`).
The comment in `authClient.ts` that a rotated token is never presented twice does not hold after a lost answer or a kill.

## 4. Proofs

Proved by TLAPS for all constants that satisfy the named assumptions (finite sets of reports,
accounts, cells and instances, sentinels that are not members of the sets, natural bounds in the order the code
has):

| Theorem | Statement |
|---|---|
| `ReportCurationProofs!TypeCorrect` | `Spec => []TypeOK`, the range of the score included |
| `…!DuplicatesAreFlat` | `Spec => []FlatDuplicates` |
| `…!AutoVerifiedAlwaysOnEvidence` | `Spec => []AutoVerifiedOnEvidence` |
| `…!AuditTrailCorrect` | `Spec => []AuditTrail` |
| `…!ModeratorsHaveTheLastWord` | `Spec => ModeratorDecisionsFinal` |
| `…!CurationImplementsLifecycle` | `Spec => Lifecycle!Spec` |
| `WeatherCacheProofs!TypeCorrect` | `Spec => []TypeOK` |
| `…!OneProbeAtATime` | `Spec => []SingleProbe` |
| `…!NoLookupIsLost` | `Spec => []NoLostWaiter` |
| `…!AnswersAreInTime` | `Spec => []AnswersInTime` |
| `…!AnswersNeverGoBack` | `Spec => MonotonicAnswers` |
| `…!RequestsAlwaysBounded` | `Spec => []RequestsBounded` |
| `CountyResponseProofs!TrailAlwaysExplains` | `Spec => []ResponseTrail` |
| `…!AlwaysRespondedInScope` | `Spec => RespondedInScope` |
| `…!AlwaysAnnouncedOnce` | `Spec => []AnnouncedOnce` |
| `PhoneProofs!FamilyAlwaysChain` | `Spec => []FamilyIsChain` |
| `…!RevocationAlwaysComplete` | `Spec => []RevocationComplete` |
| `…!NothingEverLost` | `QueueSpec => []NothingLost` |
| `…!FiledAtMostOnce` | `QueueSpec => []FiledOnce` |
| `…!PhotosAlwaysSurvive` | `QueueSpec => []PhotosSurvive` |
| `PhotoPipelineProofs!AlwaysPublishedClean` | `Spec => []PublishedClean` |
| `…!AlwaysOneWorkerPerPhoto` | `Spec => []OneWorkerPerPhoto` |
| `…!SlotsAlwaysBounded` | `Spec => []SlotsBounded` |
| `…!KeptPhotosAlwaysIntact` | `RetentionSpec => []KeptPhotosIntact` |
| `…!CleanerKeepsTurns` | `RetentionSpec => [](OneWorkerPerPhoto /\ SlotsBounded)` |
| `RiskNotifierProofs!SilenceAlwaysEarned` | `Spec => []SilenceEarned` |
| `…!QuietHoursAlwaysKept` | `Spec => []QuietHoursKept` |
| `…!EachAlertOnce` | `Spec => NeverTwiceWithoutFault` |
| `RiskAssessmentProofs!RiverAlwaysInTime` | `Spec => []RiverInTime` |
| `…!ConfidenceAlwaysHonest` | `Spec => []ConfidenceHonest` |
| `…!DeviceWeatherAlwaysScored` | `Spec => []DeviceWeatherScored` |
| `ServiceProofs!SchemaAlwaysInStep` | `Spec => []SchemaInStep` |
| `…!NothingEverRefused` | `Spec => []NothingRefused` |
| `…!AlwaysOneAccountPerPhone` | `Spec => []OneAccountPerPhone` |
| `…!ReportsAlwaysLimited` | `Spec => []ReportsLimited` |

**Curation.** The inductive invariant `Inv` is TypeOK, FlatDuplicates, AuditTrail and three
conjuncts that the properties do not state: `Chronology` (nothing is dated after the clock, a request is open only
until its report is stored, only stored reports have events), `RowLocks` (one transaction holds a row, and what it read of the row is what the
row still says, because no other writer passes its lock; the event it appends needs that to chain),
and `VerifierTargets` (a run works on stored originals, so that it verifies nothing else). Each has one lemma per group of actions. The
action property and the refinement follow from `Inv` step by step: a step maps to the abstract
action of its commit, or to a stutter.

`EvidenceInv` is a second invariant, over the first: a verified report has its witness (a report of another
account, of the same event, near by) or its reporter's record with a photo; a run that has counted accounts, or goes
to record a score that suffices, had it when it counted. The evidence must therefore outlive what happens between
the two queries, the score and the guarded UPDATE, which it does because rows and photos stay and the log of a report
that a person verified only grows. `ScoreNeedsEvidence` is about the score itself: without another account 45 points are
all there is unless both a photo and a verified report count.

**Weather.** `BreakerInv` strengthens SingleProbe: while the circuit is open no probe is out and every
fetch still under way ends before the cooldown does, so that no call from before it opened reports
during a probe. This is where `TimeoutAssumption` (fetch timeout < cooldown, the defaults 15 s <
30 s) is needed. `CallersInv` ties what a caller has captured, waits for and was told to the
cache, and gives the monotonicity of answers across an eviction. `RequestsBounded` needs to know how
tokens, retries and time hang together. For every `d`, `FetchesPaid` bounds the fetches started in the last `d + 1` ticks
and the tokens that are left by a full bucket and `d` refills. For every `j`, `RequestsPaid` bounds the requests of the
last `j` ticks, the attempts that fetches under way have left and what the tokens could still buy by `Attempts` times a
full bucket and `j + FetchTimeout - 2` refills: a fetch that starts turns a token into attempts, a retry turns an
attempt into a request, a tick moves `j` to `j + 1`, and `j = 1` follows from `FetchesPaid`. Requests and attempts are
counted as sets of pairs (tick and number, cell and attempt), so that sums are cardinalities and no induction is needed.

**County.** Two invariants, one per half of the module. The desk's says that what a responder's
transaction read of the row is what the row still says, because it holds the row's lock; the trail then chains,
and a response is in scope when it commits. The outbox's counts, per report, posts that reached the county
against faults: `received + Outstanding + Cardinality(Stray) <= 1 + faults`, where `Outstanding` is 1 unless the
report is delivered or its post only waits to be recorded, and `Stray` are runs that lost the lock just before a
post. A post moves one unit from the second or third term to the first, and only a fault makes one.

**Tokens.** `RefreshInv` says what a refresh under way holds (the old token is revoked by it, under a lock),
`ChainInv` the shape of a family, and `RevokeInv` that what a revoking statement was to revoke
and is still good is in the set it scanned.

**Photos.** `CleanInv` ties what a worker carries and has stored to what it scanned. `LeaseInv` says that as long
as no worker outlived its lease, what a worker claimed is what the row still says: status processing, locked for
as long as `left`, and held by no other worker. `SlotInv` counts rows and the slot a transaction is about to fill, under the report's lock. The
doubling backoff (`2^n`) is left without a type, since no property needs it.

**Retention.** Its invariant is the pipeline's with the images of the photos that are spared (`SparedInv`: not of an expired
report, nor overrun by a late worker), `ReportsInv` (with a report its duplicates expire; a report that is gone is
nobody's duplicate) and `FoundInv`: what the cleaner has selected is condemned or doomed, and stays so through every
statement of clients, processors and moderators until its rows go. The cleaner's steps therefore touch nothing that is
spared, and the pipeline's own properties survive the cleaner (`CleanerKeepsTurns`).

**Queue.** Any copy of the stored queue may be written back: the stored one, the flush's list, and what the flush or the
composer has read to change. `CopiesInv` says of each of them that a report has one item and that each item is honest: the
id it has for a report was given by the server, and the photos it no longer lists are held or were refused. `UiInv` and
`FlushInv` tie the composer's submission and the change under way to the items. `FiledInv` then says that whoever has no id
for a report whose record is in order may create it, because nobody has; `LostInv` that what the composer confirmed
is in the queue or is filed with all its photos, unless it was given up or overwritten. The module's names carry the prefix
`Queue` (`QueueInit`, `QueueNext`, `QueueSpec`) because its proofs share a module with those of the tokens.

**Notifier.** `Inv` says that rows, the snapshots of runs and the level a run is about to write say no more than what was
told: the strongest alert only grows, and no id of a subscription comes back, so that old snapshots stay true of what they
name. A run that is about to push decided so outside quiet hours; a lemma shows that a window of hours, counted round the
clock, is what `Contains` compares. `OnceInv` holds only until the first fault: there is one run, under the lock, and
for each alert that may not be repeated yet, of a level a row asks for, the row and the run's snapshot of it record that level
and are no older, except for the one subscription whose push is not recorded yet. The snapshot may say more than the row (the user reset it by
changing place or threshold, and the alert with it), never less.

**Risk.** A discharge that a lookup holds is at most `RiverStaleFor` old, and one more once the tick of the
request has passed; to keep that the invariant says which entries a failing lookup writes to. `ConfidenceHonest` needs no
invariant of the requests but the arithmetic of the slices: without a reason for a low confidence the hour is found, the
series reaches `ForecastHours` beyond it and `HistoryHours` back, and then what `HoursAfter` and `PreviousHours` cut out, clamps
included, is entry by entry the rain of the hours that the reference sums. The soil moisture found is that of an hour of the
series not after the present one, and the river is one of those within the age of `RiverInTime`. (The forecast matters to the history as well:
`HistoryShort` alone does not see a series that ends before the hour under way.) `DeviceWeatherScored`: series as long as the
hours cannot end before a window of the hour found among them, nor before one counted from their end.

**Service.** Under the advisory lock the migrations done are a prefix, and each process's place in `Migrate` is
within it (`Done`, `StepInv`), through commits by others and rollbacks; an instance that serves has passed
the end of its list or has checked. `DrainInv`: for an instance that drains and is still routed,
`left + unpolled >= DrainDelay`, which with `HealthInterval < DrainDelay` leaves it unrouted when it closes.
`AccountInv`: an account exists exactly when the transaction that links it has committed. `ReportsLimited` is,
with the types, inductive as it stands, for any set of requests under way at once: a request that counted too few moves from those about to store to the reports, and only a count
below the limit lets another one go on.

**Only model-checked:** liveness (EventuallyVerified, both EventuallySettled, EventuallyErased,
EventuallyAlerted, EventuallyComplete, EventuallyEmptied): liveness under fairness is beyond the prover, and so is
induction over data (what `Total` or `Median` compute is not unfolded in any proof). No module with a theorem uses a recursive
operator.

## 5. What is left

A model of the phone's session (`authClient.ts`) composed with `AuthTokens`.

**Not modelled.** The phone's session (shared refresh, logout, re-registration), whose server side is
`AuthTokens`; the cache of subscriptions on the phone; the background refresh, which overwrites one cache entry; web
frontend, screens and shared client package (presentation over the API); open data (read-only queries); configuration (its
range checks are assumptions here); logging and metrics; image decoding and virus scan (pure functions, of
which only the verdict matters); backtest (floating-point statistics offline). Within the modelled components: deletion
of an account is part of `AuthTokens` but not of `ReportCuration`; listings change nothing; validation of
input is the set of inputs; menus and texts of the channels.
