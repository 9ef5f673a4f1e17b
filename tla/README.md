# EnergyIQ API: verification project

EnergyIQ is a NestJS service for owners of solar inverters. It polls the
inverters' vendors for metrics, streams them to browsers, raises alerts over
WhatsApp and e-mail, computes (recurring) reports in the background, and keeps
the accounts, sessions and teams of its users. Its state is in PostgreSQL
(TypeORM), Redis (pub/sub, blacklists, one-time passwords) and BullMQ queues;
several instances of the process may run, and within one process every `await`
lets other handlers run.

Almost everything that is hard to get right here happens between two awaits: a
row is read, another handler changes it, and the first one acts on what it saw.
The modules in this directory therefore take **one action per step between two
awaits** (or one per SQL statement, queue operation or message), and let TLC
interleave them. Data that no property tells apart (what a report contains,
wording, formatting) is left out.

## 1. Inventory

Paths are relative to `src/src/modules/` unless they begin with `src/`.

| component | state it keeps | operations | hard behaviour | what makes it correct |
|---|---|---|---|---|
| Report pipeline (`reports/`) | `reports` rows; one compute job per row | generate, compute with claim / write-back / catch, next occurrence of a series, recovery cron, cancel, delete | claim races, retries, crashes, failing statements, a cron that resets what a live worker computes | one worker at a time per report, one occurrence of a series under way, FAILED on the last attempt only, final states are final, nothing is left behind |
| Job queue (BullMQ, external) | jobs, attempts, locks, stalled counts | add, lock, complete, fail, stalled check | a job may run twice at a time and more often than `attempts` | (environment) |
| Alert detection (`alerts/jobs/alert-detection.job.ts`, `helpers/duplicate-suppression.ts`) | `alerts` rows | evaluate a metric, duplicate check, save, enqueue, resolve | check and save are separate; cooldown, severity upgrade and resolution interact | no alert of the same kind and no higher severity within a cooldown |
| Alert dispatch (`alerts/jobs/alert-dispatch.processor.ts`, `fallback.service.ts`, `email/`) | status columns of `alerts`, mail jobs | load, mark, WhatsApp, else a mail job, record; run a mail job | whole-entity saves, retries times channels times retries of the mail job, deferred jobs | delivered means the user got a message or a mail job saw to it to the last; a message is repeated for a reason only; every alert is dispatched |
| Quiet hours (`alerts/helpers/quiet-hours.ts`) | the user's settings | conversion to UTC, window test, delay of a deferred job | midnight, time zones, the 00:00-00:00 sentinel | agreement with the user's own clock |
| Alert thresholds, depletion engine (`alerts/helpers/`) | none | severity of a metric | boundaries, rounding, missing readings | the time left decides; a worse situation is not judged milder or reported later |
| Metrics poller (`metrics-stream/poller/`) | in-memory arrays, failure counts; `inverters.is_offline`; offline alerts | start-up, control messages, polls, offline alert | lost or duplicated control messages, restart, a failing database in the try block of a fetch | polled once per interval, offline after three failures, one offline alert an hour |
| Inverter registration (`inverters/inverters.service.ts`) | `inverters` rows | connect, deactivate | row and message are two steps | what the poller tracks follows the rows (in `MetricsPoller`) |
| Metrics pub/sub and live stream (`metrics-stream/pubsub`, `metrics-stream.service.ts`) | per channel an entry with callbacks, error listeners, the subscription at Redis; SSE streams | connect, snapshot, subscribe, unsubscribe, receive, close | awaits between the bookkeeping and Redis, clients that go away in them, a connection that fails | an open stream is registered and fed, a closed one leaves nothing |
| Sessions (`auth/auth.service.ts`, `users/users.service.ts`, `users/actions/sessions.action.ts`, `auth/strategies/jwt.strategy.ts`) | `user_sessions` row, blacklist | login, refresh by compare-and-swap, guard, logout, expiry | concurrent refreshes, lost answers, failing Redis, sliding against absolute expiry | a token is redeemed once, over is over, nobody comes in after a logout or thirty days |
| Registration, OTP, password reset (`auth/auth.service.ts`, `users/users.service.ts`, `email/`) | the user's row, Redis cells with expiry, the mail queue | register, verify, resend, forgot, reset, login, Google | read-then-write counters, check-then-delete tokens, late mails | a spent code does nothing, guesses are limited |
| Shared report links (`reports.service.ts`, `action/uploaded-report.action.ts`) | `uploaded_reports` row, delayed delete jobs, files at Cloudinary | upload and share, follow, expire, delete | file, row and job are three systems without a common transaction | a link leads to its file until it expires; no file is kept that nobody needs |
| Team access (`team-access/`, `src/src/common/guards/inverter-role.guard.ts`) | `inverter_members` rows | invite, accept, change role, revoke | invites that race with acceptance and revocation | `TeamAccess` |
| Profile images (`users/actions/`, `common/`) | `profile_images` row, files at Cloudinary | upload and replace | a file outlives a transaction that rolls back | the image a user sees is stored |
| Chatbot (`chatbot/chat.service.ts`) | `chats`, `messages`, a stream per message | start, send and stream, delete | exchanges of one chat run side by side | every message the bot types at is answered, with a reply to it |
| Metrics analytics (`inverters-metrics/`, `chatbot/agent-tools/`) | none of its own | aggregates over stored metrics, insights, health | three copies of the queries, two clocks, ends of weeks and months | the parts add up, the copies agree, insights and alerts do not contradict each other |
| Windows of recurring reports (`reports/`) | reference dates of a series | due time, energy window, alert window | late deliveries, months of different length | nothing is counted twice, too early or not at all |
| Notifications (`notification/`) | notifications, device tokens, push jobs | create, push | (nothing calls `create` yet) | not modelled (section 7) |
| Inverter adapters, e-mail templates, WhatsApp client, waitlist, contact, health, common code, configuration, migrations | none, or single inserts | HTTP calls to vendors, templates | none beyond answering or failing | not modelled (section 7) |

How they interact: `InvertersService` writes rows and publishes control
messages that the poller consumes; the poller stores metrics, publishes them on
`inverter:<id>` (consumed by the live stream and by `AlertDetectionJob`) and
raises offline alerts; both alert sources save rows and enqueue dispatch jobs
whose processor sends WhatsApp messages or enqueues e-mails; reports use two
queues of their own, and take their numbers from the analytics; the agent of the
chat has its own copy of those; every HTTP handler runs behind the session guard.

## 2. Modules

| module | models | composes |
|---|---|---|
| `BullQueue` | the jobs of one BullMQ queue, external: one job per identity, with attempts, a lock and a count of stalls | |
| `ReportPipeline` | the report pipeline | `INSTANCE BullQueue` (jobs are the reports) |
| `ReportLifecycle` | the abstract promise of the reports API: the life of one row as a client that polls it may see it | refined by `ReportPipeline` |
| `AlertPipeline` | alert detection and dispatch, and the mail jobs it adds | `INSTANCE BullQueue` (jobs are the alerts) |
| `QuietHours` | quiet hours and the delay of deferred jobs | |
| `AlertRules` | the depletion engine and the thresholds, as operators | |
| `AlertDecision` | what `evaluateInverter` decides for a metric | extends `AlertRules` and `QuietHours` |
| `MetricsPoller` | the poller with the registration of inverters | |
| `Sessions` | a login session | |
| `TeamAccess` | shared access to one inverter: invites, acceptance, roles, revocation | |
| `Accounts` | the account of one address: codes, tokens, mails | |
| `MetricsStream` | one channel of the pub/sub service and its SSE streams | |
| `ReportSharing` | the link of one report: uploads, readers, delete jobs | |
| `ProfileImages` | the profile image of one user | |
| `Chat` | one chat and its exchanges | |
| `Calendar` | days, weeks and months on the server's clock and on that of Lagos | |
| `Analytics` | the queries over stored readings, each an operator | extends `Calendar` |
| `ReportSeries` | the windows of time the reports of a series cover | extends `Calendar` |
| `SystemInsights` | insights of the agent's tool and the health colour, for one metric | extends `AlertDecision` |
| `ReportPipelineProofs`, `AlertPipelineProofs`, `TeamAccessProofs` | theorems and proofs | extend the module named |
| `AuthProofs` | theorems and proofs on sessions and accounts | extends `Sessions` and `Accounts` |
| `AlertDecisionProofs` | theorems and proofs on quiet hours, decisions and insights | extends `SystemInsights` |
| `AnalyticsProofs` | theorems and proofs on series and analytics, and on sums over finite sets | extends `MCReadings` |
| `MetricsPollerProofs` | theorems and proofs on the poller, the live stream and the chat | extends `MetricsPoller`, `MetricsStream` and `Chat` |
| `ReportSharingProofs` | theorems and proofs on links and profile images | extends `ReportSharing` and `ProfileImages` |
| `MCReportPipeline` | symmetry for TLC | extends `ReportPipeline` |
| `MCAlertPipeline`, `MCMetricsPoller` | scenarios of the module: with faults, without (`calm`), and for the poller overlapping polls | `INSTANCE` it for the other scenarios |
| `MCSessions` | parts `session`, `sharing`, `picture` | `Sessions`, `ReportSharing`, `ProfileImages` |
| `MCTeamAccess` | parts `members`, `account` | `TeamAccess`, `Accounts` |
| `MCLive` | parts `reports`, `stream`, `chat`: liveness | `ReportPipeline`, `MetricsStream`, `Chat` |
| `MCReadings` | parts `metric`, `analytics`, `series` | `SystemInsights`, `Analytics`, `ReportSeries` |

The parts or scenarios of an MC module share a run and no state. The part is
chosen in the initial state, the variables of the others do not move, so that
their state spaces add up and are not multiplied.

### How state and actions correspond to the code

**ReportPipeline.** A row is an element of `Reports` (a uuid, never reused) with
`status`, its series (`request`), its `occurrence` and whether `updated_at` has
passed the cron's threshold (`stale`, set by `Age`). A worker's `phase` names
the await at which `handleComputeReport` is:
`Read` (findOne), `Claim` (the conditional UPDATE), `Reload` (the read-back
inside `updateReportStatus`), `Compute`, `WriteReady`, `CreateNext` and
`EnqueueNext` (`generateNewSeriesReport`), `Finish`, `Catch` and `Throw` (the
two catch blocks). `ResetStalled` is the cron's one UPDATE. `Generate` and
`Enqueue` are the two steps of `generateReport`; `Cancel` is a conditional
UPDATE; `DeleteCheck` and `Delete` are the check and the statement of
`deleteReports`, between which anything may happen. Every statement may succeed,
fail without effect (`dbError`), or commit and report an error (`lostAck`).

**AlertPipeline.** Rows are numbered in the order of `createdAt`. `Check`,
`Save` and `EnqueueDispatch` are the three steps of `saveAndDispatchAlert`;
`Load`, `Mark`, `Send` (per channel) and `Record` those of `handleDispatch`,
each save writing back the columns the entity was loaded with. `cooling` holds
the alerts younger than the user's cooldown (it shrinks in the order of
`createdAt`), `held` the jobs delayed to the end of the quiet hours. What `Send` passes
on is told apart by its channel (`HandOver`): a WhatsApp message has reached the user
(`texts`), while `sendAlert` only adds a job to the e-mail queue (`mails`). `RunMail` is
one run of `EmailProcessor` on it: Resend takes the mail (`MailSent`), returns an error
that the run throws, which uses up one of the job's attempts (`MailRefused`), or the run
loses its lock (`MailStalled`); `mailed` counts the mails the user got. A run reads and
writes nothing that another step does, so it is one step. Nothing comes back from a mail
job to the row of its alert. `errors` and `mailErrors` are history variables, no state of the
code: how many steps of an alert's dispatch, and how many runs of its mail jobs, met an
error, which is what the properties excuse repeated messages with.

**QuietHours.** Times of day are minutes; `ConvertToUTC`, `IsWithinQuietHours`,
`DeferAt` and `Delay` are the functions of the code. The state is the settings
and the time, both of which change freely.

**AlertRules, AlertDecision.** Powers and capacities are hundredths of a kW and
kWh and minutes until depletion hundredths of a minute, so that `Math.round(minutes * 100)`
is an integer division; ratios are compared without dividing, where the code
compares floating-point quotients. `Severity` is what the three rules say of a
metric, `DueIn` when its dispatch job may run. A state is one evaluation, a step
what may change before the next one (a metric, the clock, the settings, the row
of the inverter); `null` readings are `NoReading`.

**MetricsPoller.** `tracked[i]` is the number of entries of inverter `i` in the
arrays, `mail` the control messages in flight to this process, `registering`
the `inverter:registered` handlers that wait for their query. A poll is `Fetch`
(answers or throws), `MarkOnline`, `PersistAndPublish`, or `Fail`,
`MarkOffline` and the steps of `fireInverterOfflineAlert`. `streak` is a history
variable: the fetches of an inverter that failed since one succeeded, or `Unclear`
from when its polls overlap, are cut off by a restart or meet a failing `markOnline`
until it answers the only poll of it.

**Sessions.** A request is a refresh, a logout or any other use of an access
token, in its steps: `CheckBlacklist`, `ReadSession`, validation (`Live`,
`Expire`), then `SignTokens` and `SwapHash`, or `Authenticate` and `Handle`, or
`Blacklist` and `Deactivate`. Token *n* is the *n*-th pair signed.

**TeamAccess.** The rows of `inverter_members` for one inverter; a person stands
for the address and for the user of that address. A request is `Guard`
(`InverterRoleGuard`), then `FindExisting` and `Create`, or `ReInvite` and
`Reload`, or `Refresh`, `UpdateRole`, `Revoke`; an acceptance is `Check`,
`Register` for a person without an account, and `Activate`, which writes by id
alone as the code does. `Mail` and the answers put a token into `known`, from
where acceptances take theirs. `Fail` may end any request between two steps. A
row is found by the reads of `get` in any order when there are several.

**Accounts.** The cells of Redis (`otp`, `otpAttempts`, `resendAttempts`,
`resetToken`) are set, counted and deleted one call at a time and expire by
`ExpireCell`; a code and its hash are one number. Mails are jobs of a queue that
`ProcessMail` delivers in any order or loses after its last attempt; a client
takes codes from `inbox`, or guesses. A `call` is a request in its steps;
`Abort` is a call to Redis, the database or the queue that throws. `late` marks a
request that began after its code was spent.

**MetricsStream.** `ConnectStream`, `Snapshot`, `Subscribe` (`SubscribeAnew` or joining
an entry), `Unsubscribe` and `Close` are the steps of `streamMetrics`, between
which the client may leave (`Disconnect`, `CloseEnded`). Commands go to Redis in
`toRedis` and come back as answers and messages in `fromRedis`, both in order:
`RedisRuns`, `ReceiveSubscribed`, `ReceiveMessage`. `RedisError` reaches the
listeners of the connection and ends their streams; when nothing listens the
process goes down (`RedisErrorUnheard`).

**ReportSharing.** An upload is a request for a link: `StoreFile`, then in one
transaction `UpsertRow` or `InsertRow`, then `Unschedule` and `Unlink` the
replaced upload, `Schedule` its own delete job, `NoteJob` in the row; `Discard`
takes the file back when the transaction failed, `Die` ends the process. A
reader's `Follow` counts the download from the value it has read, or finds the
link expired and deletes like a job does: `CheckRow`, `Destroy`, `EraseRow`.

**ProfileImages.** `Upload`, `Select` and `Insert` (the transaction), `Unlink`
the former picture, `Discard` the new one after a rollback.

**Chat.** `CreateChat` and `SaveOpening` start a chat, `DeleteChat` deletes it
with its messages. An exchange is `FindChat`, `SavePrompt`, `LoadContext`,
`Stream` (the model replies to the last message it was given, or fails),
`SaveReply`; `EmitCards` runs beside it.

**Calendar, Analytics, SystemInsights, ReportSeries.** Times are half hours since
1 January 2026; the calendar is a constant, the day each month starts with. Every handler of `inverters-metrics` only reads, so each is an
operator of the stored readings, the settings and the time, and a state is one
set of them; sums are kept as integers over 600 and nothing is rounded. The HTTP
routes, the agent's tool and the reports have copies of the queries, each
translated on its own. A series is the reference date, the due time and the
delivery of each of its reports, delivered at any time after it is due.

Definitions marked *Faulty variant* in comments are what plausible bugs would
make of a definition; each of them makes TLC refute a property that holds of the
code, which shows that the property says something.

## 3. What each run checks

| run | expects | shows |
|---|---|---|
| `report_crash` | pass | With a crash, failing statements, a failing queue and lost locks: `SingleClaim`, `OneOpenOccurrence`, `CancelledIsFinal`, and the pipeline implements `ReportLifecycle`. Acknowledgements are not lost here: a lost one turns READY back into PENDING, which a client may see. |
| `report_slow` | pass | With slow workers, lost acknowledgements and lost locks a report may be computed twice and its attempts be used up by claims that fail; it is FAILED on the last one only (`FailedOnLastAttempt`). |
| `report_orphan` | violation | `OrphanIsRetried`, what the comments of the recovery cron say. See section 6. |
| `alert_delivery` | pass | Two workers, the mail jobs and every fault: when a row says delivered or its job is completed, the user got a message, or a mail job is still to run or was given up (`DeliveredWasPassedOn`); what is passed on is bounded, and the user gets more than one message, text or mail, only for an error or a stall (`SentSeldom`); and a delivered alert whose dispatch was not disturbed stays delivered (`DeliveredSticks`). As metrics are evaluated one at a time, alerts of a kind in one cooldown become more severe one by one (`SerialCooldownRespected`; the scenario without faults has two alerts). Without faults every alert is dispatched, the deferred ones included (`CalmDispatched`), and a delivered one reaches the user unless Resend refuses every attempt of its mail job (`CalmReached`). |
| `alert_resolve` | violation | `ResolutionSticks`. See section 6. |
| `poller` | pass | One poll at a time with a restart, lost messages, another instance and a failing database: `PolledOnce`, `SerialOneOfflineAlertPerHour`, offline means three failures in a row (`OfflineAfterThree`). Polls of one inverter that overlap, with failing statements: the same. Two polls without faults: the arrays follow the rows in the end (`CalmConnectedIsTracked`, `CalmDeactivatedIsDropped`). |
| `session_faults` | pass | Session, with concurrent requests, a failing database and Redis, lost answers: `RedeemedOnce`, `OverIsFinal`, and no request that begins after a logout or after thirty days is let through (`LateIsRefused`). Link: `LinkLeadsToFile` whatever fails, `FilesAccountedFor` when nothing did. Picture: `PictureIsThere`. |
| `team_access` | pass | Members, with invitations, acceptances, role changes and revocations that race and fail: `LateAcceptIsRefused`, `ActiveUntilRevoked`. Account, with requests that race and fail and mails in any order: `LateCodeIsRefused`, and `CalmGuessesLimited` while verifications come one at a time. |
| `live` | pass | However slow its workers, every report settles and its series goes on (`Settles`, `SeriesContinues`), and until then somebody is about to see to it (`NothingStranded`). A stream's callbacks, listeners and subscription agree and it is fed although Redis fails once (`RegisteredWhileOpen`, `OpenIsFed`). Every message of a chat is answered, by a reply to it unless another came between (`PromptIsAnswered`). |
| `readings` | pass | `QuietByLocalClock`, `DeferredToEndOfWindow`: the window in UTC agrees with the user's clock, and deferral ends at the first minute after it. `JudgedByTimeLeft`: the severity is what running the battery down shows. `WorseIsNotLater`: more load, less charge or less sun is not judged milder or reported later. `AlertIsShown`: the agent's insights and the dashboard's colour do not contradict an alert. `ReadingsAddUp`: weeks, months, ranges and a lifetime are the sums of their parts, a range the wrong way is refused, and the copies of the queries agree. `SeriesCoversTime`: no report counts what another has, none covers time to come, and a punctual series leaves no gap. |
| `dashboard` | violation | `DashboardUsesHourlyFraction`. See section 6. |
| `insights` | violation | `NullIsNotDraining`. See section 6. |

Deadlock is not checked where the system may stop: reports, alerts, tokens and
crashes are bounded, so a model may run out of things to do.

### Bounds and why they are enough

- Reports: a weekly report and its successor (in `report_slow` one spare row, so
  that a second successor could be created); two workers, because every race is between two
  holders of one job; `MaxAttempts = 3` as in `attempts: 3` (two in `report_slow`, where the
  last is the second), one stall as in
  BullMQ's default `maxStalledCount`; one crash.
- Alerts: dispatch concerns one alert at a time, so the scenario with faults has
  one alert, two workers and one crash, two attempts of each job instead of three, and at most three
  errors and stalls on the way of the alert (`MaxTroubles`), one more than the attempts of a job;
  nobody resolves it there and its cooldown does not end, for neither
  touches its dispatch. Without faults each job has one worker at a time, so the calm
  scenario has one (`CalmWorkers`), while Resend may refuse a mail there too; suppression compares a new alert with the
  last one, so the calm one has two alerts of a kind with two severities.
- Alert decisions: readings on both sides of every threshold for two sizes of
  arrays (a depletion time of exactly 60.00 minutes included), capacities of
  zero, of a misconfigured row and of 2 kWh; quiet hours within a day, over
  midnight and empty, in time zones on both sides of UTC. The properties of
  `QuietHours` and `AlertDecision` are proved without these bounds.
- Analytics: six readings around the midnights of both clocks and the turns of a
  week and a month, any subset of them stored, with powers whose sums differ for
  any two subsets; nine times at which to ask; no settings row, a row without
  a price and one without a rating; ranges shown by hour, day, week and month.
  One range is asked for the wrong way. The server runs on UTC; on which other clocks the
  sums hold is part of the theorem.
- Series: three reports, so that a late delivery moves the window of two others;
  reference dates on a first of the month and in the middle of one. The calendar
  is that of 2026 (`MCFirstOfMonth`); the proofs hold for any in which months follow each other.
- Poller: two inverters (one connected at start); one poll with a restart and
  the other faults, two polls without; and two polls of one inverter that overlap.
- Sessions: two requests at a time, each of any kind and any number of times
  one after another; three pairs of tokens, so that a token may be stale by two
  rotations; windows of 2 and 3 units, so that the cap cuts the second
  extension short.
- Links and pictures: three uploads, so that one that is replaced races with its
  successor's successor; one reader, two attempts of a delete job, one failure
  anywhere.
- Stream: two streams, because the races are between the last that leaves and
  the next that comes; two metrics; one failure of Redis.
- Chat: two messages and the opening, a context of two, one failing statement.
- Accounts: one address, two requests at a time, two codes, so that one replaces
  another; two attempts instead of five.
- Team access: one person beside the owner, who may become an admin and then
  acts on the membership like the owner does; two requests at a time, any number
  one after another; two rows, which takes two racing invitations; three tokens,
  so that a row is re-invited twice.

### Fairness

Liveness is checked with weak fairness of: the steps of handlers that have been
called (the event loop runs them, the database and Redis answer), idle workers
taking waiting jobs and the stalled check (BullMQ), the recovery cron, the
polling interval and what it publishes, the end of quiet hours, the language
model (the call ends or throws). Users, metrics and faults owe nothing: no
fairness on `Generate`, `Cancel`, `Delete`'s check, `Evaluate`, `Resolve`,
`ConnectStream`, `Disconnect`, `FindChat`, `DeleteChat`, `Crash`, `Stall` of a lost lock,
`RedisError`. The scenarios of reports, alerts and the poller that are checked
for liveness have no faults, because with them the properties are false of this
code: a failing `queue.add` leaves a PENDING report without a job and a saved
alert without a dispatch. Those of the stream and the chat have one.

## 4. What is proved

The theorems hold for all values of the constants that satisfy the named
assumptions (any number of reports, workers, requests, tokens, attempts; any
set of faults unless the theorem says otherwise).

- `ReportPipelineProofs!TypeCorrect`, whatever fails, slow workers included.
- `ReportPipelineProofs!ClaimExclusive` (`SingleClaim`) and `CancelFinal`
  (`CancelledIsFinal`), for prompt workers. Neither invariant is inductive on its
  own: the strengthening says that the row of a report some worker holds is
  PROCESSING or DELETED and not stale, and that its holder is unique. The claim
  needs PENDING, so it finds no holder; the cron needs a stale row, so it spares
  held ones; a cancellation needs PENDING, so it never meets a holder.
- `ReportPipelineProofs!FailedLate` (`FailedOnLastAttempt`, whatever fails): a
  worker's copy of the number of attempts is at most that of the queue, so what
  it takes for the last attempt is the last.
- `ReportPipelineProofs!OneOpen` (`OneOpenOccurrence`) and `Implementation`
  (`Spec => ReportLifecycle!Spec`), for prompt workers and no lost
  acknowledgements. A series has one report at its frontier: only a claimed one
  that is PROCESSING or DELETED can write READY and then create its successor, so
  all others are settled.
- `ReportPipelineProofs!NobodyIsStranded` (`NothingStranded`), if nothing fails but workers
  may be slow: every unsettled report has somebody to see to it, and so has every
  missing successor. This is the safety half of `Settles` and `SeriesContinues`. A
  worker that runs has the lock of its job, and an active job such a worker (`HandInv`);
  the await the worker is at says what the row can be (`OutcomeInv`); and a row
  that is not settled has its job (`RowInv`).
- `AlertPipelineProofs!DeliveryIsReal` (`DeliveredWasPassedOn`) and `TypeCorrect`,
  for all faults, workers and attempts: a worker's copy of an alert says delivered
  only if a text went out or a mail job was added, and stays true because neither is taken
  back; a worker that is about to complete its job knows of a delivered alert. A mail
  job that is over has reached the user or was given up after its last attempt or
  stall (`MailInv`).
- `AlertPipelineProofs!RisingSeverity` (`SerialCooldownRespected`), whatever fails. The
  alerts in their cooldown are the latest rows, every kind that has rows has a latest
  one, and an evaluation past its check is more severe than all alerts in their
  cooldown of its kind. The check looks at the latest row alone; that it is enough
  follows from the order of the others.
- `AlertPipelineProofs!SendsStayBounded` (`SendsBounded`, the first half of
  `SentSeldom`), for any faults, workers and attempts. A run of the dispatch may pass on one
  message, text or mail job, or two if a channel may fail after its message. The messages
  passed on, and those the runs in hand may still pass on, are at most those of the runs BullMQ has paid
  for: each but the one in hand by an attempt or a stall. Runs that have not come to
  the last channel and those that have are counted as cardinalities (`Early`, `AtLast`).
- `AlertPipelineProofs!MessagesRepeatForAReason` (`SentSeldom`), for the same. First, mails
  are at most the mail jobs and their errors: each run beyond the first of a job follows an
  error (`MailInv`). Second, the texts and mail jobs of an alert, the runs in hand that may still send or make BullMQ try again, and the run
  that is queued are together at most one more than the errors and stalls of its dispatch: a run that ends
  without a message hands its place to the next one, and one that ends in an error or a
  stall adds a place.
- `AlertPipelineProofs!DeliveryIsFinal` (`DeliveredSticks`), for the same. While neither an
  error nor a stall has disturbed the dispatch of an alert, its job is in one pair of
  hands; they never loaded the row of a delivered alert, and have nothing to do but to
  finish once it is delivered, so that none of the saves of the whole entity is left to
  come.
- `AlertPipelineProofs!AllAreSeenTo` (`NoneUnsent`), if no process dies, no acknowledgement
  is lost and `queue.add` succeeds: the safety half of `CalmDispatched`, with failing
  statements and late workers besides. Either the evaluation that saved an alert still has
  to enqueue it, or its job waits, or a worker has it in hand before the save of the
  outcome, or an outcome is in the row.
- `MetricsPollerProofs!PollOnce` (`PolledOnce`) and `TypeCorrect`: start-up fills the
  arrays from distinct rows before any message is handled, and a registration adds
  only what is missing after its query. The invariant adds that whatever is
  tracked, announced, registered or polled has been connected.
- `MetricsPollerProofs!OneAlert` (`SerialOneOfflineAlertPerHour`), whatever fails: only
  the last alert can be of the last hour, and none is when the poll is about to save
  another.
- `MetricsPollerProofs!OfflineIsEarned` (`OfflineAfterThree`), for any number of polls and
  whatever fails, overlapping polls included. As long as the streak of an inverter is
  clear, its counter is at most the streak of failed fetches, it has one poll at a time, and
  one that is about to mark it offline has counted three. An answer to the only poll of
  an inverter makes its streak clear again whatever happened before, because it resets the
  counter and leaves no poll that could mark it offline.
- `MetricsPollerProofs!AllArePolled` (`NoneForgotten`), for failing statements, restarts and
  overlapping polls, if messages arrive and no other instance serves while this one
  starts; and `NoneInVain` (`NonePolledInVain`), if nothing fails and nothing restarts.
  They are the safety halves of `CalmConnectedIsTracked` and `CalmDeactivatedIsDropped`.
  The first needs that a process that starts has neither messages nor requests, and that an
  inverter whose deregistration is on the way is not active; the second that an inverter
  the poller was started with is never registered again.
- `ReportSharingProofs!LinkHolds` (`LinkLeadsToFile`), for any uploads, readers
  and failures. The invariant has four parts: the shapes of the state; an upload
  before its commit has no job and no file but its own; a job or a reader that
  is past its check looks at an expired link; the last committed upload is the row's, and no
  request still has to unlink it.
- `ReportSharingProofs!FilesAccounted` (`FilesAccountedFor`). As long as nothing has
  failed, every file is the row's or has somebody who will delete it: its own
  request before the commit or after a lost race, or the request that replaced it.
  A file that a deletion has destroyed is gone before its row is erased. The row's
  upload has its delete job, because nobody unschedules a job but its successor:
  a job noted in a row belongs to a request that has ended, and one found in a
  replaced row is not that of the row's upload.
- `ReportSharingProofs!PictureStays` (`PictureIsThere`), for any pictures and
  failures. The requests that found no row and the pictures that no later request has
  found in the row are equally many, because each of the others takes the place of
  the picture it found; one of those pictures is the row's.
- `MetricsPollerProofs!Registered` (`RegisteredWhileOpen`), for any streams: a
  callback goes into an entry that exists, and the entry goes with its last callback.
  `Subscribed` (`SubscriptionFollows`), for the same: a command is sent for every change
  of the entry and commands run in order, so that the last one on its way, or Redis
  when there is none, agrees with the entry. With both, a message published to an
  open stream's channel reaches its callback, which is what `OpenIsFed` rests on.
- `MetricsPollerProofs!ChatEndsWell` (`EndsWell`) and `ChatTypes`, for any messages and
  errors: the safety half of `PromptIsAnswered`. As long as no other message came
  between, the message an exchange replies to is the last of the chat, then the last of
  what it has loaded, then the one the model is given.
- `AuthProofs!LateCodesFail` (`LateCodeIsRefused`), `GuessesBounded`
  (`CalmGuessesLimited`) and `AccountTypes`, for any clients, codes and attempts. What
  is stored is not spent, and what a late request carries is; a token that was mailed
  before it is stored is reserved for one request, so that storing it revives
  nothing. For the guesses: they are covered by the attempts that are stored and
  by the verification that is under way.
- `AlertDecisionProofs!QuietIsLocal` and `DeferralEnds`, for all times of the day
  and offsets of less than a day. Integer arithmetic modulo a day is reduced to
  cases without `%` by lemmas on the range of the operands.
- `AlertDecisionProofs!SeverityIsTimeLeft` (`JudgedByTimeLeft`) and
  `WorseNotLater` (`WorseIsNotLater`), for all readings, capacities, thresholds,
  times and offsets: the rounded quotient of the engine is monotone
  (`RoundedQuotient`), each rule is, and the due time depends on the severity
  alone while clock and settings stand still. `QuietUnderMetrics` carries the two
  theorems on quiet hours over.
- `AlertDecisionProofs!AlertShown` (`AlertIsShown`), for all readings with a charge of
  at most 100 percent, all capacities, thresholds, colours and times: above the
  cutoff an alert means a net load, and both estimates divide an energy by it, that
  of the insights the smaller one (`Estimates`, `Halves`).
- `AnalyticsProofs!SeriesCovers` (`SeriesCoversTime`) and `SeriesTypes`, for every
  calendar that reaches to the end of the month after each time, every server's clock,
  reference date and length of the series. The invariant (`InOrder`) says that no
  report is due before its period is over or delivered before it is due,
  and that the next one takes this delivery as its reference date; the periods of
  two reports then lie one after the other because weeks and months tile the time
  (`WeekBegins`, `MonthBegins`, `RangesFollow`).
- `AnalyticsProofs!ReadingsDoAddUp` (`ReadingsAddUp`), `AddsUp` and `AnalyticsTypes`, for any
  readings, brand, settings, ranges and calendar of twelve months in which they lie, if the
  server's clock is a whole number of hours ahead of UTC or on it (`OnTheHour`). First,
  the total of the rows is a measure of the readings alone, whatever the rows are
  (`TotalOfRows`): an hour lies in one row, because the hour of Lagos tells the day,
  the week and the month. Then the days of a range and the months of a calendar divide its
  readings, and no two of them have an hour in common (`DaysDivide`, `MonthsDivide`): this
  is where the server's clock matters. So the measures of the parts add up
  (`MeasureOfParts`), and with them litres and costs, which are multiples of the energy
  (`SavingsOfParts`). The facts about sums that this needs are proved from the fold of the
  library: its equation has one solution over the subsets of a finite set (`TableExists`,
  `TableUnique`), the order of the summands does not matter (`SumRemove`), and a
  sum is that of the sums over the parts (`SumOfParts`). The inductions are over the
  subsets of one finite set, and what holds of them is a set too, so that no operator is
  a parameter (`SubsetInduction`, from the least counterexample).
- `AuthProofs!RedeemOnce`, `OverFinal`, `LateRefused` and
  `SessionTypes`. The strengthening for `RedeemOnce`: the stored hash has not been
  redeemed, no signed token that is still to be stored equals another one or the
  stored one, and tokens are numbered below `signed`. For `LateRefused`: once
  ended, the row is inactive, and a late request that has read the row carries an inactive one
  or comes after the thirty days.
- `TeamAccessProofs!LateIsRefused`, `OnlyRevocationEnds` and
  `TypeCorrect`. The type invariant is strengthened by what a request knows in
  each phase (`Ready`). For `LateIsRefused`: the invite of a late acceptance is
  closed, and stays so, because whatever opens an invite draws a new token.

Every strengthening was checked with TLC before it was proved.

Left to TLC: liveness (fairness and ENABLED are beyond the prover), of which the safety
halves named above are proved; the type invariant of `MetricsStream`, whose `RedisError` drops
messages with `SelectSeq`, of which the prover knows no fact; and the properties of the runs
that find a disagreement. Each module states its type invariant; TLC found no violation of
any of them on the configurations of the runs. No module declares a RECURSIVE operator.

## 5. Plan

In this order, most important first:

1. *(done)* `BullQueue`, `ReportPipeline`, `ReportLifecycle`, the proofs of safety
   and of the refinement.
2. *(done)* `AlertPipeline` and the proof of `DeliveredWasPassedOn`; `QuietHours`,
   `AlertRules`, `AlertDecision` and their proofs.
3. *(done)* `MetricsPoller` and the proof of `PolledOnce`; `MetricsStream`.
4. *(done)* `Sessions`, `TeamAccess` and their proofs; `Accounts`.
5. *(done)* `ReportSharing` and its proofs; `ProfileImages`; `Chat`.
6. *(done)* `Calendar`, `Analytics`, `SystemInsights`, `ReportSeries`.
7. *(done)* the proofs about `Accounts`, `MetricsStream`, `ProfileImages` and
   `SystemInsights`.
8. *(done)* the proofs of the cooldown, of the number of messages and of the outcome that
   sticks in `AlertPipeline`, of the offline alert and the offline flag of `MetricsPoller`.
9. *(done)* the proofs about `ReportSeries` and `Chat`, and of the safety halves of the
   liveness properties.
10. *(done)* the facts about sums and the proof that the parts of the analytics add up.
11. Left: a module for notifications and push jobs, once something creates one.

## 6. Disagreements between the code and what is said of it

- **An orphaned report is not picked up again** (`report_orphan`).
  `report.action.ts:124` says that a report orphaned by a crash is reset "so the
  next scheduled job can pick it up again". The reset enqueues nothing. The job
  of the dead worker is re-delivered within seconds, finds the row PROCESSING,
  cannot claim it and throws `ConflictException` until its attempts are used up; when the
  cron resets the row later, no job is left for it.
- **A resolution can be undone by the dispatch** (`alert_resolve`). The
  dispatch saves the entity it loaded seconds earlier, with the resolution
  columns it saw.
- **Savings of today are zero** (`dashboard`). `inverters-metrics.service.ts:60`
  says of the scaled values that they are "the correct hourly fraction for kWh
  conversion". The three queries of the dashboard and `getEnergyUsage` write the
  quotient `50 / 600` into the SQL without a decimal point (line 204), where
  PostgreSQL divides integers; the other queries write `50.0 / 600`.
- **No estimate although the battery drains** (`insights`). The agent is told that
  without an estimate "the battery is not draining"
  (`system-insights-reader.ts:55`); at or below the cutoff charge there is no
  estimate whatever is drawn.

Met while modelling and not shown by a run of their own: `quiet-hours.ts:34`
says "Sentinel 00:00-00:00 = always quiet", but the caller passes times
converted to UTC, so that in another time zone the sentinel is an empty window;
a metric without a state of charge
(`shared.types.ts:28`: "null when no battery") is evaluated as a charge of zero
and fires a critical depletion alert as soon as anything is drawn;
a revocation that falls between the check and the write of an acceptance is
undone by it; a re-invitation sends no mail; two metrics evaluated
concurrently both pass the duplicate check (`CooldownRespected` fails
with two `Evaluators`); two inverters of one user that fail in the
same interval both alert (what
`SerialOneOfflineAlertPerHour` says fails with two `Polls`); a failing `markOnline` counts as a failed fetch (which is why `OfflineAfterThree` makes
an exception of it); a row says
delivered as soon as the mail job is added, and still says so when Resend has refused every attempt of
it (`email.processor.ts:383-391`): the user got nothing and nothing is tried again; the duplicate check looks at the latest alert only, so an
older unresolved one does not suppress; the offline alert's query is said to
look for an unresolved alert and has no such condition.

Reports and links: when the delete job cannot be enqueued the request fails
after its row is committed and the former file is gone
(`reports.service.ts:620`) with the new file discarded, so the row leads to no file
until the next upload; a report that was ever shared cannot be deleted, for
its `uploaded_reports` row refers to it; the window of a monthly report's alerts is 30 days
whatever the month; the end of a custom range is documented as exclusive and is
included.

Analytics: ranges are cut on the server's clock while rows are grouped on that of
Lagos (`inverters-metrics.service.ts:1352`); without a settings row the
price of fuel is not a number in one of the copies; the comment of `fuel.ts` on
interpolation does not describe what happens beyond the table.

Streams, chats and accounts: a stream that waits for Redis while another joins its
entry and leaves finds the entry gone and throws, with its response left open; one
whose client leaves during that wait is registered all the same and never
unregistered; the
context of a reply is loaded outside the `try` that would send the end of the
stream, so a failing query leaves the client waiting; "is always the current user
message" (`message.action.ts:25-27`) is false when two messages are sent at once;
two resets begun with one token both set a password; wrong codes of concurrent
verifications count once; reconnecting a deactivated sandbox inverter returns its
inactive row; device tokens are read without regard to `isActive`.

## 7. Not modelled

- Vendor adapters: HTTP clients without state; in `MetricsPoller` a fetch answers
  or throws, and what a vendor's fields mean is defined outside the repository.
- Notifications: nothing calls `NotificationService.create`, so no notification
  and no push job exists in a state the program reaches.
- Of the chatbot: `sendMessage`, which no gateway calls; the rooms of the sockets;
  the agent's tools beyond the queries that `Analytics` and `SystemInsights` have.
- Of the analytics: rounding, floating point, coverage, CO2 and averages.
- E-mail templates (the queue is in `Accounts` and `AlertPipeline`), silent reconnects of the
  live stream's Redis client, a lost answer to the COMMIT of a profile image
  (`profile-img.action.ts:92-102`), the WhatsApp client (a channel
  answers or fails), PDF layout, waitlist, contact, health, configuration,
  migrations, seeds, the mock server and the regression tests.

`PROJECT.json` lists each component with what is modelled of it.
