# life-assistant v2: a TLA+ model

The program is a household assistant: one Node.js daemon with an SQLite
database, MCP tools for agents, a small HTTP service, scheduled jobs and push
notifications. This directory holds TLA+ models of its concurrent parts, the
TLC configurations that check them on small instances, and proofs of the main
results for every value of the constants.

Paths below are relative to the repository; `core/...`, `modules/...` and
`daemon.ts` are under its `src/`.

    tlc -workers 2 -config OutboxRow.cfg MCOutbox.tla     # a run
    tlapm OutboxProofs.tla                                # the proofs of a module

## 1. Inventory

The daemon is one process, and JavaScript runs one callback at a time:
interleaving happens at `await`. The database calls are synchronous. Two
processes meet only at the lock of the data directory (a second daemon, or
`npm run db:restore`), at the database file, and after a crash, when the next
process finds what the last one left. The far ends (webhook gateway, push
services, weather and holiday services, file system) are external.

| Component | State | Operations | Hard behaviours | What makes it correct |
|---|---|---|---|---|
| Notification outbox: `core/notify.ts`, `modules/notify` | tables `notifications`, `deliveries`; setting `push_route`; one drain at a time | publish, pull, cancel, retry, route, quiet hours; drain: recover, scan, claim, request, mark | tools run while a request is awaited; snapshots carried over awaits; lost answers; crash with rows in `sending`; back-off; windows and budgets | no second push on an idempotent channel; a refused id is not used again; nothing sent blindly after a crash; read means reached; pending rows settle |
| Channels and mail: `core/channels.ts`, `core/smtp.ts` | one request, or one SMTP session with its buffer and its one timer | seven channels: log, webhook, bark, ntfy, telegram, smtp, openclaw | any exchange may be refused, cut or time out; a message taken whose answer is lost; a 200 before the outcome is known | the verdict says what the far end did |
| Instance lock: `core/lock.ts`, used by `daemon.ts`, `restore.ts` | `daemon.lock` with pid, start time, token; `.stale-` and `.tmp-` files | acquire, take over, put back, release, inspect | several starts on a stale lock; reused pids; crashes between system calls | one holder; a holder keeps its lock; a lone start succeeds |
| Jobs: `core/job-runner.ts`, `core/jobs.ts`, `daemon.ts` | table `job_runs`; busy names, zombies, in-flight map; cron slots; catch-up plan | run, watchdog, record, plan and run catch-ups, stop | hung handlers; failing writes; replayed minutes; catch-up against cron; bounded waits against a fallback exit | one handler of a job at a time; exact marks; outcomes stand; no rerun of what succeeded; stop ends |
| Schedules: `modules/schedule/*`, `core/recurrence.ts` | tables `schedules`, `occurrences`: a row per offset, resend and escalation | create, update, complete, snooze, skip, delete; materialise, fire, resend, escalate, sweep | publish and mark are two statements; keys derived from times; edits against pending rows; count limits | each due reminder fires once; a snooze is never lost; completed events stay quiet |
| Bills: `modules/bills` | table `recurring_bills`, a schedule each, ledger entries | create, update, pause, resume, pay; completion hook | bill and schedule, expense and reminder are written in two steps | a repetition records nothing; reminders go with bills |
| Bookkeeping: `modules/bookkeeping` | ledgers, expenses, budgets, category dictionary, default ledger | tools for each; alerts; digests and reports with catch-up | repeated requests; alerts judged by each entry alone; proofs of reports that retention deletes | an entry once for a request; alerts match crossings; a report once and none forgotten |
| Action links: `server/action.ts`, `core/action-link.ts`, `server/quick.ts` | links in flight; audit rows | check, run a tool, record | the record is written after the act | a link acts once |
| Backup and restore: `core/backup.ts`, `backup.ts`, `restore.ts`, `core/database.ts` | database with log, backups, partial files, schema version | start, migrate, stop; back up, check, publish, prune; restore with roll-back | kills between file operations; job and command side by side; a log beside the wrong database | a published backup is whole; what was acknowledged is kept |
| HTTP and sessions: `daemon.ts`, `core/inflight.ts`, `core/ratelimit.ts`, `core/auth.ts`, `core/security.ts` | session table, requests in flight | initialise, call, delete, sweep, pages, stop | kept-alive connections during a stop; sessions swept under calls | the database closes on nobody; a call acts for its caller |
| Weather: `core/qweather.ts`, `modules/weather` | cache, shared requests, gate, count, journeys, told alerts | lookups with retries; alert watch; briefs | midnight; places at the gate; lists cached between rounds; catch-ups | the gate keeps its places; no stale forecast; alerts upgrade only and are not lost; a brief for each run |
| Holidays: `core/holiday.ts`, `modules/holiday` | years with status and cool-down, days | fetch and import, answer, work-day watch | years that come late or fail; days filed with the next year | no guessed answer |
| Retention and audit: `core/retention.ts`, `core/audit.ts`, `modules/maintenance` | none of their own | delete old rows, append audit rows | deletion of what others read as proof | a report is not told again |
| Settings, preferences, rendering, metrics | single rows; none | read, write, format | - | local to one call |
| Calendar feed, pages, status, details, ops | none | read and present | - | presentation |
| Configuration, doctor, import, logs | files | parse, report, rotate | - | local to one call |

How they interact: every component that tells the user something calls
`publishProfile` of the outbox. Jobs and the minute tick call the handlers of
the modules, which publish; `drainSoon` and a 20 s timer start the drain. The
daemon takes the lock before it opens the database; `db:restore` takes the same
lock. `stop()` of the daemon waits for catch-ups, jobs, zombies, requests and
the drain, in this order, and closes the database. Bills are built on schedules
and bookkeeping (completion hooks), action links on the tools of schedules. The
outbox calls `deliver` of a channel and acts on its verdict. The brief and alert
jobs of the weather, the reports and the work-day watch read back from
`notifications` what they have told already, by dedupe key.

The hazards are in `PROJECT.json` under "hazards", each at its line with the
properties that would catch it going wrong.

## 2. Modules

| Module | Models |
|---|---|
| `DeliveryLifecycle` | what the outbox promises of a delivery (abstract) |
| `Outbox` | the notification outbox, implements `DeliveryLifecycle` |
| `Mail`, `Channels` | the SMTP client; the seven channels from call to verdict (extends `Mail`) |
| `InstanceLock` | the single-instance lock |
| `Jobs` | job runner, `job_runs`, cron callbacks, catch-up, stop sequence |
| `Schedules` | one schedule and its reminders, from creation to the end |
| `Ledgers` | ledgers, who may use them, the default ledger |
| `Expenses` | entries, category dictionary, budgets and alerts (extends `Ledgers`) |
| `Reports` | digests, reports, their catch-up, retention (extends `Ledgers`) |
| `Bills` | recurring bills with their reminders and entries |
| `Holiday` | years of the holiday calendar, answers, work-day watch |
| `WorkdayFilter` | a schedule for working days or days off, its re-check across years (extends `Holiday`) |
| `Upstream` | the client of the weather service |
| `AlertWatch`, `Briefs` | weather alerts; morning and evening briefs, journeys |
| `Data` | database, log, backups, restore, migration |
| `Service` | sessions, calls, links, the stop |
| `OutboxProofs`, `PushProofs` (extends it), `ChannelsProofs`, `JobsProofs`, `SchedulesProofs`; `WeatherProofs` (of `Upstream`, `AlertWatch`, `Briefs`), `DaemonProofs` (of `Service`, `Data`, `Reports`), `HouseholdProofs` (of `Expenses`, `Bills`, `Holiday`, `WorkdayFilter`, `InstanceLock`) | theorems |
| `MCOutbox`, `MCInstanceLock`, `MCJobs`, `MCSchedules`, `MCWorkdayFilter` | values of the constants for TLC |
| `MCSending`, `MCHousehold`, `MCDaemon` | unions of components for TLC |

A union gives several components to one run. Its components share no variable (but
`WorkdayFilter` extends `Holiday`, and the holidays move without the schedule or with it),
and the variable `component` says which of them moves in a behaviour. Steps of
components that share nothing commute, and none of the properties relates two
components: what holds when each moves alone holds when they are interleaved, and
TLC explores a sum of state spaces and not their product.

Definitions with a comment "Mutant:" or "A slip:" are plausible bugs: each property
of a passing run is violated when one definition of the code is replaced by its
mutant. No specification uses them.

### Outbox

An action is what the code does between two awaits. Tool handlers and
`publishProfile` are synchronous, so each is one action (`publishProfile`,
`pullAction`, `cancelAction`, `retryAction`, `setPushRoute`,
`setPushRouteEnabled`, `QuietBegins`, `QuietCleared`); they run whenever the
drain is at an await (`Yielded`). `drainDue` is `DrainStart` (recovery of rows in
`sending`), `DrainScan` (a window of the keyset scan, with all its outcomes),
`DrainBatch` (up to `CONCURRENCY` runs of `deliverOne` up to their await) and
`DrainEnd`. `PeerAccepts` is the far end. The four answers are `markSent`,
`markTerminalFallback`, `markConfirmedFailure` and `markTransportFailure`; they
write by id, with the counters of the scanned snapshot, as the code does.

`row[d]` is the row of `deliveries`: `gen`, `id`, `started`, `next`, `expire`,
`conf`, `trans`, `reject`, `name` are `generation`, `request_id`,
`request_started_at`, `next_attempt_at`, `expire_at`, `confirmed_failures`,
`transport_failures`, `deterministic_reject`, `route_name`. A request id is the
route name and the generation (profile and notification are those of `d`).
`drain.todo` holds the snapshots that are still to be delivered, `drain.passed`
the rows behind the cursor. Times are relative and saturate, so that the state
space is finite with an endless clock.

Left out: dedupe keys (a second publish changes nothing), preferences (the
choice `push`), the 100 ms debounce (a drain may start at any time), failing
database writes, the retention job, a URL-less route (rejected by
`validateRoute` before it is stored).

### Channels and Mail

One delivery, from the call of `deliver` to the verdict the outbox acts on.
`DeliverLog`, `DeliverPlain` (webhook, bark, ntfy), `DeliverTelegram`,
`DeliverOpenclaw` and `DeliverMail` are `deliver` of the channels up to their first
await; a URL is a record of what the code looks at. `ServerActs` is the HTTP
server, `AnswerArrives` and `NoAnswer` the ends of the `fetch`. Of openclaw the
checks of the route and its target, the choice of the credential and of waiting,
and the reading of the completion are operators of their own.

`Mail` is `SmtpConnection` with `sendSmtpMail`: `stage` is the reply that is awaited,
`coming` the replies under way or in the buffer, `ReadReply` takes one and writes the next
command; `Connected`, `Upgraded` (which drops the buffer), `Broken` and
`DeadlinePasses` are the callbacks. The server may answer anything to what it was
asked, and leave with a 421 nobody asked for, which is then read in the place of
the next answer. `taken` is its copy of the mail. Assumed of every far end: a
server that answers 3xx to 5xx has not taken the message.

### InstanceLock

The contenders are processes, so an action is one system call on the lock path;
what a process does to a file that only it can name belongs to the action
before or after. Inodes are explicit and may be reused as soon as they are
free, because `sameFile` compares them. `Found` holds every lock an earlier
process may leave: none, a corrupt one, a dead holder's, one of an older version
without start time and token, one whose pid a new process has. A daemon starts
with `cleanupLockResidues`, a `db:restore` with `inspectDaemonLock`.

### Jobs

`run` is `createJobRunner().run` up to its return; the handler ends in
`HandlerEnds`, its watchdog fires in `watchdog`. Each write of `job_runs` may
fail. A poll of node-cron may emit several minutes in one turn (`turn`), the one
handled last included (`again`); the callback of `scheduleJobCron` is
`CronMatch`. The catch-up chain goes on in the turn in which the run it awaits
settles. `stop()` is a sequence of bounded waits (`phase`), against the fallback
timer of the signal handler.

### Schedules

One schedule: rows of different schedules meet only in the `LIMIT` of the due
list, which `FIRE_LIMIT` makes short. `occ` maps the key of an occurrence,
`<date>T<time>#<idx>` with `:resend` or `#esc:N` after it, to its due time and
status; `sched` is the row of `schedules`; `outbox` holds what was published,
each with its dedupe key and the time it announced. `settled` is history: the
events whose completion or skip was acknowledged.

Time is a clock with `DAY` ticks to a day. A recurrence is the set of days it
yields, with `count` and `until`; `nextDate` is then "the least day after". The loop
of `materializeSchedule` is stated as the set of days it takes: `takes` says of a day
that no earlier one ended the loop. The
tools (`updateSchedule`, `completeOccurrence`, `completeSchedule`,
`snoozeSchedule`, `skipSchedule`, `deleteSchedule`) are one action each, since
their database calls are synchronous and, but for complete, one transaction;
`completeTorn` is a crash between the statements of complete. `createSchedule` is
`Init`. The tick is split where a crash leaves something behind: `TickStart`
(sweep, due list), then for each row `fireVoid`, `fireLater`, `fireFails`, or
`fireNow` (publish), `MarkNotified` and `DeriveNext`, and `TickEnd`
(materialise). No tool runs inside a tick: `publishProfile` does no I/O that is
awaited, so the `await` of the tick hands over to its own continuation only.

Left out: `client_token`, `next_run_at` (derived), the resolution of an unnamed or
described occurrence (the model lets the user name any), texts and decorations. The
work-day filter, which meets another await and another actor, has a module of its own.

### WorkdayFilter

One schedule with a filter over the calendar of `Holiday`, whose variables it shares:
the tick is the second caller of `ensureYears`. `TickStart` is `tickSchedules` up to
its await: what is due is sent or swept, `materializeSchedule` adds the days its scan
`visits` and the filter takes, and the years the scan stopped for are fetched.
`TickEnd` is what follows the await, `recheckCrossYearOnce`. In between the files come
or fail to come, the refresh job runs and days pass. `FilterInit` is an empty
database, or one with the rows an earlier release has left: it took a day at the end
of December for what the file of its own year makes of it. `guessed` is history and
says how far those rows reach. `yearsNeedingBackfill` and `crossYearRechecked` are
memory, and a crash forgets them. The rules of `Schedules` on offsets, counts and
answers are left out here: one reminder an event, no tools.

### Ledgers, Expenses, Reports

Tools are synchronous, one action each; a call that is refused changes nothing and
has no action. `Add` is `addExpenseChecked` with what its callers publish: with
`whole` FALSE the process dies between the row, which is committed, and the last
alert. The reply may get lost: the caller of MCP repeats the request under its
id, the page (`quickExpense`) draws a new one. `told` holds dedupe keys. A category is a
text, `categoryKey` its folded form, `dict` the dictionary of a profile.

`Reports` has a clock of half days. A job run (`RunJob`) publishes for every
missing day, week or month it finds; `JobCutShort` leaves any prefix of it. `owed`
is the slot a job has not succeeded for: a part of `Jobs`, with the windows of
its catch-up policy. `runRetention` deletes by `notificationCleanupWhere`; `sent`
remembers what was ever told.

### Bills

A bill has a schedule, of which this module keeps the status and the one reminder of
each period; `materialize`, `Tick` and `SweptAway` are what `Schedules` does to
it. Every tool that writes twice has a parameter for the crash in between;
`insertFails` is the insert that fails and is compensated. `payBill` records and
then completes, `completeSchedule` completes and then records (the hook), both under
`billRequestId`. `scheduleTool` is a user who pauses, updates or deletes the schedule
directly. `cut` and `touched` are history.

### Holiday

A year is fetched by `ensureYears` up to its await and `FetchEnds`, for two callers who
share `inflightYears`. `Files` says what the published files contain, `Publication`
when they are out. `dayType`, `monthAction`, `holidayPeriods` are functions of the
tables; `Truth` is the answer once all files are in. `runWorkdayWatch` begins a
run, `WatchProfile` serves one profile.

### Upstream, AlertWatch, Briefs

A slot of `op` is a call past the cache: it waits at the gate (`Semaphore`), for the
answer, or for its back-off. `AskCached` is `cached` up to its await, with the single
flight; `Answered`, `Failed` and `TryAgain` are `withRetry`. `geoLookup` is the
lookup of a place, remembered in memory only. `usage` and `counted` are the count
of requests in memory and in the database, written a step apart.

`AlertWatch`: a round visits the profiles (`VisitProfile`) and their alerts
(`HandleAlert`) one after the other; lists come from the cache, which other callers fill
with their own time to live (`OthersAsk`); what was told is read back from the
notifications of the last 30 days. A notification that throws is caught for that alert
alone (`skipAlert`): nothing of it is recorded, the loop goes on and the profile is
served; `missed` keeps which alerts failed in its last round. `Briefs`: a run is
anchored to the day it was due on, `VisitReader` awaits the weather and `WriteBrief`
publishes, or fails for this profile alone; `resolveProfilePlace` chooses the journey,
the saved place or the default.

### Data

The database is a main file and a log of writes; a reader of the main file alone (a
copy) misses the log. `daemonStart`, `openDatabase`, `preMigrationSnapshot` and
`migrate` are the start; the backup of job and command is `runBackup`, `verifyPartial`,
`publishBackupFile` and `prune`; `db:restore` is `restoreBegin`, `restoreLock`,
`checkpointCurrentDatabase`, `copyAside`, `replace`, `replaced`, `dropLog`,
`verifyRestored` and `rollback`. Kills fall between any two of them, and `fails(p)` is a disk
operation that fails. `acked` are the writes clients were told of, `warned` those
a restore announced it could lose.

### Service

A request is counted (`begin`), handled over one await and ends. `initialize` and
`established` open a session; `call` is admitted by session and token, and writes when its
tool ends. `linkPost` runs the tool of a link and `linkAudit` records it. `stop`,
`waitForIdle`, `closeDatabase` and `exit` are the stop of the daemon as it meets
requests; its other waits are in `Jobs`.

## 3. Runs

The runs of one component check deadlock: none of these systems stops in a state
without successor (the clock, the next tick, or the user goes
on). The union runs do not: the clocks of their components end at a bound, and a
component at its bound has no step.

| Run | Result | Shows |
|---|---|---|
| `OutboxRow` | passes | one webhook delivery, all tools, drifting names, expiry, crashes: `NoSecondPush`, `ReadMeansReached`, and the refinement `LifecycleSpec` |
| `OutboxDrain` | passes | two deliveries of two people in shared windows and batches, with fairness: `AwaitedRowStaysClaimed`, `FreshIdAfterRefusal`, `PendingSettles` |
| `Sending` | passes | what leaves the daemon: `HeldUntilRetry` of the outbox on bark, log and openclaw with changing routes and credentials; `VerdictMatchesFarEnd` of the seven channels; `GateKeepsItsPlaces` and `ForecastStartsToday` of the weather client; `AlertsOnlyUpgrade` and `LastingAlertIsTold` of the alert watch; `BriefForEachRun` |
| `JobsRun` | passes | two jobs, two starts: `OneHandlerPerJob`, `MarksMatchHandlers`, `RecordedOutcomeStays`, `NoRerunAfterOk`, `CatchupsGetTheirTurn`, `StopEnds` |
| `SchedulesDay` | passes | a schedule through its days with snooze, completion, skip, clean-up, crashes, failures, no updates: `SettledStaysQuiet`, `NotifiedWasAnnounced`, `AnnouncedOnce`, `CountIsKept`, `NextStaysVisible` |
| `SchedulesEdit` | passes | updates of every field but the offsets, between ticks of one row: `OneChainPerEvent`, `DaemonCatchesUp` |
| `Household` | passes | entries, budgets, the page: `RequestRecordedOnce`, `AlertsMatchCrossings`; bills: `RepetitionRecordsNothing`, `RemindersBelongToBills`; holidays and a schedule that follows them: `HolidayAnswersTrue`, `FilterMeansItsDays`; a daemon and a daemon or restore: `AtMostOneHolder`, `LoneStartSucceeds` |
| `Daemon` | passes | data directory: `CanonicalIsWhole`, `AcknowledgedIsKept`; service: `ClosedIsQuiet`, `LinkActsOnce`; reports and retention: `ReportedOnce`, `CaughtUp` |
| `OutboxPulled`, `LockTriple`, `ScheduleLost`, `FilterGap` | counterexamples | see section 4 |

Bounds, and why they are enough:

* `OutboxRow`: one delivery, since rows interact only through the windows and
  batches of a drain; two route names for drift; expiry at one tick; an
  idempotency window of one tick; four bounded events (route, quiet-hours and
  retry calls, crashes), so that a crash can fall between two changes. The
  ladder has two steps and both failure limits are 2, which leaves one failure
  to retry after and one to end with. The shortened ladder keeps the property
  that matters, the second step differing from the first.
* `OutboxDrain`: two deliveries of two people, windows of two and batches of
  one: a window is full, and the second row waits for the first one's request.
  One bounded event, and an idempotency window of 0, keep the liveness check
  small.
* `Sending`, outbox: the idempotent channel cannot be chosen. This matters:
  recovery asks the current route for its channel, so a push left uncertain on
  bark and a change of the route to the webhook before the next drain is resent.
  With the webhook in `Channels` the run finds that.
* `Sending`, channels: mails in the three ways to encrypt, with and without a password,
  to one and to two recipients, which are two routes to `RCPT`; two mail routes and two
  openclaw routes that are refused; a direct and a mapped target. Two replies under
  way: the one that is due and the goodbye nobody asked for.
* `Sending`, weather: three calls for two places at the gate, so that one waits and is handed
  a place; two attempts; days of two ticks, so that a forecast is asked for before
  midnight and handed over after it, from the cache or a shared request; any number
  of crashes. Of the briefs: one profile, two cities, two days, one change of place,
  one crash: a run may be caught up after midnight.
* `Sending`, alerts: two alerts, one of which may fail beside the other, and alike
  (the symmetry of the run); three levels (one of them not given), two changes, three ticks against a cache
  and a look-back of two, any number of crashes and failures. All profiles are alike and a
  round visits them one after the other, so that one shows what becomes of each.
* `JobsRun`: slots {1} and {2, 3}, so that job 2 fires twice while the catch-up of
  job 1 may hang; windows of 2 and 3 ticks, so that slots fall out of them; two
  starts; one failing write at any place. `TIMEOUT` and the waits are one tick:
  only their order counts.
* `SchedulesDay`: days of three ticks and seven ticks, so that two events are due
  and a third lies behind the near horizon of one day; a recurrence with `count`
  1, and one with a gap that only the exempt first event bridges; two offsets,
  with no escalation or one of two steps, and a resend; two tool calls and one
  crash or failure; clean-up after a day. No updates, since they break
  `SettledStaysQuiet` (section 4); how far the others survive them is said there.
* `SchedulesEdit`: a daily and a one-off rule, two times, both kinds, updates of
  time, rule, resend, escalation, kind and status; two tool calls suffice to move
  an event and move it back. One row to a tick, a grace of one tick. No crashes:
  a crash between tick statements is the subject of the other run.
* `Household`, expenses: two people, two ledgers of which either may be the family's
  or a person's, three texts of which two fold to the same key and any may become an alias,
  one amount of 8 against limits of 8 and 10: one entry reaches 100 % or just 80 %,
  two pass both. Four calls: a budget, an entry, and two calls that may change the ledger,
  the dictionary or the entry and repeat the request. One request id and one
  submission of the page at a time.
* `Household`, bills: one bill due every other day; three days pass and a horizon of three, so
  that two periods are open at once and the sweep gives one up; three edits, one
  crash or failing insert.
* `Household`, holidays: five days over a new year; one of them a working day that only
  the file of the next year lists, one listed by both files; a refresh and the tick of
  the schedules as callers; cool-down of two ticks, days of two ticks, one crash.
* `Household`, filter: a daily schedule over the same five days, rows of an earlier
  release up to any day of the year or none; the near horizon is three days and a scan looks
  at two candidates, or four while nothing is pending; one crash.
* `Household`, lock: two processes, one of which may be a restore, five kinds of lock
  found, two crashes, inodes enough to be reused or not (which of them the lock found has
  makes no difference and is fixed), the ten rounds of the code.
* `Daemon`, data: one write, two builds of the program, one backup kept of three begun by
  job or command, one restore, one kill or failing disk operation at any step. One fault is
  what the code handles; a second one during the repair of the first is its
  operator's. A `VACUUM` does not outlast the busy timeout (section 4).
* `Daemon`, service: two people, a limit of two sessions, two requests at a time out of
  three, one link of its own and the link that settles the reminder, one kill or
  failing audit write.
* `Daemon`, reports: months of two days and weeks of three, so that months are missed,
  caught up and fall out of the look-back of two; notifications kept one day, so
  that the proof of a report may go before the catch-up asks for it; a
  family and personal ledger by transfer; dates of last month, today and tomorrow.

Fairness:

* `Outbox`: the timer calls `drainDue` every 20 s, requests end or time out
  (10 s, 30 s on openclaw), the supervisor restarts the daemon, the clock runs:
  weak fairness of the drain, of `deliverOne`, of `Start` and of `Tick`. On
  the log channel, which is local, the acceptance is fair too. The user is free
  to do nothing, and the gateway to refuse for ever: `PendingSettles` holds
  because attempts are bounded.
* `Jobs`: timers fire and the event loop goes on; handlers may hang for ever,
  nothing makes the operator start or stop the daemon. `StopEnds` assumes only
  the timers of `stop()`.
* `Schedules`: the minute tick runs (`TickStart`) and, once begun, goes on row by
  row to its end (`Fire`, `TickReturns`); nothing makes the clock, the user, or a
  publication go on. `DaemonCatchesUp` is checked with tools free to run between
  ticks, but bounded in number.
* The union runs check safety and assume no fairness.

## 4. Disagreements between the code and what is said of it

These have a run with a counterexample; the quotations are in `PROJECT.json`.

* `OutboxPulled`: a notification pulled while its request is in flight is pushed
  again by retries, and a parked one by a route change; the documentation
  speaks of that one request only.
* `LockTriple`: three starts on a stale lock may end with two holders. Two
  processes cannot do it (`Household`, theorem `OneHolder`); the third one is needed to take the free
  path while the moved lock is away.
* `ScheduleLost`: an update goes back to the latest event with a reminder out, and
  if that one has nothing left to send, the event under way before it loses
  its pending reminders.
* `FilterGap`: when the file of the next year is in, a working day at the end of
  December that an earlier release had taken for a day off is to be made up for by
  a scan from today. That scan ends after ten candidates (three in the run) if
  anything is pending, the rows that are there counted, and reminders reach two months ahead:
  a day further away gets no reminder, as the second look is made once in a
  process and every later scan goes on behind the last row. `FilterMeansItsDays`
  is what holds: wrong rows go, and no day is passed over but by the earlier release.

Others were met while modelling and have no run of their own. Of the outbox, the
channels, the jobs and the service:

* Recovery looks the channel up in the current route: a push left uncertain on bark is
  resent after a change to the webhook (notify.ts:416).
* `claimDelivery` repeats a request after a time-out although the window in which
  the gateway remembers ids is over; only `recoverStaleSending` looks at it
  (notify.ts:379, 830).
* After a time-out whose request was accepted, a 408, 429 or 5xx for the same id
  makes a new id and a second push (notify.ts:354, 908). `RefusesSeen` is that
  choice of the gateway; it is FALSE in the runs. `NoSecondPush` and its theorem
  `ShownOnce` rest on that: they do not cover a refusal after an acceptance. The
  other theorems hold with either choice.
* `requeueRoute` leaves a delivery in `fallback` that had timed out before its
  route was disabled (notify.ts:453, `routeAction` says that it is queued again).
* An openclaw answer of 200 whose body is cut while a completion is awaited is a
  terminal failure, though the message may have been delivered (channels.ts:684;
  terminal is to mean a certain refusal, channels.ts:73). `VerdictMatchesFarEnd` names
  this exception.
* A broken line is retried on smtp, bark, ntfy, telegram and openclaw although the far end may
  have taken the message; after a crash the same uncertainty holds the row
  back, to disturb nobody twice.
* The waits of `stop()` add up to 31 s, 33 s with zombies and 56 s or more when
  completions of openclaw are awaited (daemon.ts:73, 783); the fallback exits after 30 s, which
  must be greater, says its comment, or the database is not closed (daemon.ts:816).
* At a second signal `stop()` returns at once and the process exits in the middle of the
  first stop (daemon.ts:806); a page whose client has gone is not waited for.
* A daemon may be refused by its own lock, moved away and put back by another
  one that is refused too: nobody is left (lock.ts:454, 517).

Of the schedules and bills:

* A skip is final for the row, not for its event: `materializeSchedule` disregards
  cancelled rows in its cursor (materialize.ts:325), and an update that adds an offset
  makes and sends a reminder of an event that was skipped; `skipSchedule` says that
  materialisation does not bring it back (actions.ts:611).
* `runOccurrenceCleanup` deletes rows by the time of their event, and a snoozed reminder
  keeps it: with a reminder snoozed past the 90 days, or a daemon off for that long, a
  skipped event behind it is cleaned up while the reminder waits, and is made and sent
  anew (`CleansUnderPending`; materialize.ts:325, `skipSchedule` says that
  it is not).
* A reminder that was sent, snoozed, and made anew by an update of the offsets has
  a new due time, but the dedupe key without time that was already used: the
  outbox swallows it (fire.ts:184, 396).
* A crash between the mark of a reminder and the insertion of its escalation row
  loses the chain (fire.ts:425, README.md:441 of the repository: until
  `complete`).
* `catchupSweep` keeps the latest overdue row, also if it is a derived row that is
  void by then, and cancels the reminder that would still have been sent
  (fire.ts:80).
* `bill pay` without a date, repeated after a lost reply, pays the next period
  (README.md:15 of the repository: the same period is recorded once, which is
  true, but the period is another one); so does a payment cut short whose
  reminder was swept since. A bill without reminders takes the day for its period,
  and a repetition after midnight another one.
* A pause deletes the pending reminders, a resume makes them anew, those of paid periods
  too. A crash in a pause leaves an active bill without reminders, in create and resume a
  schedule without a bill, in the completion hook a settled reminder without its entry
  (bills/index.ts:252). `RemindersBelongToBills` leaves out schedules hit by a crash
  (`touched`).

Of the ledgers, the weather and the holidays:

* The page draws a request id for each press of the button: a press after a lost answer
  records the entry twice (quick-page.js:25).
* A crash between the notifications of one report leaves readers of the ledger untold:
  the report counts as published (bookkeeping/service.ts:1733).
* Requests to the weather service are counted when they are queued at the gate, the
  comment says when they are sent (qweather.ts:33).
* The key of a brief contains the city: a change of place between two runs of one day
  gives two briefs of the day.
* If a file lists December 31 and that of the next year is missing, the last day of a
  holiday may be told early.

Of the data directory:

* A `VACUUM` that outlasts the busy timeout of 5 s: the checkpoint of the restore is
  refused and writes in the log go with it, without a warning (restore.ts:104, 110).
  `VacuumOutlastsBusy` is FALSE in the run.
* `copyFileSync` that fails half-way is outside the `try` of the restore: no roll-back, and
  the next daemon finds a half file or makes an empty database (restore.ts:235). The
  safety copy is there: `AcknowledgedIsKept` counts it.
* A clock set back makes a new backup the oldest by name: it is pruned at once.

## 5. Proofs

`OutboxProofs` proves, for any deliveries, profiles, ladder and limits that
satisfy `OutboxAssumption`:

* `TypeCorrect`: `Spec => []TypeOK`.
* `AwaitedClaim`: `Spec => []AwaitedRowStaysClaimed`.
* `FreshIds`: `Spec => []FreshIdAfterRefusal`.
* `Implements`: `Spec => LifecycleSpec`, the refinement of `DeliveryLifecycle`.

The invariant is

    IInv == TypeOK /\ AwaitedRowStaysClaimed /\ \A d : Numbered(d)

`AwaitedRowStaysClaimed` is inductive with the types: tools touch rows in
`sending` in no way, and `DrainStart`, the only action that does, runs when no
request is awaited. `FreshIdAfterRefusal` is not: it needs to know where ids come
from. `Numbered(d)` says that refused ids have generations below the row's, and
that the id a row keeps, or would be given from the snapshot of the running
drain, was never refused. A snapshot may be older than its row, because a retry or
a requeue raises the generation; what saves it is that generations are only
refused, and raised, by the drain's own answers, after which the snapshot is
gone. The theorem `Implements` combines the invariant with one step lemma per
action: each maps, delivery by delivery, to a step of the life cycle or to none.

The assumptions say that the constants have the types of the code's (ladder of
at least two numbers, positive limits) and that `NULL` is no value of theirs.

`PushProofs` builds on this invariant what the user sees of a push:

* `ReadReached`: `Spec => []ReadMeansReached`. `Reached(d)` follows a push from the
  far end to the mark: what was accepted was shown, a request known to be accepted
  was, and `read` has one of these causes or the user's own.
* `ShownOnce`: `Spec => []NoSecondPush`, if all channels deduplicate and refuse no id
  they have seen. `Once(d)` says that what was accepted was accepted under the id of the
  row, and that nothing else was shown. A row changes its id only if it has none
  or if the one it has was refused (`IdSteps`), and here the assumption is needed:
  refused then means never accepted.
* `HeldWaits`: `Spec => []HeldUntilRetry`, if no channel deduplicates. A delivery that
  waits for its user is in a state no claim, recovery or requeue takes it out of
  (`Parked`); on a route change to a channel that deduplicates it would be (section 4).

The two assumptions are those of the runs `OutboxRow` and `Sending`.

`JobsProofs` proves, for any finite set of jobs, any timetable, and any waits,
number of starts and number of failing writes:

* `TypeCorrect`: `Spec => []TypeOK`.
* `MutualExclusion`: `Spec => []OneHandlerPerJob`.
* `MarksAreExact`: `Spec => []MarksMatchHandlers`.
* `OutcomesAreFinal`: `Spec => RecordedOutcomeStays`.
* `SuccessIsNotRepeated`: `Spec => NoRerunAfterOk`.

The invariant adds four facts to the first three:

* `HandlersHaveRows`: a handler has a row of its job, `running` until it settles
  or times out. With one handler for a job no two share a row, and so the writes
  by id touch only rows without an outcome.
* `SlotsArePolled`: recorded and planned slots lie no later than the last poll of
  their job, and the slot remembered in `lastSlot` is that poll. A minute that
  node-cron emits is then either the remembered one, which is not run, or later
  than everything recorded. At a start `lastSlot` is forgotten, and `polled`,
  which begins at the present, takes over; a planned catch-up is behind it too,
  and `hasSuccessfulRunCovering` speaks for the rows.
* `TurnHasMinutes`: a replay has a minute left, which the choice of the oldest needs.
* `DownIsIdle`: no handler outlives its process, or the start-up would end rows of
  running handlers.

The lemma `Ranks` says that the ranks of a finite set of numbers are all below its
cardinality and all taken: it types the catch-up plan, which is ordered by rank.

`SchedulesProofs` proves, for any clock, recurrence, offsets, ladders and limits:

* `SchedulesTyped`: `Spec => []Typed`. Beside the types: every row that a running tick has
  still to fire, mark or derive from is in the table.
* `OneChain`: `Spec => []OneChainPerEvent`, updates of every field included.
* `NotifiedMeansAnnounced` and `NoReminderTwice`, while no update changes the offsets:
  `[]NotifiedWasAnnounced`, `[]AnnouncedOnce`. The dedupe key holds a time only if the
  row was moved, so that two announcements could share a key or one could be made under
  two. `Told` says why not: a key with a time holds the time that was announced, one
  without it stands for the planned time (`DedupeKeys`), a marked row was announced for
  the time it has (`RowsTold`), and so was the row between publication and mark
  (`RowInHandTold`).
* `NoMoreThanCount`, while no update rebuilds the rows: `[]CountIsKept`. The dates with
  rows are at most `count`, and what was announced has rows (`CountHolds`).
* `NextIsVisible`, likewise, and with fewer dates with rows than the scan for an exempt
  event has iterations: a tick that ends leaves the next event its reminder
  (`NextStaysVisible`). The dates with rows are bounded and leave none out between today
  and the last one (`NoGaps`), so that behind the cursor lies the next date and not
  another one.
* `SettledIsQuiet`, likewise, and with no clean-up of rows older than a reminder that is
  still pending: `[]SettledStaysQuiet`. `SettledHolds` says that the rows in hand
  are still pending (`RowsInHand`), that an event with a row has one for each offset
  (`WholeEvents`), and that a settled event has rows or lies before today and behind
  all rows (`SettledHasRows`): materialisation goes on behind these.

These hypotheses are needed, as TLC shows: an update of the time breaks `CountIsKept`, one of
the offsets breaks `AnnouncedOnce`, and a clean-up under a pending reminder breaks
`SettledStaysQuiet` (section 4).

`WeatherProofs` proves of the client, for any finite set of calls, any number of places and
attempts:

* `GateIsKept`: `UpstreamSpec => []GateKeepsItsPlaces`. The places taken are
  counted by the cardinality of the calls that send. That the call at the head of the queue
  is given the place, and no other, needs two more facts: a call stands in the
  queue once (`WaitsOnce`), and who stands there waits and nobody else does
  (`QueueIsWhoWaits`, the range of the queue told by its elements). `release` is then
  one lemma: either nobody waits and a place is freed, or the head leaves the queue, one
  call stops sending and one begins.
* `ForecastsStartToday`: `UpstreamSpec => []ForecastStartsToday`. No call was asked in
  the future (`AskedBefore`), and a cached forecast begins no later than today and expires
  with its first day (`CacheHoldsToday`): so one that is served begins today.

Of the alerts, for any profiles, alerts, ranks and times to live:

* `NeverTwiceNorLower`: `AlertSpec => []NeverFalls`, no profile is told of an alert twice at
  one level, or at a lower rank within the look-back. No run checks this one.
* `OnlyUpgrades`: `AlertSpec => []AlertsOnlyUpgrade`, if levels have different ranks. The
  invariant says that the ranks a round has read cover what was told its profile
  lately (`RanksKnown`), as only the round itself adds to that.
* `LastingIsTold`: `AlertSpec => []LastingAlertIsTold`. A list that is cached holds every
  alert that lasts as long as it is fresh (`ListHolds`), and of what a round has to tell
  each is on its list still, was told, or threw when it was told (`RoundTells`). The
  statement excuses the last kind only, and only until the next round of the profile: a
  notification that throws costs that alert and no other (briefs.ts:530). A `break` in
  that catch is the mutant of the run.

Of the briefs, for any clock, profiles and journeys, `EachRunIsBriefed`: `BriefsSpec =>
[]BriefForEachRun`, with the invariant that no run is under way of a day that has not been due.

`DaemonProofs` proves of the service, for any number of requests, sessions and links:

* `ClosesOnNobody`: `ServiceSpec => []ClosedIsQuiet`. Between the wait and the close
  requests may end or lose their clients but none may come, since the tracker is
  closed: what is in flight stays within what the wait left.
* `CallersAreActedFor`: `ServiceSpec => []ActsForItsCaller`. The check at the entrance is
  carried by the request: each one under way may speak for its profile
  (`CallsSpeakFor`), whatever becomes of its session. No run checks this one.
* `LinksActOnce`: `ServiceSpec => []LinkActsOnce`. The invariant `UsesAreKnown` says that
  a link has one use under way at most, none once it is on record, and that a move
  beyond the unrecorded ones is on record or under way. The in-flight set alone
  or the audit alone would not do: a press while the first is handled meets the one, a
  later press the other.

Of the data directory, for any writes, builds, backups side by side, kills and failures:

* `PublishedIsWhole`: `DataSpec => []CanonicalIsWhole`. What is about to get its name passed the
  check and cannot be spoilt any more (`CheckedIsWhole`).
* `AnsweredIsKept`: `DataSpec => []AcknowledgedIsKept`, if a `VACUUM` does not outlast the busy
  timeout, which is the assumption of the run. Daemon and restore exclude each other
  (`OneAtWork`), a daemon that is open has the log of its own database (`OpenedInv`),
  behind the checkpoint of a restore the log holds only what it warned of (`LogIsWarned`),
  and what was acknowledged lies in the database and its log, or, where these may be lost,
  in a whole copy put aside (`KeptInv`).

Of the reports, for any ledgers, dates, lengths of months and weeks and any retention:

* `MonthReportCatchesUp`: `ReportsSpec => CaughtUp`, an action property.
* `CreatedOnce`: `ReportsSpec => []ReportedOnce`, if the windows of the catch-up are no more
  than twice the retention. A slot that is owed lies within its window (`OwedInv`); what
  was told is kept, or was due so long ago that no catch-up comes to it (`ToldInv`).

`HouseholdProofs` proves of ledgers and expenses, for any profiles, ledgers, texts and request
ids, with calls cut short at any place:

* `OncePerRequest`: `ExpensesSpec => []RequestRecordedOnce`. A correction writes the entry
  anew under its old recorder and id, which needs the entries to have them.
* `NamesAreUnique`: `ExpensesSpec => []ScopedNamesUnique`. Every change of a row is an
  instance of one lemma, `OneRowChanges`: the row is archived, or no other one in use
  has its name and scope. No run checks this one.
* `AlertsAreExact`: `ExpensesSpec => AlertsMatchCrossings`, an action property. The ids of
  entries lie below their counter, so that a new entry adds its amount to the sum of its
  month and scope (`EntryCounts`) and the sum without it, which the code subtracts, is the
  sum before. The sum is a fold over a set: `SumUnfolds` and `SumWithout` are proved from
  a smallest counterexample, as the induction theorems are out of reach (`SmallestSet`).

Of the bills, for any bills, schedules, due dates and faults:

* `RemindersBelong`: `BillsSpec => []RemindersBelongToBills`. A bill with reminders has a
  schedule of its own that exists (`OwnSchedules`).
* `RepeatedPayment`: `BillsSpec => []RepetitionRecordsNothing`. The entry of a payment cut
  short is that of the period a repetition would find, as long as its reminder is open
  (`CutIsRecorded`): what is materialised is later, and nothing closed opens again.

Of the holidays, for any calendar, any files that agree on the dates they share and
any number of callers:

* `AnswersAreTrue`: `HolidaySpec => []HolidayAnswersTrue`. A date
  without a row is taken for an ordinary day when its years are ready, and that is right
  only if a ready year has all its dates in the table although a later import may have
  taken rows over (`ReadyIsComplete`), and every row says what its file says
  (`RowsAreFiled`); `ImportKeepsCalendar` shows that an import loses no date. The run of
  the watch speaks of a type it has read before (`WatchIsTrue`). `HolidayAssumption` says
  that of the year before a file lists dates from December 25 on only. The check of the payload
  admits all of December (holiday.ts:150), `holidayLookupYears` waits from the 25th on.
* `RemindsOnItsDays`: `FilterSpec => []FilterMeansItsDays`, for any recurrence, horizons and
  scan limits too. A scan passes over no day of the filter's kind before its last new row
  (`ScanIsMeant`), also when it starts over from today. A wrong row of the
  earlier release goes at the second look only if its kind is known by then: the year it
  was guessed by is ready and stays so (`PendingAreMeant`).

Of the lock, for any processes, pids and locks found:

* `OneHolder`: `Spec => []AtMostOneHolder` with at most two processes, and `OneHolderOfTwo`:
  the same with any number of them, as long as no more than two run at a time and none is
  killed between moving a lock away and putting it back. A process past its creation has
  its lock at the path, or one other has just moved it away and is about to look again
  (`LockIsKept`). `LockTriple` shows that a third one breaks this.
* `LoneStart`: `Spec => LoneStartSucceeds`. Every lock a lone process meets was there before,
  so none says that it is its own, and what it has read stays as it was (`LoneInv`).

`ChannelsProofs` proves, for any routes, recipients and server and any number of replies
under way, `VerdictsAreTrue`: `ChannelsSpec => []VerdictMatchesFarEnd`. The invariant for
mail has two parts. `BufferInOrder`: behind the head of the buffer there is only the
goodbye, and a command still unanswered finds the buffer empty or the server gone; so a
reply that is read as a yes answers the command of the stage. `RecipientsInOrder`: the
recipients before the one that is named are agreed to, and the mail is taken for the
agreed ones exactly when the yes to its text is in the buffer. For the other channels
`ExchangeInOrder` says that a silent or failed agent exists only where the client waits
for it, and that a completion tells `delivered` for a taken message only
(`CompletionsAreMeant`, about the assumed gateway). `MailAssumption` says that recipients
are sequences and that `NoUrl` is no route.

Every safety property of a passing run is so stated by a theorem, under the assumptions named
above. Only model-checked is all liveness (`PendingSettles`, `CatchupsGetTheirTurn`, `StopEnds`,
`DaemonCatchesUp`), which is out of the prover's reach.

## 6. Not modelled

Section 1 names all parts. Read-only queries, presentation, configuration,
diagnosis, the one-off import and the formats of payloads have no state to check.
Authentication, rate windows and input checks are decisions on a single request.
`fallbackCreateLockFile`, for file systems without hard links, gives up the guarantee
the lock is built on, and the source says so. A power cut: backup.ts:35 names it beside a
kill, but nothing in it flushes the copy before it gets its name, and what a disk keeps of
such a file is not in `Data`; `CanonicalIsWhole` speaks of kills and failing operations. Of the reports, the
readers of a ledger that changes hands: `ReportedOnce` counts for each recipient. Of the outbox,
failing database writes of its drain and tools (a publication that throws is in `AlertWatch`
and `Briefs`); of the retention
job, the tables that nobody reads as a proof. The statements of a migration, the
signing of requests to the weather service and of links, and the text of mails are
computations without interleaving.

## 7. Plan

In order of importance. Each module has its constants with assumptions, one
action per operation, and no recursive operator where theorems are to follow.

1. Done: `Outbox` with `DeliveryLifecycle`, `Channels` with `Mail`, `Jobs`, `Schedules`,
   `WorkdayFilter`, `Holiday`, `Ledgers`, `Expenses`, `Bills`, `Reports`, `Upstream`,
   `AlertWatch`, `Briefs`, `Data`, `Service`, `InstanceLock`, and the theorems of section 5.
2. An abstract specification of an event of `Schedules` (announced, settled or
   missed), and the refinement.
3. `Outbox` extended by failing writes.
4. Algorithms as functions against reference definitions: quiet windows across
   midnight, cron fields backwards, recurrences.
