# A TLA+ verification of fund-tracking

This directory models and checks the repository beside it: a Go
service (`src/backend-go`) that keeps fund data in MongoDB, caches and
short-lived task state in Redis, and runs fund updates asynchronously through
RabbitMQ; a Next.js client (`src/client`); a GitHub workflow that drives the
scheduled routes; and an archived Python backend.

`PROJECT.json` lists components, runs, mutants, the map from definitions to
source lines, findings, hazards and theorems. This file is the guide to it.

Contents: 1 the system; 2 the modules; 3 the runs, bounds and fairness; 4 what
is proved; 5 where code and documentation disagree; 6 what is left out; 7 the
plan, and what would come next.

## 1. The system

| component | code | state it keeps | operations |
|---|---|---|---|
| Update pipeline | `internal/update/{handler,lock,task,worker,message}.go`, `mq.go` | Redis `fund:update:task:<id>` (1 h), Redis `lock:fundtracking:update` (5 min), RabbitMQ queue, one consumer goroutine per process | `POST /api/update`, `POST /api/update/async`, `GET /api/update/tasks/:id`, the consumer |
| Update run | `internal/update/service.go` | goroutines and two channels per run; MongoDB `fund_data`, snapshots | `executeFundUpdate`, `runUpdateWorkers` |
| Read caches | `main.go`, `redis.go`, `watchlist_service.go` | Redis `fund:detail:<code>` 60 s, `fund:search:<q>` 5 min, `user:<id>:watchlist` 1 min | the three GET routes; deletes by the writers |
| Alerts | `alerts.go` | MongoDB `alert_logs` | `GET /api/alerts/check`, `POST /api/alerts/send`, list of logs |
| Registration and email verification | `auth.go`, `auth_email.go` | MongoDB `users` | register, resend-email-code, verify-email-code |
| Login and tokens | `auth.go` | none | login, JWT middleware |
| Watchlist items | `watchlist*.go` | MongoDB `watchlists` | list, add, update, delete |
| Fund history | `history.go` | MongoDB snapshots | upsert of a day, cleanup, ranges |
| Import, enrich, performance | `import.go`, `enrich.go`, `performance.go` | MongoDB `fund_data` | three maintenance routes |
| Process wiring | `main.go`, `update_compat.go`, `update_key.go`, `env.go`, `logger.go`, `gin_response.go` | none after start | start, routing, key check |
| Client: update button and watchlist pages | `client/src/pages/{index,about,profile}.js` | page state | starts an update and polls its task; shows, adds, removes and edits watchlist items |
| Client: other pages | rest of `src/client` | page state | presentation, login form |
| Scheduled workflow | `src/.github/workflows/trading_update.yml` | none | update, check, send, each with `curl --retry` |
| Archived Python backend | `src/archive/legacy-python` | - | not deployed |

**How they interact.** The workflow and the page start an update, directly or
through the queue. Both ways take the same Redis lock, call the same run, and
delete the detail caches of the funds the run says it updated. Reads go through
the caches, which the writers delete after their write. The check reads funds and
watchlists and writes alert logs; the send mails them. An update run also saves a daily snapshot of each fund and deletes
the old ones, which the history page and the purchase lookup of a watchlist item
read. Imports and the two maintenance routes write `fund_data` beside the update runs
and outside their lock. No step uses a MongoDB transaction. At its start the
service creates a unique index on the snapshots (`history.go:38`) and on nothing else; the only
mutual exclusion is the Redis lock.

**What is hard**, and what makes each component correct:

- *Update pipeline.* Several processes, a lock with a TTL, a broker that delivers
  again what was not settled, calls that fail after they were applied, crashes
  between any two of them. Correct means: one update at a time; the lock is
  taken from its holder by nobody but its TTL, and it does not stay behind; a
  task that has succeeded is not run again (one that has failed is, when its message comes
  again); a rejected one never runs; a running one is in somebody's hands and ends, unless a
  failing call explains why not.
- *Update run.* A producer, a pool and a collector on two channels, with a
  context that may end at any point. Correct means: each code is handled once,
  the answer claims only what was written, nothing is started after the call
  has returned, and no goroutine is left behind.
- *Read caches.* A fill races with a write and its delete; deletes fail, or are
  not made at all. Correct means: what is served is not older than documented, and old at
  all only where a missing delete or a race explains it.
- *Alerts.* Find-then-insert, a list read once and worked on for long, a mail
  that cannot be taken back, an `_id`-only update. Correct means: one log per
  alert, no alert mailed twice, concluded logs stay concluded, unless a failure or
  an overlap of two requests on the same log explains why not.
- *Fund history.* Cutoffs are computed from the clock before the call that uses them,
  and a purchase lookup is two queries. Correct means: no range lacks a day that was
  saved, also across midnight; a lookup passes over no snapshot that was there.
- *Import, enrich, performance.* Find, fetch for seconds, then write, without a lock;
  an import may fail after half of its work. Correct means: no writer takes away what
  another one has added, no fund exists without a quotation, an answer claims only what
  is there, an old quotation does not stay.
- *Watchlist items.* Find-then-insert without a unique index; an update is a write, a read
  and a delete of the cached list; pages that load the list again after a change or
  edit a copy they captured before it. Correct means: an item is there once, or two
  inserts raced; the cached list and the open page are what is stored, or a race or a
  failure explains why not.
- *Update button.* A poll belongs to the task it was created for and may be answered
  after the user has moved on. Correct means: while the button is disabled something
  waits for its task; it is enabled again whatever became of the task.
- *Email verification.* Every handler reads the user and writes by address alone;
  mail and write are two steps under one 5 second context. Correct means: only a
  mailed code is stored, the limits hold, a verified account stays verified.

`hazards` in `PROJECT.json` names each of these at the line where it bites.

## 2. The modules

| module | what it is |
|---|---|
| `UpdateTasks` | the names of the tasks, which pipeline and page share |
| `UpdatePipeline` | the detailed model of the pipeline |
| `TaskLifecycle` | the abstract one: what the status of a task may do; `UpdatePipeline` implements it (`Lifecycle`, `ImplementsLifecycle`) |
| `MCPipeline` | `UpdatePipeline` with the symmetry of its model values |
| `UpdatePage` | the update button of the home page over `TaskLifecycle`: of the server it uses what `UpdatePipeline` implements |
| `UpdatePipelineProofs` | theorems about all three |
| `UpdateRun` | what one update run promises its callers, abstractly |
| `UpdateWorkers`, `UpdateWorkersProofs` | one update run in detail, which implements `UpdateRun` (`Promise`, `ImplementsRun`), and theorems about it |
| `ReadCaches`, `ReadCachesProofs` | the caches, and theorems about them |
| `AlertLogs`, `AlertLogsProofs` | checks and sends, and theorems about them |
| `EmailVerification`, `MCVerification`, `EmailVerificationProofs` | the account of one address, with the symmetry of its requests, and theorems about it |
| `Watchlist`, `MCWatchlist`, `WatchlistProofs` | the watchlist of one user and the pages that show it, with the symmetry of its requests, and theorems about it |
| `FundHistory`, `FundHistoryProofs` | the snapshots of one fund, and theorems about them |
| `FundRecords`, `FundRecordsProofs` | the document of one fund and its four kinds of writers, and theorems about them |

Names beginning with `Mut_` are faulty variants of the definition that follows
them; no specification uses one. Each shows that the property it is listed with
notices the fault.

### UpdatePipeline

`record[t]` is the JSON of a task in Redis (`status` and `error`; times and the
stored response are left out), `"none"` before it is created and `"expired"` after
its hour. `lock` is the token in the lock key, named by the process that made
it, `Free` without a key, `Orphan` when nobody alive knows the token: after a crash, a
release that failed, or a `SETNX` whose reply was lost. `lockLeft` is its
TTL. `queue` is the set of ready messages: a task has one message at most, and
nothing depends on their order. `pc`, `task`, `local`, `connected` are a
worker's control, its delivery, its `task` variable and its channel; `hpc` is the
asynchronous handler.

An action is one call that another process can see, with the code around it. A
Redis call that fails may have been applied (`SaveError`, `acquireUpdateLock`,
`releaseUpdateLock`); go-redis repeats a call whose reply was lost, so that a `SETNX` which was
applied may also answer "refused". A publish that returned without an error may be lost: there
is no publisher confirm, which `src/README.md` lists as future work. A publish with an error is
taken to have left nothing in the queue. `Settle` stands for Ack and for Nack:
with `requeue=false` both remove the message. `ConnectionLost` and `WorkerCrash` put an unsettled
message back. After the first the consumer goroutine returns (`worker.go:33`) and its process lives on
without one (`"stopped"`): nothing watches the connection. After the second the process is `"dead"`.
`Restart` is the start of a process in `main.go`: from either state it brings a consumer, or, if
`initRabbitMQ` fails, which is only logged, a process without one.

Two history variables serve the properties. `shared` are the tasks that two workers have held
at once: the first worker's channel was closed while it ran, and the broker gave the message to a
second one. `erred` are the tasks whose last delivery ended in an error of the handler
(`Err`), whose message is rejected for good.

`Tick` counts down the TTL and counts up the age of each holder. With `Prompt` a holder
keeps to its limit, the context of 30 seconds or 2 minutes and the calls after it;
without, its process may be paused for longer than the 5 minutes of the TTL. A
record does not expire while a handler or worker is between two calls that take
milliseconds; an hour lies between the two.

### UpdateWorkers

`executeFundUpdate` is `caller`. It first builds its targets: `appendUniqueValidCode` is one turn of
the loops over the default codes and over what `Distinct` returned (`FindWatchlistCodes`). A
code is a text, perhaps with blanks around it, as anybody may have stored it; `TrimSpace` takes
them off, and a text that is no fund code (`Junk`) is reported as skipped. `Distinct` has no order,
so neither has `todo`.

A job is a position in `targets`, so the jobs channel is the interval between `taken` and
`fed`. `Feed` and `CloseJobs` are the producer, `Take` to `Send` a worker, `Collect` and `GiveUp` the
`select` of the collector. `CtxDone` may happen at any time: deadline, client or the
handler's `cancel`. A call refused by a finished context, a call that fails after it was
applied and a call that lands after everybody has gone are separate steps. That a client
goes away before the pool starts is left to `CtxDone` and `BuildFails`.

`UpdateRun` is the run without channels, goroutines and context: a code is pending, being written or
settled; an upsert begins only between start and answer; the answer names upserts which are
over and succeeded. `progress`, `phase` and `updated` of `UpdateWorkers` are the refinement mapping: a code's
progress is where the worker that has its job is, and it is settled when its job is taken and in no
worker's hands before the end of its upsert. The upsert that lands after the answer, which `FundRecords` calls
the straggler, is `EndUpsert` there after `Return`.

### UpdatePage

`status` is what Redis says of a task, moved by the actions of `TaskLifecycle`; `Work` are those
of the publish error and of the workers. `Click` is `handleAsyncUpdate` up to its `await`, `Started` and
`StartFailed` the rest of it. `poll[t]` is what the effect created for task `t` waits for: its timer, the
answer to a status query, or the reload of the funds. `setUpdateTaskId` is React's change of that
state with the cleanup of the old effect and the start of the new one. The cleanup clears
the timer and sets `active` to false but recalls no request; ids do not repeat,
so `active` is the same as `updateTaskId = t`. The page reads the record
when the answer arrives and not when it was sent: the server does not see the page in between, and
an answer that comes after the page has moved on changes nothing. Its specification and invariants are
called `Page...` because one module of proofs extends it together with `UpdatePipeline`.

### Watchlist

`docs` is what MongoDB holds for one user, with `indexed` either way: the archived backend created
`uniq_watchlist_user_fund`, this one creates no index. `cache` is the list under the user's key. An
item is its document's `_id` and its last change, named by the requests that made them. A request
`o` runs through `pc[o]` one call at a time; `Begin` is its start by a page or by another client,
`Answer` the answer's arrival. `seen[o]` is the list captured by the closure of
the page's handler. The lookup of the fund before an insert and of the purchase day before an
update are outcomes of `FindItem` and `UpdateItem`. The history variable `raced` names the
pairs of inserts that had both found none, `events` the kinds of things that can leave a page
stale: two requests that overlapped, a change by another client, a list read before
a write and cached after it (`mixed`), a call that failed.

### ReadCaches

A document is a version; `retired[s][v]` counts the ticks since `v` was superseded. The history
variable `excused` holds the keys whose entry is old for a reason: its delete failed, was skipped (`Invalidate`
after a failure, `ReadBackFails`) or never meant (`WriteOnly`), or a fill had read before a write and
set after it (`FillExcuse`). `Miss`, `ReadMongo`, `Fill` are the GET handlers; a hit changes nothing and
is no action. `Write` then `Invalidate` are update runs and the watchlist handlers,
with the context that may be over (`ContextDone`) in between; `WriteOnly` are the
writers that delete nothing (import, enrich, performance, and a write that lands late). No
code deletes a search key.

### AlertLogs

An item stands for a deduplication key: user, fund, threshold and date. A check
inserts at most one log per item, so `<<check, item>>` names the log. `mails`
counts what the provider accepted. A failed update may have been
applied, a failed mail may have gone out, and a request may end anywhere (`GivesUp`).
Any requests may run at once; nothing in the code prevents it. The history variables name
where they have met: `raced` the items that two checks were about to log at the same time, `shared` the
logs that two sends had in their lists at the same time. A log that is `triggered`,
or ready with an empty address, is written by no code and left out.

### EmailVerification

One address. `doc` is its user; a code is named after the request that made
it. `RegisterFind`/`SendMail`/`RegisterWrite`, `ResendFind`/`SendMail`/`ResendWrite` and
`VerifyFind`/`VerifyCount`/`VerifyConfirm` are the calls of the three routed
handlers; `InTime` is their context. Two registrations may both find nobody and both mail; the one
that inserts second meets the unique index. `users.email` is taken to be
unique by the index of the archived backend; the Go code creates none. Accounts of that
backend have no `emailVerified` (`"absent"`): `isEmailVerifiedForLogin` accepts them,
`isEmailExplicitlyVerified` does not. `left` is what is left of a code's lifetime, 0 at the very instant of its expiry, which still counts
(`auth.go:921`), and -1 after it; `cool` is what is left of the minute since a code was stored. Both
are counted from the `now` a handler takes between its mail and its write, and the write may land
later (`Stored`). That two
codes collide (one in a million) is left out.

### FundHistory

A date is the number of its UTC day, so that comparing the code's ISO strings is comparing
numbers; the unique index makes `snaps` a set of days. `Fetch` then
`upsertFundDailySnapshot` is a worker, which may save a date some days back; `CutoffDate`
then `DeleteMany` is the cleanup after a run; `AskRange` then `FindRange` is
the history route; `AskPurchase`, `FindBefore`, `FindAfter` are `findPurchaseSnapshot`.
The step between is where `Tick` (midnight) and everybody else come in. `saved` and
`kept` are history variables: what was ever saved, and what was there all through a
lookup. Net values, and the other funds that one `DeleteMany` serves, are left out.

### FundRecords

One document. `basic` numbers the quotation it shows: the upsert sets all of those fields
together. `extra` is the set of metadata and growth fields it has; their values
and `is_seed`, which no Go code reads, are left out. `FetchUpdate`/`UpsertUpdate` are
`updateSingleFund`, by a worker of the run and by a straggler of the one before; the
five steps of an import are `importFundByCode`; `FetchPatch`/`UpdatePatch` are the loop body of
`buildEnrichFundsResponse` and of `buildPerformanceFundsResponse`. A write that
fails may have been applied. `site` is external: the quotation the fund site shows.
`fund_code` is taken to be unique, by the index `uniq_fund_code` of the archived
backend; the Go code creates none.

## 3. The runs

Violation runs are explained in section 5.

| run | what it shows | bounds |
|---|---|---|
| `PipelineMany` | with several consumers, the record of a task does what `TaskLifecycle` allows unless two of them have held the task at once, and is left `running` only then or by a failing call; a message names a saved task, a rejected task never runs, a success shows no old error; the lock leaves its holder only by the holder or the TTL. All Redis and broker calls may fail, holders may be paused past the TTL | 2 tasks, 2 workers, 3 crashes or lost connections, TTL 2; symmetry of tasks and workers |
| `PipelineLive` | one consumer, failing calls, crashes and lost connections: the records implement `TaskLifecycle`, one update at a time; under fairness the lock is freed, and a message is settled and a running task ends, unless a call for it fails or no consumer ever comes back | 2 tasks, 1 worker, 1 synchronous request, 2 crashes or lost connections, TTL 2, limits 1 |
| `UpdateWorkers` | the run implements `UpdateRun`; each fund is one job however it was named, no job is lost or doubled; the answer is true and reports every code that was asked for; nothing starts after the return (part of `UpdateRun`); nobody waits at a channel for a goroutine that is gone; the pool drains | 3 codes, one also padded, 1 text that is no code, 2 workers |
| `UpdatePage` | an old poll never stops a new one; while the button is disabled something waits for its task; under fairness it is enabled again, also when the message was lost | 3 clicks, 3 starts of workers |
| `ReadCaches` | every served value was current at most its TTL plus one fill ago; a detail or watchlist is old only while its delete is to come, or because of a delete that was missed or a fill that overlapped a write | 2 readers, 1 writer, one write per source, TTLs 1/3/1, fills of at most 1 |
| `AlertLogs` | any overlaps and failures: one log per alert unless two checks raced, mails explained by failures or by two sends with the same list, a log that says sent was mailed, concluded logs stay unless two sends met | 1 item, 2 checks, 2 sends, 2 failures |
| `EmailCodes` | codes are mailed before they are stored, wrong answers are bounded, an account and its login are not lost, a fresh mail confirms, a mail within the cooldown has an explanation | 2 registrations, 2 resends, 2 verifiers, limit 2, lifetime 3, cooldown 3, contexts of 1 tick |
| `Watchlist` | duplicates come only from raced inserts without the index; the cached list and the open page are true, or a named race or failure explains it | 2 funds, 3 requests, with and without the index |
| `FundHistory` | with updates, cleanups, readers and lookups interleaved over midnights: ranges are whole, lookups miss nothing | days 0 to 3, retention 2, ranges of 1 and 2 days, one of each actor |
| `FundRecords` | fields stay, no fund without a quotation, answers are true, and under fairness the fund ends with the newest quotation | 2 updates, 2 imports, 1 enrich, 1 performance, 2 quotations, 2 + 1 fields, 1 failure |

**Why the bounds suffice.** A task interacts with another one only through the
lock, the queue and a worker that is busy, so two tasks, one worker and one
synchronous request meet every pairing; with two workers they meet every pairing of
consumers of one message and of two, and contenders for the lock; two failures allow a crash during the
recovery from another one, and the third of `PipelineMany` a further one while two workers have the same
task. `LockTTL` 2 with limits of 1 leaves a holder that keeps to its limit a tick to spare, as 30 s, 2 min
and 5 min do; the proofs are for all values. In `UpdateWorkers` three codes
over two workers make the jobs channel (capacity 2) fill up and one worker come back
for more; one default code, which the watchlists may name again, and one padded code meet each
case of the duplicate test. In `UpdatePage` a second click meets the polls of the first
and a third those of both; ids do not repeat and polls of different tasks do not touch each
other. In `Watchlist` a race needs two requests and a page that loads its list a third. In `ReadCaches` a race needs an old and a new version; ages are counted
in ticks, so more versions add only copies of it, and one TTL longer than the others
keeps a key alive across fills of others. In `AlertLogs` two checks and two
sends meet in every order, each interrupted anywhere; items do not touch each other except as entries of the
same lists, and one item already gives two logs when its checks race; the theorems are for any number. In `EmailVerification` two registrations, two resends
and two verifiers race in every order; the limit of 2 wrong answers is
overrun in the same way as 5, and the contexts are shorter than the lifetime and the cooldown. In `FundHistory` the longest range is as long as the retention,
the tight case, and four days let a day be saved, deleted and asked for on each side of a midnight; its
theorems hold for any number of actors. `EmailVerification` and `Watchlist` are proved for any
number of requests. In `FundRecords` two quotations make an
old one and a new one, and each kind of writer races with every other kind. Ages stop at a cap past which no property looks.

`CHECK_DEADLOCK FALSE` appears where the system may rest: every request
is answered, the queue is empty and nobody clicks. `ReadCaches` and `EmailVerification` always can step,
and TLC checks that they do.

**Fairness.** `PipelineLive` assumes weak fairness of Redis's clock, of each
goroutine that can step (contexts and client timeouts bound every call it waits for),
and of the restart of a backend that died (systemd). It does not assume that a process which lives on
without its consumer is ever restarted, because nothing does that: `MessageIsSettled` and `RunningEnds`
therefore end in "or every consumer is gone for good" (`[]NoConsumer`), which is what the code promises and no
more. Requests need not arrive,
failures need not happen and are finitely many (`MaxFailures`), and nothing is
assumed of records expiring. `UpdateWorkers` assumes the same of its goroutines,
not that the context ever ends. `FundRecords` assumes that update runs keep coming for
the fund (the workflow starts one on every working day, for the default funds and those on a
watchlist), that an import which has found no fund goes on (its context is 30 seconds)
and that the site moves on; it assumes nothing of maintenance requests. Failures are
finitely many. `UpdatePage` assumes that the request of a click reaches its handler, that timers fire
and requests are answered, and that Redis expires a record; it does not assume that any
worker ever takes the message.

**One consumer or many.** The documentation runs one backend, while
`backend-go/README.md` points out that several may share the task state. Most properties are checked
and proved for any number of consumers. Two are for one: `RunningEnds`,
`ImplementsLifecycle`. With two, a connection lost in the middle of an update makes the
broker deliver the message to the second consumer while the first still runs, and
a `MarkRunning` with a record read earlier can then overwrite the success that the
first has saved. `LifecycleUnlessShared` says exactly how far the promise goes: it is kept
to every task that two consumers have never held at once, whatever else crashes, disconnects or
fails. `RunningIsExplained` says the same of a task that is left `running`, with the handler's error,
which `PipelineStuck` shows, as the one other explanation.

## 4. What is proved

`tlapm` checks these for every value of the constants that satisfies the
`ASSUME` of the module.

Every safety property of a passing run is a theorem; only liveness is not.

`UpdatePipelineProofs`, from `PipelineConstants` (the limits are below the TTL;
workers, requests and markers are distinct) and `TaskIds`:

- `TypeCorrect`: `TypeOK`. Inductive with `LockTimed` (the key exists while its TTL
  is positive; without it `lockLeft - 1` could leave its range) and `TaskInHand`.
- `LockExcludes`: with `Prompt`, `MutualExclusion`. The invariant `HolderInv` says that every
  holder's token is in the key, and that the TTL left is at least `LockTTL` minus the
  holder's age: a holder within its limit still has time left, so Tick never takes the
  key from under it and SETNX never finds it free. `MutualExclusion` follows, since
  one key holds one token; alone it is not inductive.
- `LeaseSafe`: `LeaseLostOnlyByOwner`, without `Prompt`.
- `RejectionIsFinal`, `QueuedWasSaved`, `SuccessesAreClean`: `RejectedNeverRuns`, `PublishedIsSaved` and
  `SuccessIsClean` from `RecordInv`,
  which ties handler, queue, workers and records together (a rejected task is in
  neither queue nor hands; what a worker is about to save is clean). Any number of
  consumers.
- `UnsharedTasksKeepLifecycle`: for any number of consumers and any failures, `LifecycleUnlessShared`.
  `SoloInv` says that a task outside `shared` is in one worker's hands at most (`OneHolder`), and that its record
  still says what that worker wrote last, because nobody else writes it. A delivery to a second
  worker puts the task into `shared` and out of the claim.
- `RefinesLifecycle`: with one consumer nothing is ever shared (`NothingShared`), so the same steps give
  `ImplementsLifecycle`; initial states map to initial states.
- `SuccessStays`: with one consumer a success is final until it expires, through `RefinesLifecycle`.
- `RunningIsNeverForgotten`: `RunningIsExplained`, for any number of consumers, through crashes, lost connections,
  failing calls and pauses past the TTL. It is not inductive: `HandledInv` adds that a worker
  which releases or settles without an error has saved a result, and that the message of one whose channel has closed
  is back in the queue.

There too, from `PageConstants` and `TaskIds`, about `UpdatePage`:

- `PageTypeCorrect`: `PageTypeOK`.
- `ButtonIsServed`: `PageFollows`, for any number of clicks and whatever the server does with the records. `Waiting`
  says in which of three ways the page may be waiting (for the answer to a click, for the timer or status query
  of its task, for the funds after a success); `PageFollows` alone would let the poll of the current task end, or
  an answer come for a page that already follows another task.

`UpdateWorkersProofs`, from `RunConstants`. `WorkersInv` ties the control of caller, producer and
workers to the counts of the channels and to what was written:

- `JobsConserved`: `CodesConserved`. Needs that a taken job is in one worker's hands only
  while no result of it exists, and that `targets` repeats nothing (`appendUniqueValidCode`
  compares what it appends).
- `AnswersAreTrue`: `AnswerIsTrue`. A result that says OK, wherever it is, is of a
  code that was written, and the targets and skipped texts together are what the loops
  have consumed so far.
- `NoLateWriteStarts`: `NoWriteStartsAfterReturn`, which the run checks as a part of `ImplementsRun`
  (`BeginUpsert` of `UpdateRun` needs a run in progress). The caller is done only when the context is or
  when every job's result was collected, and then no worker has one to upsert.
- `PoolNeverSticks`: `NobodyWaitsInVain`, the safety half of `PoolDrains`. `Staffed` says when a worker may have
  left; that a result always finds room is a count: the results in the channel belong to distinct
  jobs, none of them the sender's (`ResultsCounted`).
- `RunIsAsPromised`: `ImplementsRun`, step by step. `WorkerAdvances` is the heart: a code that a worker has in
  hand has no other trace in the run (`OneTrace`), so the worker's step moves the progress of that code
  alone. Taking a job, sending a result, feeding and closing are hidden (`HiddenSteps`).

`ReadCachesProofs`, from `CacheConstants`:

- `CachesAge`: `TypeOK` and `EntryAges`, the inductive form of the bound, defined there: age of the
  entry plus lifetime left is at most TTL plus fill.
- `CachesBounded`: `StalenessBounded`, for all TTLs, readers and writers. It rests on TTL and fill alone and would
  hold without a single delete; that the deletes matter is the next one.
- `StaleEntriesAreExplained`: `StaleIsExplained`, inductive with the types: a write leaves its delete
  pending, and every way to miss the delete, or to set what was read before the write, excuses the key.

`AlertLogsProofs`, from `AlertConstants`:

- `SentMailed`: `TypeOK` and `SentWasMailed`. `TypeInv` adds that a log in
  a list of a send exists, and that `mark_sent` follows a mail.
- `DuplicatesAreExplained`: `DuplicateLogsExplained`. For an item outside `raced`, at most one check is about to
  insert, and only while the item has no log (`CheckInv`); a check looks at an item once (`OwnInv`).
- `MailsAreExplained`: `MailsExplained`. For a log outside `shared`, what the one send that has it read is
  still so: what it mails is `email_ready`, and a log that is still due has no more mails than failures, or is
  being mailed (`AloneWith`). The bound alone is not inductive: the count matters only together
  with what is still due.
- `ConcludedFinal`: `ConcludedStays`, from the same invariant.

All of them are for any overlap of requests.

`FundHistoryProofs`, from `HistoryConstants` (no range is longer than the retention):

- `RangesWhole`: `RangeIsWhole`. `RetentionInv` says that only days behind the retention are missing,
  and that no cutoff of a cleanup in progress lies in front of it nor a query in progress reaches behind it.
  Midnight moves the retention, so `MarginInv` adds that a query which has not seen one yet has
  a day of margin: a cleanup keeps the day its cutoff falls on, one more than the longest range
  needs. `RangeIsWhole` alone is about answers only and not inductive.
- `LookupsWhole`: `LookupMissesNothing`. `LookupInv` says that `kept` is part of the
  collection, and that a lookup in its second query has no kept day up to its date.

`FundRecordsProofs`, from `RecordConstants`:

- `FieldsKept`, `FundsAreWhole`: `FieldsStay` and `NoPartialFund`. Each write is one of two (`WritesKeepFields`), and
  each of them only adds to a document (`Grows`).
- `ResponsesTrue`: `ResponsesAreTrue`. Needs `ImportInv`: an import past its upsert has a fund
  to write to. The rest is that the document only grows under the other writers.

`EmailVerificationProofs`, from `VerificationConstants` and `NoDocIsNoUser`. `CodesInv` says of the user, of every
request and of every verifier what each code it holds owes to a mail:

- `StoredCodesAreMailed`: `StoredCodeWasMailed`; a request that is about to write has mailed.
- `AttemptsAreBounded`: `AttemptsBounded`, which is inductive with the types: a verifier starts only
  below the limit, and a write that fails only lowers the sum. Needs finitely many verifiers.
- `LoginIsForGood`: `LoginStays`, step by step; the one writer of a whole user finds none.
- `ConfirmationIsFresh`: `ConfirmedByFreshMail`. The inductive part relates three clocks: the
  lifetime left to a stored code and the age of its mail; the age of a mail and of the
  request that is about to store it; the age of a verifier's code and of the verifier.
- `CooldownIsExplained`: `CooldownExplained`. A request that has passed the cooldown and is
  still in time is at least as old as any code stored since.

`WatchlistProofs`, from `WatchlistConstants`. `ListInv` relates the documents, the requests in
progress and the cache; `PageInv`, with `Shape`, adds the page:

- `DuplicatesAreExplained`: `DuplicatesExplained`. An insert in progress has found none, so whatever item is there
  by the time it inserts was itself inserted by one that was in progress beside it.
- `CachedListIsTrue`: `CacheIsTrue`. Without a failure or a mixed fill, each request that is about
  to cache a list holds the stored one.
- `OpenPageIsTrue`: `PageIsTrue`. While `events` is empty at most one request that counts is running, and
  it is the page's (`Alone`): before its write the page is true; after it, what it has
  captured and read is what will make the page true when the answer arrives.

**Only model-checked:** the liveness properties, because the prover handles neither fairness
nor ENABLED: `LockIsFreed`, `MessageIsSettled`, `RunningEnds`, `PoolDrains`, `PageSettles` and
`FundCatchesUp`. No module uses a RECURSIVE operator.

## 5. Where code and documentation disagree

Two are kept as runs: in each, TLC finds a property violated that states what the documentation says.

- `PipelineStuck`: the SET that marks a task running is applied but returns an error (`worker.go:73`), or a
  later Redis call of the worker fails; the handler returns the error, the message is
  rejected without requeue and nobody saves a result; the record says
  `running` until its hour is over.
- `AlertsOverlap`: two sends overlap (a retry of `curl` while the first still runs is
  enough) and a log that is already `email_sent` is mailed again. (`alerts.go:659`)

Four more, seen in the models, for which no run is kept:

- `/api/update/async` never looks at the lock (`handler.go:86`), so that instead of the
  documented 409 (`backend-go/README.md:48`) the task is accepted and fails later.
- A worker deletes the detail keys under the context of its run (`worker.go:89`). After a
  timeout that delete fails, and `updated_codes` keep their old entries until the TTL even
  with a healthy Redis (`backend-go/README.md:40` says they are deleted). `ContextDone` of
  `ReadCaches` is this step.
- On timeout the run returns while an upsert that was already sent is on its way; it lands after the
  lock was released (`service.go:425`), where `backend-go/README.md:49` says that the lock keeps
  two updates from writing at the same time. What is true, and proved, is
  `NoWriteStartsAfterReturn`; the run checks it as a part of `ImplementsRun`.
  `EndUpsert` in a state with `caller = "done"` is this step.
- Two overlapping resends both pass the 60 second cooldown (`auth.go:837`), which
  `docs/interview-brief.md:165` lists without a condition. What is true, and checked and proved,
  is `CooldownExplained`.

## 6. What is not modelled

- Two accounts of one address: `users.email` is assumed to be unique, as the archived backend made it.
- Several tabs of one user as separate pages: they are the other clients of `Watchlist`. Charts, search and forms of the pages.
- Tokens, configuration, routing, logging: no state after start. Of login, only whom it accepts.
- The net/http twins of the gin handlers in `auth.go`: no route leads to them.
- Parsing and validation of what the fund site returns: one outcome (`Fetch`).
- The data loss of a Redis that restarts, and a MongoDB call that was cancelled
  by one request and lands after the next one has started (apart from the stragglers of
  `UpdateWorkers` and `FundRecords`).
- FIFO order and prefetch of RabbitMQ: no property depends on them.
- The archived Python backend is not deployed.

## 7. Plan

All of it is done, in this order.

1. `UpdatePipeline`, `TaskLifecycle` and their proofs: the lock and the queue are
   the heart of the service.
2. `UpdateWorkers` and its proofs: what happens inside the lock.
3. `ReadCaches` and its proofs: what readers see of it.
4. `AlertLogs` and `EmailVerification` with their proofs.
5. `FundHistory` and its proofs: the retention, ranges and purchase lookups.
6. `FundRecords` and its proofs: the writers beside the update run, and the partial failure of
   an import.
7. `Watchlist` and its proofs: find-then-insert with and without the unique index, the cached list, and
   the pages.
8. `UpdatePage`: the client that polls, composed with `TaskLifecycle`, and its proofs.
9. Several consumers of one queue: `LifecycleUnlessShared`, `RunningIsExplained`.
10. `UpdateRun`, and the proof that `UpdateWorkers` implements it.

What would come next: registration without the unique index, where `FindOne` may return either
of two accounts; the promise of a cache as an abstract module that `ReadCaches` implements; records of
tasks that two consumers hold at once, for which the code would first need a conditional write.
