# A TLA+ model of go_job's scheduler

go_job is a job scheduler: a server process (`src/backend/cmd/server`) keeps jobs in MySQL,
puts the running ones into a timing wheel, and at every firing takes a Redis lock, writes a row
of the job log and schedules the next firing by the job's cron expression. Several server
processes may share the database and Redis.

Paths below are relative to `src/backend/`.

## 1. Inventory

| component | state | operations | what is hard | what makes it correct |
|---|---|---|---|---|
| time wheel, `pkg/timer/time_wheel.go` | slot maps, task index, position, running flag, two channels | Start, Stop, AddJob, AddRecurringJob, RemoveJob; the loop's tick; safeRun | ticks and callbacks beside every call; Stop waits outside the mutex; rounds and wrap-around; a map written while it is ranged over | every job fires at its tick and once; index and slots agree; a stopped wheel is silent; Stop returns |
| Redis lock, `pkg/lock/redis_lock.go` | one Redis key with a TTL, a token per handle | Lock, MustLock, Refresh, Unlock, UnlockBestEffort | commands lost, late, repeated, answered after the caller gave up; expiry | who counts its TTL from its call holds the key until then; no key stays for ever |
| schedule service, `internal/service/schedule_service.go` | started flag, the wheel, the lock client | Start (with LoadRunningJobs), Stop, ScheduleJob, RemoveJob; the closure each entry carries | the closure takes itself out of the wheel and puts itself back while requests do the same; captured row and context; crash with the lock held; the flag's mutex is given back before the wheel is started, loaded or stopped; a load that fails in part | running jobs are scheduled and triggered, stopped ones are not, one trigger at a time in the cluster; loaded jobs stay unless their own trigger panics; the flag tells what the wheel does; calls return |
| job service, `internal/service/job_service.go`, `job_repo.go` | `job_info` | Create, Update, UpdateStatus, Delete, queries | database write and scheduler call are two steps; failure between them | the wheel follows the table |
| trigger and log service, `trigger_service.go`, `log_service.go`, `log_repo.go` | `job_log` | TriggerJob: Create, MarkRunning, run, MarkSuccess or MarkFailed | four writes, no transaction, any may fail; crash or panic in run; meanwhile the job moves to another executor, or the cascade of its deletion or of an executor's takes the row | as long as what a row refers to exists, the log is complete; it does not lie and only moves forward |
| job, trigger, executor and log API, `internal/app/handler` | none | HTTP handlers | the request's context; bindings that refuse zero; fields the ORM skips | an answered request did what it says |
| executor service, `executor_service.go`, `executor_repo.go` | `job_executor` | Create, Update, UpdateStatus, Delete | its deletion deletes jobs and logs by cascade | no job survives in a wheel |
| cron parser, `pkg/cron` | none | NextRun, NextDelay, DelayUntil | a boundary delay; rounding in the wheel | no occurrence is missed or doubled |
| heartbeat repository | `job_executor_heartbeat` | Create, Upsert, BatchUpsert, List, ListExpired, Delete | no caller yet; an Upsert moves a row within its list | a list is what its total says |
| pagination, `interface.go`, the four `List`s and their handlers | none | Normalize, Count, Find | two statements without a transaction; rows move between pages; int arithmetic | a page agrees with its total; a reader of all pages misses nothing that stays put |
| server process, `cmd/server/main.go` | | start-up and shutdown order | Stop while callbacks run; Start fails | a restart reloads every running job |
| the rest | | configuration, logging, middleware, responses, clients, generated API description, `cmd/executor` (health and ping only), four one-line placeholders | | |

Interactions. Handlers call services with the request's context. JobService writes `job_info`
through its repository and then calls ScheduleService.ScheduleJob or RemoveJob of its own
process. ScheduleService puts a closure into the wheel; the wheel calls it in a goroutine of its
own when it is due. The closure takes the Redis lock of the job, calls TriggerService.TriggerJob
(through the callback of `NewTriggerCallbackFromService`), which writes `job_log` through
LogService, releases the lock and calls ScheduleJob again. Foreign keys with ON DELETE CASCADE
(`scripts/init_db.sql`) tie the tables. Nodes share the database and Redis and nothing else.

`PROJECT.json` lists the hazards this gives, each at its line, with the properties that answer it.

## 2. Modules

| module | models | composed with |
|---|---|---|
| `DeadlineTimer` | abstract specification of a timer: every job carries the tick it fires at | |
| `Lease` | abstract specification of a lock with a TTL: an owner on record, clients that rely on it | |
| `TimeWheel` | `time_wheel.go`, method by method | implements `DeadlineTimer` (`RefinesTimer`) |
| `ServiceLifecycle` | Start and Stop of the schedule service, called by several goroutines | drives an instance of `TimeWheel`, whose actions are its steps on the wheel |
| `RedisLock` | `redis_lock.go`, the Redis server and the network between them, on one key | implements `Lease` (`RefinesLease`) |
| `JobScheduler` | schedule service, job service, server start and exit on several nodes | its wheels are those of `DeadlineTimer` without the clock: an entry fires at some later time; each job's `key` with the callbacks that trigger is again a `Lease` (`RefinesLease`); its step `Trigger` stands for a `TriggerJob` |
| `TriggerLog` | trigger and log service on `job_log` | |
| `CronSchedule` | cron occurrences, the delay, the wheel's rounding, the lock and the re-scheduling, on a common clock | its wheels are timers of `DeadlineTimer` in the ticks of each node (`RefinesTimer`), as `TimeWheel` is; its lock is a `Lease` (`RefinesLease`), as `RedisLock` is while no trigger outlasts the TTL |
| `JobApi` | the writing routes of the job and executor API on `job_info` and `job_executor` | its requests are those of `JobScheduler` seen from the client; what they do to the wheels is there |
| `PagedList` | pagination and the four `List`s, over one table that others change | |
| `MC*` | sets, symmetry | |
| `*Proofs` | theorems | |

Operators called mutants stand before the definition they vary. They are plausible mistakes in
the code, used to see that each property can fail; no specification refers to them.

### TimeWheel

Every method runs under `tw.mu`, so a method is one action: `Start`, `AddJob`,
`AddRecurringJob` (through `AddTask`), `RemoveJob` and `Tick`. `Stop` unlocks before it waits, so
it is two: `StopBegin` (close of `stopCh`, flag) and `StopReturn` (`<-doneCh`). `LoopExit` is the
loop goroutine taking `stopCh`, with its deferred close. Between them ticks and calls go on, as
`select` may prefer a tick to a closed `stopCh`. A call that is refused (negative delay, duplicate
id, wheel not running) changes nothing and is the absence of an action. The slots are a function
of slot and job, `Nil` where the map has no entry. A task that `tick` stores into the map it is
ranging over may or may not be visited in the same loop: `Tick` chooses, per job
(`MayBeRevisited`). The ticker is left out: a tick is processed at any time while a loop lives.
The callbacks are counted (`launched`), from the `go safeRun` to the return or the recovered
panic. A second close of a channel panics outside any recover: `crashed`.

### ServiceLifecycle

`s.mu` covers the flag only. So Start is `StartCall` (the flag), `WheelStart`, `ListJobs` (the
running rows, or an error), one `LoadJob` per row in any order, `StartReturns`; Stop is `StopCall`,
`WheelStop` and `StopReturns` (`<-doneCh`). A call that finds the flag as it wants it answers nil and
is the absence of an action. The wheel's own steps are `TimeWheel`'s actions of an instance, also
those of its loop (`Loop`) and its callbacks, which put their job back (`Rearm`) before they end, or
end in a trigger that panics (`CallbackPanics`): `safeRun` recovers the panic above the closure (`time_wheel.go:251-260`), so that
ScheduleJob is never reached and the job is in no wheel until a restart. `LoadedJobsAreHeld`
excepts the jobs whose own trigger has done so (`panicked`), and no others.
`ContextEnds` is the end of Start's context during the load. `promised` is history: the jobs an
answered Start owes its caller, all on nil, all that parse on an error of others.

### RedisLock

A handle is a `RedisLock` value: a fresh token, used for one Lock, Refreshes, one Unlock. A call
is a command put into `sent`; the server runs it whenever it likes (`ServeSetNX`, `ServeRefresh`
and `ServeUnlock`, the two scripts being atomic in Redis), or never (`Lose`), the client may send
it again (`Resend`, as go-redis does), and the caller reads the answer (`Receive`) or returns an
error without it (`GiveUp`). `Tick` is one unit of time on both sides, a millisecond or a multiple.

Lock uses the ttl the handle was made with; Refresh takes one of its own, refuses one that is not
positive, and sets the expiry to it (`redis_lock.go:127-135`), which shortens it if less is given than is left. A
command of an earlier Refresh may be served late and do so again. Hence `safe`, what the caller may
conclude: counted from the moment it made its last successful call, the TTL after a Lock, and after a
Refresh the shortest ttl it has refreshed with (`shortest`). A caller that counts on the ttl of its last
Refresh alone can be wrong. The run has ttls of 0, 1 and 2; the server itself calls no Refresh.

### JobScheduler

| code | actions |
|---|---|
| JobService.Create, Update, UpdateStatus, Delete: the database write | `CreateJob`, `UpdateJob`, `PauseJob`, `ResumeJob`, `DeleteJob` |
| what UpdateStatus and Delete do next | `RemoveFromWheel`, `ReadBack`, `AddToWheel` |
| a database call that fails with its effect done, or after the first write | `CreateUnanswered`, `DbFails` |
| a deleted executor's cascade | `DeleteExecutor` |
| the wheel fires | `Fire` |
| closure of ScheduleJob: triggerWithDistributedLock, onTrigger, ScheduleJob | `AcquireLock`, `SkipTrigger`, `LockFails`, `Trigger`, `TriggerPanics`, `Unlock`, `Rearm` |
| Redis ends the TTL | `KeyExpires` |
| main: Start (read, then fill), Stop, end of the process | `BootRead`, `BootFill`, `Stop`, `Exit` |

An entry of a wheel carries what the closure captured: the cron expression of the row as it was
when the job was scheduled, and whether its context will still be alive at the firing (`live`;
the context of an HTTP request ends with the handler). Which requests, callers and faults occur
is chosen by `Ops`, `Callers` and `Faults`, so that one run can ask one question. A pause has no
HTTP caller, because the handler refuses status 0 (`binding:"required"` on an `int8`, line 41 of
`job_handler.go`; `JobApi` has that refusal). `DeleteExecutor` deletes the executor's jobs by
cascade and tells no wheel. A first write to the database that fails changes nothing and is the absence of
an action. `BootRead` and `BootFill` are two steps: the HTTP server of the node starts after them, but
the other nodes write to the table between.

The nodes share the table and tell each other nothing, so table and wheels part in ways the code
does not prevent. `stray` names them: a node and a job, from the step that changed one side without
the other (a request served by another node, an update, a cascade, a request that failed half-way,
a panic in the trigger, a callback running when its job was removed) to the step that brings them
together again (a later request, a restart). The wheel properties except exactly these, so they
are checked, and proved, with every fault and any number of nodes. They say, then, that nothing else
parts the two; of the steps named they say nothing, and the known limits below list them.

`late` names the callbacks that go on triggering after the TTL of their key has ended (the fault "ttl").
Exclusion and the lease are about the others: a trigger within its TTL is alone among these, and a late one
that gives up its lock takes nothing from the callback that has it by then.

### TriggerLog

One action per database call of `TriggerJob`, for the calls of one job; `MarkRunning` is two (it
reads the row and writes it back). `DbFails` is an error of any of those calls, with or without
its effect; `Die` is a panic in `run` or a crash. The server passes `run = nil`, which succeeds; the
model also takes the errors that the parameter allows, with and without a text, since `MarkFailed`
refuses an empty one.

A log row has two foreign keys, each with ON DELETE CASCADE (`init_db.sql:74-77`): the job, and the
executor TriggerJob was called with (`executor[t]`). The handler passes the one it has just read; a
callback passes the one of the row its closure captured, from which the job may have moved
(`MoveJob`, a PUT of the job with another executor id). So `job` is the executor in the row of the job,
`executors` the rows of the other table, and a log row goes by `DeleteJob` or by `DeleteExecutor`, of
the job's own executor or of the one the log row names. Create is refused when either reference is
gone. The properties hold of the rows that are `Referenced`, that is, whose job and whose executor exist.
The rows of a living job's executions that go with an old executor are a known limit.

### CronSchedule

Here time is a number and the wheels tick at it: node `n` at `phase[n] + k * Interval`, as the
nodes start at different times. Occurrences are the multiples of `Period`. `NextRun`, `NextDelay`,
`DurationToTicks` are the code's; `DueTime` is the tick at which `addTask` and `tick` fire an
entry. That this is what `TimeWheel` does is shown by way of `DeadlineTimer`: `TickNo` counts the ticks of a
node, and in that count its entry waits and fires as the timer's (`RefinesTimer`). `Load` is a node's Start, `Fire` the
closure up to the trigger (or to the refused lock), `LockFails` its error returns from making and
taking the lock (`schedule_service.go:213-230`), after which the node does not trigger and only
re-arms; the key may have been set for all that. `Rearm` is its end: unlock, which may fail and leave
the key to its TTL (`Lost`, `Expire`), and ScheduleJob with the time it is then. `done`, `doubled`, `brief`,
`failed` and `missed` are history: the occurrences triggered, triggered twice, triggered by a run of
less than two ticks, not triggered by a node as its call of the lock failed or met the key left
by one that did; and the nodes that were re-scheduled past one.

Assumed of the environment: ticks are processed on time, the lock is asked for at the tick that
fires, the clocks agree, no trigger panics or outlasts the TTL, and no node stops. Where one of
these fails the properties may too: a panic takes the node out of the schedule (`JobScheduler` and
`ServiceLifecycle` have it), a trigger that outlasts its TTL lets a second one in, clocks that
differ by more than a trigger's length undo the de-duplication. The disagreements of `cron_twice` need none of them.

### JobApi

A request is received (binding, validators: answered 400 or accepted), runs one SQL statement,
and for a job that becomes running goes on to the read-back and the scheduling. Two requests may be
anywhere in that sequence. Of a payload the executor, the kind of cron expression and the status
are kept. The scheduling may always be answered 500, as AddJob refuses a job it holds and a wheel that
does not run (`time_wheel.go:124-143`), and is when the cron expression does not parse.
A connection may fail before a statement took effect (`DbFails`, which also stands for a
duplicate app name) or after (`Reply`). The handlers write the row they were given, not the row
that exists: an UPDATE of an id that does not exist is answered 200.

### PagedList

The four lists (jobs, executors, logs, heartbeats) are the same code: check the query, `Count`,
`Normalize`, `Find` with an order by stamp and id or by id alone. One table, one filter (a status)
and one reader stand for them; the map names a different one of the four at each definition, so
that all are covered. `Wrap` is the program's int, `Int8` the cut of the status
query, `Skipped` what GORM makes of a negative offset. `Change` is the effect of every writer on a
row and keeps the history of the list: `left` and `entered` count rows that go out of their place
and come into one, by a write of the row, a status the filter does not match, or a stamp that
moves it; `stayed` are the rows that never did. `walk` tells how the reader goes on: not at all, until a page is
empty, or until it has asked for as many rows as the answer's `total` and `size` say.

## 3. Runs

Passing:

| run | instance | shows |
|---|---|---|
| `wheel` | 2 jobs, 3 slots, 6 ticks; delays of 0, half a tick, 2, 3 and 5 ticks, intervals of 1 and 4 | slots and index agree; each job fires at its tick and once, through wrap-around, whole turns, removal and renewal; Stop waits for the loop |
| `service` | 2 callers, 2 starts, a job that parses and one that does not, 2 slots, 3 ticks, ends of the context, failing loads, panics | what a Start loaded stays in the wheel or in a callback that puts it back, unless a trigger of that job panics; without overlapping calls the flag tells what the wheel does, also after a failed Start; a channel is closed twice only after two Starts; every call returns |
| `lock` | 2 handles, TTL 2, refreshes with 0, 1 and 2, each command sent up to twice, 3 on the way at a time | a holder within the time it may count on has the key, whatever its own and the other's late or repeated commands do; a key has an expiry; the key is a lease |
| `scheduler` | 2 nodes, 1 job, 1 request at a time, 2 callbacks, a cron expression that parses and one that does not, callers whose context lives on, all six operations and all six faults | no running job drops out of the schedule of a node that was told of it; a stopped job is held only where it is stray; within its TTL one trigger of a job is alone in the cluster, under a lease; a key is given back by the callback it belongs to or left to its TTL, whatever fails; once nothing fails any more a running job that is not stray is triggered again and again |
| `log` | 2 triggers, 2 executors, every fault, moves of the job, deletion of the job and of executors | as long as what its row refers to exists, an execution is in the log; the log is truthful and moves forward; an execution without a fault gets its outcome |
| `cron` | 3 nodes, ticks of 2, occurrences every 9, triggers of 0 or 5, TTL 10, up to time 32, calls of the lock that fail | a job fires after its occurrence and less than two ticks late; an occurrence is triggered twice only if a trigger of it took less than two ticks; from the first triggered one on, each has been triggered when it is two ticks old, unless a call of the lock failed for it; no re-scheduling jumps over one; the model's wheels are timers |
| `api` | 2 requests, 8 routes, 2 executors, 1 job, failing database calls | a request answered 400 or 404 left nothing that is still there |
| `lists` | 3 ids, 2 stamps, 2 statuses; pages -1, 0, 1, 2, 6 and onwards, sizes 0, 2 and 5 of at most 2, an int of 4 bits, a status of 257 and of 2, 2 moves | a page has what its total leaves for it, but for what moved between the two statements; a reader of the whole list misses no more rows that stayed put than others left, and sees again no more than entered |

Violations, each a disagreement between the code and what it, its tests or its documentation say
(`findings` quotes the lines):

| run | counterexample |
|---|---|
| `scheduler_http` | a job created over HTTP keeps the request's context; `Lock(ctx)` fails at every firing and the job is never triggered until a restart |
| `scheduler_pause_race` | RemoveJob while the job's callback runs finds nothing; the callback schedules the job again |
| `cron_twice` | the lock is given back when the trigger returns, and names the job, not the occurrence: a node that ticks later takes it again for the same occurrence. The server's trigger is empty (`main.go:92` passes no `run`), so this is its normal case with two nodes |
| `api_pause` | a PUT of status 0, the route's own value for a pause, is answered 400: `binding:"required"` refuses the zero value of an `int8` (`job_handler.go:41`), and so for executors (`executor_handler.go:201`). No job can be paused over HTTP |

Known limits that need no run of their own, and how the passing runs are set around them:

- A trigger that panics skips the re-scheduling (`schedule_service.go:186-188`): the job is in no
  wheel until a restart or a resume, and stray (`panicked` in `ServiceLifecycle`). `ServedJobTriggers`
  excepts stray jobs.
- `ServedJobTriggers` speaks of a system that has stopped failing (`FaultStep`: no lock that could have
  been taken fails, no trigger panics, no process ends) and of callers whose context lives on; what a
  job created over HTTP does instead is `scheduler_http`.
- An error of the lock at a firing costs that node the occurrence, and if it has set the key for all that,
  the others too until the TTL ends (`failed` in `CronSchedule`). Nothing tries again.
- A trigger shorter than the distance of two nodes' ticks does not keep the second node out
  (`cron_twice`). `OnlyBriefTriggersRepeat` says that there is no other way, two ticks being the bound.
- Log rows of a living job go when the executor they name is deleted, though the job has moved to another
  (`init_db.sql:76-77`), also a row that is running: its MarkSuccess then matches no row and TriggerJob answers nil.
- A pause and a resume of one job at once: UpdateStatus holds nothing between its write and its call
  of the scheduler (`job_service.go:103-120`), so they may reach the table in one order and the wheel in the
  other, and leave a running job in no wheel. The runs have one request at a time, the theorem
  `JobByJob` assumes one of that job, `Scheduled` and `Unscheduled` one of each.
- A PUT of a job or an executor with status 0 is answered 200 and leaves the status as it was: GORM's
  `Updates` with a struct skips the zero (`job_repo.go:50`, `executor_repo.go:58`). The status routes refuse it (`api_pause`), so over HTTP a status only rises.
- A trigger longer than the 15 s TTL may be doubled by another node, as nothing calls `Refresh`.
  `TriggerIsExclusive` and `RefinesLease` are about triggers within their TTL; the longer ones are `late`.
- A recurring interval of exactly one turn (60 s in the server) goes back into the slot being
  processed with a round to wait, so every later run is a turn late but for the visit that Go's map
  iteration allows (`time_wheel.go:221`). The run `wheel` and the theorems take intervals without
  that (`NoFullTurn`); nothing in the server adds recurring jobs.
- Update of a running job does not call the scheduler (`job_service.go:86-94`): the wheel keeps the
  expression captured when the job was scheduled. `ServedJobTriggers` and the others speak of a job
  being in the wheel, not of which expression it was put there with.
- One running job whose expression does not parse makes Start fail and main exit
  (`schedule_service.go:147`). The data of `init_db.sql` has one, paused: `0 30 1 * *` has five fields,
  and 30 is no hour. Resuming it stores status running and answers 500; the next start fails.
- A database call that fails half-way in `TriggerJob` leaves the row pending or running for ever.
- An every-second expression on the server's one-second wheel: a firing is up to two ticks late, so
  re-scheduling jumps over occurrences. `NoOccurrenceMissed` needs `RunsFit`.
- A deleted executor's jobs stay in the wheels (`JobScheduler`: they are in `stray`).
- A POST of an executor with status 0 stores the column's default, 1 (`StoredStatus`).
- A wheel started again after Stop closes its channels twice when it is stopped again, and the
  process goes down. The program never does so; `PanicNeedsTwoStarts` says that it is the only way.
- A second Start while the first is loading, or after it failed, answers nil at once
  (`schedule_service.go:101-104`); a Start whose load failed leaves flag and wheel on, so that a
  retry loads nothing. main exits instead.
- A Start and a Stop at once: the flag may be taken back before the wheel was started. The Stop
  then answers that the wheel does not run, and the wheel runs under a flag that says stopped.
  `FlagTellsWheel` speaks of calls that do not overlap; main makes one after the other.
- A resume whose read-back fails has written status running and scheduled nothing; it answered an
  error. The job is stray.
- A pause, a resume or a create reaches only the wheel of the node that served it; the others learn
  of it when they restart. They are stray until then.
- The answer of a list carries the page size it was asked for, not the one it used (10 for 0, at
  most 200; `job_handler.go:161`). A reader that counts by it stops early; `NothingMissed` is about
  readers by total with a size in 1..200 and readers until an empty page with any size.
- `(page - 1) * size` may overflow (`interface.go:27`); a negative offset is not written and the first page
  comes back. `AnswerIsPage` speaks of pages whose first row has a number that fits an int.
- A status of 257 in a list's query is taken for 1 (`job_handler.go:321`).

Why the bounds are enough. The wheel's positions repeat every 3 ticks and no rule compares more
than one task with one slot at a time; 6 ticks are two turns, and 5 ticks of delay need a round
and a remainder. In `RedisLock` a conflict is between one holder and one stray command of another
handle; TTL 2 separates a fresh, a half-used and an expired lease, refreshes with 1 and 2 a shorter
and a longer one, and three commands on the way a late one of each handle beside the current one. In `JobScheduler`
jobs share nothing but the pool of callbacks, so one job shows all interleavings; two callbacks are needed
for a second firing while a removed job's callback still runs, and for two nodes to contend for the key
(one triggers or is late, the other takes, is refused or re-arms). In `TriggerLog` the triggers share only the
rows they refer to; two executors are one to leave and one to move to. In
`CronSchedule` an interval of 2 gives two phases, 9 is odd, so an occurrence falls on either
side of a tick, three nodes let one trigger, one be refused and one come last, and the clock stops after
three occurrences, which meet a tick at either offset; a trigger of 0 is shorter and one of 5 longer than the two ticks
firings are apart, and TTL 10 lets a lost key outlast an occurrence. In `JobApi` a request meets at most one other
on its row and one on its executor's. In
`ServiceLifecycle` two callers meet at every step and three would meet two by two; two slots and
delays of a tick let a job fire and return during a load, two starts give the restart. In `PagedList`
three rows on pages of one or two have a first, a middle and a last page, two moves let one row
leave and another enter around one page, and a stamp of two values gives ties and swaps. The
theorems remove the bounds where they exist.

CHECK_DEADLOCK is off in every run because each of these systems may stop: jobs run out, ids run
out, ticks reach `MaxTicks`, the clock `MaxTime`, triggers end.

Fairness, only where a liveness property is checked:

- `ServiceLifecycle`: the steps of a call that has begun (a goroutine that can run does) and the
  loop's `LoopExit`, weakly; once `stopCh` is closed, Go's `select` picks it sooner or later, since it
  chooses at random among the ready. Ticks, callbacks and new calls need not happen.
- `JobScheduler`: steps of requests and callbacks (goroutines that can run do), the firing of an
  entry of a node that stays up (what `TimeWheel` promises), and the TTL. Nothing external, no
  fault and no restart is fair. Firing is weakly fair per job and node, over any free callback.
- `TriggerLog`: the steps of a trigger that has begun; `run` returns.

## 4. Proofs

All theorems are for any constants that satisfy the modules' assumptions.

- `TimeWheelProofs`: arithmetic of `div` and `mod` (`DivMod`, `WrapAround`), placement of a task
  (`Placement`) and `TicksCoverDelay` (the tick count is the least one that covers a delay);
  `Typing`; `IndexAgreement` from `IndInv` (types, agreement, and that recurring tasks carry one of
  the given intervals); `StopWaits` and `OnlyRestartPanics` from `LifecycleInv`, which counts the
  loops against the two channels and the flag. For the rest the due tick of a stored task is computed
  from slot and rounds, and each action is shown to change it as the timer does (`AddTaskDue`,
  `TickDueOrLate`). `OneTimeJobsOnTime` and `RecurringNotLost` hold for every interval: a one-time job
  fires at its tick or is removed before, and an interval of whole turns costs a recurring one a turn at most (`Slack`).
  `RecurringOnTime` and `Refinement` assume `NoFullTurn` (see the known limits).
- `RedisLockProofs`: `Typing`; `HolderSafety` and `Exclusion` from `LeaseInv`: what a caller counts,
  also while the positive answer is under way, is backed by an expiry at least as far, no Refresh command
  on the way carries a shorter ttl than it counts, and an
  Unlock command exists only of a handle that has given up the lock (without that a late Unlock
  of the holder's own would break the step); `KeyAlwaysExpires`;
  `Refinement`, each step being one of `Lease` or none: a refused or late command changes nothing, an
  Unlock that is served clears the key under nobody who relies on it. `TheGoneStayGone`: a handle that is
  done, with nothing of it on the way, never comes back into the key, so the TTL that is left bounds the wait of the others.
- `JobSchedulerProofs`: `Typing`; `Exclusion` from `Holding`, the invariant that whoever triggers within
  its TTL has its own token in the key, for any number of nodes and callbacks and under every fault;
  `Refinement` from the same and from `LateOnes` (a callback is late only while it triggers, so that a new
  one starts within its TTL). `JobByJob`: for one request at a time on
  a job (`OneRequestOn`, see the known limits), whatever requests overlap on other jobs, and under every
  fault, that job is scheduled while it runs and unscheduled once it is stopped. It is proved from
  `Agreement`: node by node, what the table says and what the node holds (wheel, callback, load) agree
  unless stray, and while a request works on the job, what it has done so far fits what it has still
  to do. Only with that second part is the agreement inductive. `Scheduled` and `Unscheduled` are the sum
  over all jobs (`OneRequestPerJob`). `NoTokenLeftBehind` needs no assumption: a key with a callback's
  token belongs to a callback that is still triggering that job, under "ttl" and every other fault.
  Liveness: `EveryCallbackEnds`, `EveryRequestEnds` and, from the first and `NoTokenLeftBehind`, `EveryKeyIsFreed`.
- `ServiceLifecycleProofs`: `Composition` (every step of the service is one of `TimeWheel` or leaves the
  wheel alone), by which `TimeWheelProofs`, instantiated on the service's wheel, give its types and
  lifecycle facts; `Typing`; `FlagIsTrue` from what each step of the one call in progress has done; `OneStartIsSafe`; `LoadedStay`
  from `LoadInv`: a job loaded or promised is held, callbacks that have put a job back are among the
  launched ones, and a load in progress has put in what it is past. A job whose trigger has
  panicked is excepted. It holds until the wheel is
  stopped, as a stopped wheel refuses the callbacks. `NoStopWaitsInVain` from `WaitInv` (once `stopCh` is
  closed, `doneCh` is closed or a loop is left to close it), and from that the liveness of Stop, `EveryStopReturns`.
  `ServiceIsATimer` takes `Refinement` over to the service's wheel, which has one-time jobs only, so that `NoFullTurn` holds of it.
- `PagedListProofs`: the rows of a list have the ranks below its length, each once (`Ranks`), so a page
  has as many as its interval (`PageLength`). A change of one row moves any other by one place
  at most, and only one of them over a given position (`RankRises`, `UnseenGrow`, `SeenGrow`). `PageAgrees`
  from `Counted` (since the Count, the length has changed by what left and entered); `NoneMissed` and `NoneTwice`
  from `WalkInv`: rows that stayed, unseen and before the reader's position are at most as
  many as have left, and repeats so far with the seen rows still ahead at most as many as entered.
- `TriggerLogProofs`: `Typing`, `CompleteLog`, `TruthfulLog`, `AnsweredSuccess` and `ForwardStatus`,
  from an invariant that ties each program counter to the row's status and the outcome, and in which no row
  outlives what it refers to (`NoOrphanRow`); `OutcomeIsLogged`, liveness. All but `TruthfulLog` are about
  rows that are `Referenced`.
- `CronScheduleProofs`: `NextRunIsNext`, `NextRunFollows` and `DueAfterOccurrence` (arithmetic);
  `Typing`; `FiringIsOnTime` from `Timed` (when each node is due, for which occurrence, who holds the lock).
  `NothingIsMissed` and `SkippingIsSafe` from `Punctual`, under `RunsFit`: two ticks and a trigger fit
  between two occurrences, so that a trigger ends before the next occurrence and two nodes that
  overlap are at the same one. `EveryOccurrenceIsTriggered`, under the same, adds `NoGap`: an occurrence after a
  triggered one has been triggered or has failed too, or a node still waits for it or for an earlier one.
  `LockDeduplicates` from `Covered`: while a node still waits for an occurrence that only long triggers (two ticks
  or more) have triggered, the lock is taken until that node is due. It needs no assumption, nor do
  `OccurrencesGoForward`, `LockIsALease` and `WheelsAreTimers`. What the server's empty trigger makes of it is `cron_twice`.
- `JobApiProofs`: `Typing` and `ClientErrorsAreHarmless` from `ApiInv`: a request under way has passed its
  checks and names a row of the right table, and an id in use is not fresh, so that a row that is gone
  stays gone. `StatementKeepsInv` reduces each statement to what it does to the tables.

How liveness is proved. The prover has the temporal steps (PTL) but cannot evaluate ENABLED. So each
of the five liveness theorems is stated under a hypothesis that says where the proof needs a fair step to
be possible: `ReadyStepsEnabled` in `TriggerLogProofs`, `StepsEnabled` in `JobSchedulerProofs` and
`ServiceLifecycleProofs`. It names states by their program counter and says that the step the fairness is about
can be taken there; it claims nothing of when it is taken or what it does. TLC evaluates ENABLED: added as
an INVARIANT to the configuration of the module's fair run,
each of them holds, as does the property the theorem states. What is left to the proof is that the stages
follow each other, that no other actor can take a call, a key or a row out of them, and that they end.

Only model-checked:

- `ServedJobTriggers`: its progress goes through any free callback of the pool, so that its proof needs an
  induction over the callbacks that are busy.
- `CallsReturn` for Start: the load takes the jobs one by one, an induction over the set of those
  left. Its Stop half is `EveryStopReturns`.
- ENABLED, as said above.

Every other property of a passing run is also a theorem. These have hypotheses beyond the assumptions on
the constants:

| hypothesis | theorems | what it asks |
|---|---|---|
| `NoFullTurn` | `RecurringOnTime`, `Refinement` (both `TimeWheelProofs`) | no recurring interval is a whole number of turns |
| `OneRequestOn`, `OneRequestPerJob` | `JobByJob`; `Scheduled`, `Unscheduled` | one request at a time works on a job |
| `RunsFit` | `NothingIsMissed`, `SkippingIsSafe`, `EveryOccurrenceIsTriggered` | two ticks and a trigger fit between two occurrences |
| `StepsEnabled`, `ReadyStepsEnabled` | the liveness theorems | ENABLED, as said above |

## 5. Not modelled, and why

- BatchUpsert, BatchCreate and ListExpired: nothing calls them, and each is one statement or one
  transaction over the steps modelled.
- Queries of one row and `cmd/executor`: they change no state.
- The parsing of a cron expression (the robfig library): `JobScheduler` and `JobApi` know whether it
  parses, `CronSchedule` takes evenly spaced occurrences. `DelayUntil` has no caller.
- The rows' other fields, and ids and bodies that do not parse: answered 400 before anything else.
- A schedule service without a lock client: `main` makes none.
- Configuration, logging, clients, middleware but for recovery: no state of the system.

## 6. Plan

Done, in this order: `DeadlineTimer`, `TimeWheel`, `RedisLock`, `JobScheduler`, `TriggerLog`,
`CronSchedule`, `JobApi`; then `Lease` and its two refinements, `JobScheduler` on two nodes with its agreement
of table and wheels, `ServiceLifecycle` over `TimeWheel`, `PagedList`; and the proofs of each. What would
come next:

1. Proofs: a trigger of `JobScheduler` shown to be a `TriggerJob` of `TriggerLog`.
2. Two filters at once in `PagedList`, and `ListExpired` with the removal of dead executors, once the
   program has a caller of the heartbeat repository.
3. A third actor between `JobScheduler` and `TriggerLog`: the outcome a trigger writes when its job is
   paused on another node. `TriggerJob` does not look at the job's status today, so there is nothing to check.
4. Shards (`shard_service.go`) when they get code.
