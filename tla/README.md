# TLA+ models of tradeToolkit

Models, model-checking runs and machine-checked proofs for the stateful core of
tradeToolkit: the task queue, the screening tasks, the records of scheduled jobs,
the synchronisations of market data, imports, the pool of proxies, the fallback
between data sources, the daily jobs of strategies, and the session of a page of the frontend. Paths below are relative to `src/`.
`PROJECT.json` lists the runs, the theorems, the mutants that show each property
can fail, and the lines of code every definition stands for.

## 1. The system

tradeToolkit is a FastAPI application (`app/`) with a Vue frontend, a Redis task
queue, PostgreSQL tables, an APScheduler instance inside the web process, and a
library of data sources and agents (`tradingagents/`). Nearly all of its code is
asyncio: one coroutine runs until its next `await`, and every Redis command or
database statement is such an `await`. Several processes may share Redis and the
database, so an `await` is also where other processes may act.

| Component | State it keeps | Operations | What is hard | What makes it correct |
|---|---|---|---|---|
| Task queue, `app/services/queue_service.py`, `app/services/queue/` | Redis: ready list, a hash per task, a set of tasks in process per user and one for all, sets of completed and failed tasks, visibility keys | `enqueue_task`, `dequeue_task`, `ack_task`, `cancel_task`, `cleanup_expired_tasks`, `create_batch` | each is 2 to 7 Redis commands without a transaction, run by many workers and requests; workers die; tasks time out and are re-queued. No code under `app/` calls any of them yet | a task is delivered once, is not lost, and its slots are returned; limits are exceeded by a bounded amount; finished tasks stay finished |
| Visibility timeout, the same files | one key with `timeout_at` and a TTL per task in process | `set_visibility_timeout`, `clear_visibility_timeout`, the scan of `cleanup_expired_tasks` | two clocks (whole seconds of the program, TTL of Redis), two round trips | no task is taken from a live worker early; a dead worker's task comes back |
| Queue worker, `app/worker.py` | none of its own; writes the queue's sets | `worker_loop`, `process_task` | pops the other end of the list, takes no slot | counted like any other worker (it is not) |
| Pattern screening, `app/services/pattern_screening_service.py` | a row: status, `parameters` (progress, stop flag, error), `result` | `create_task`, `run_task_background`, `cancel_task` | read-modify-write of a JSON column by two coroutines, unconditional status writes, failure handling | the status is true of the run; a completed task has the whole result |
| Scheduler records, `app/services/scheduler_service.py` | rows of `scheduler_executions`; APScheduler's jobs in memory | listeners, `trigger_job`, `pause_job`, `resume_job`, `mark_execution_as_failed`, `delete_execution`, `cancel_job_execution`, the zombie check | rows are not linked to runs; the check updates by id what it selected before; the service, its listeners and its check come with the first request after a restart, and the check may be paused | while the check is armed, every running row is closed in time; a success is not overwritten; a running row is not deleted |
| Multi-source basics sync, `app/services/multi_source_basics_sync_service.py` | `_running`, the last status, a status row | `run_full_sync`, `get_status` | the flag is set long before the code that resets it | a request is refused only while another is served |
| Strategies, `app/services/strategy_task_service.py` | strategy, run, pool and backtest rows; an APScheduler job per strategy, in memory | `create_strategy`, `update_strategy`, `register_enabled_strategy_jobs`, `create_run` | jobs are removed, rows read, jobs added, while rows are edited; an expression may not parse; runs are checked for and then inserted | the job of a strategy that was stopped goes; no run is stored at present, see section 8 |
| Unified sync, `app/services/unified_sync_service.py`, `app/routers/multi_source_sync.py` | `_running_jobs` in memory | `run_sync`, `cancel_job` | a cancellation is written and never read; steps fail, swallow exceptions or do nothing | the table is true of the runs; every job ends |
| Sync workers, `app/worker/akshare_sync_service.py` and its siblings | one shared service, counters | creation and connection test, download and store | published before it is tested, used by jobs and other callers | one failed connection at most is reported; every symbol is counted once |
| Single-source sync, `app/services/basics_sync_service.py` | `_running`, a lock, a status row | `run_full_sync`, `get_status` | forced requests overtake others and reset their flag | the flag never outlives the last run; every request is answered |
| Imports, `app/services/database/backups.py` | rows of a table | `import_data`; backups and exports only read | errors caught inside a transaction | all or nothing |
| Data source manager, `tradingagents/dataflows/data_source_manager.py`, `interface.py` | current and available sources | fallback chains | an error text against an exception, a pair against a text | an answer of a backup source reaches the caller |
| AKShare network layer, `tradingagents/dataflows/providers/china/akshare_network.py` | a list of proxies, a position, failure counts | `refresh`, `next_proxy`, reports, `request` | threads; the lock is released between choosing a proxy and reporting on it | dead proxies are left alone; a working one is found |
| Market data caches, `tradingagents/dataflows/cache/` | files, Redis keys, rows | TTL reads and writes | the package cannot be imported, see section 8 | - |
| Rate limiting, `app/middleware/rate_limit.py`, `app/core/redis_client.py` | a counter with TTL per user and endpoint | one increment per request | the TTL is renewed with each increment | the window ends |
| Progress tracking, `app/services/progress/` | steps with weights | step changes, percentages | rounding, order of steps | progress never goes back |
| Session of a page, `frontend/src/stores/auth.ts`, `frontend/src/api/request.ts`, `frontend/src/utils/auth.ts`; `app/routers/auth_db.py` | two tokens in a store and in local storage, a flag, retry counters in requests | login, logout, calls with their repetitions and refreshes, the refresh timer, the check of a new page | calls and the timer refresh at the same time; tokens run out under way; answers are lost | a session ends only for a reason; every call ends |
| Configuration, users, favourites, tags, logs | rows | create, read, update, delete | little | database constraints |
| The rest of the frontend, command line, agents library | presentation, prompts | - | - | - |

How they interact: the operations of the task queue are written for requests that
enqueue and cancel, for worker processes that dequeue and acknowledge, and for a
periodic cleanup, which would meet only in Redis. At this commit nothing under
`app/` calls them: `routers/queue.py` and `routers/sse.py` read statistics and
records, and the loop of `app/worker.py` pops the list itself (BLPOP) and is
shadowed by the package `app/worker/`. The queue is therefore modelled as the
interface of its service, with callers that may call any operation at any time or
never, and nothing is claimed that needs them to come back. A request creates a screening
task and hands its run to FastAPI's background tasks, and later requests cancel
it; they meet in one row. `lifespan` only hands APScheduler over
(`main.py:344`); the first request to `/api/scheduler` creates the scheduler's
service (`scheduler_service.py:826-833`), and from then on APScheduler calls its
listeners, which start coroutines that write the rows `trigger_job` announced, and
its zombie check. Sync jobs, scheduled
downloads and requests share one AKShare service, and their downloads, in threads
of the default executor, one pool of proxies. A page of the frontend calls the
routers with its access token; the server keeps nothing of a session and judges
each token when it sees it. Redis, PostgreSQL and
APScheduler are modelled only by what these services use of them.

## 2. Modules and plan

| Module | Models | Proofs |
|---|---|---|
| `TaskQueue` | the five operations of the queue, command by command | `TaskQueueProofs`: types, records before ids, slots, overshoot, the reasons of a refusal |
| `AbstractQueue` | what the queue promises of one task: it waits, is run by one worker at most once, and ends | |
| `TaskQueueRefinement` | `TaskQueue` as an `AbstractQueue` | `TaskQueueDeliveryProofs`: delivery, counting, reachability, finality, the refinement |
| `MCTaskQueue` | task, user and symmetry sets for TLC | |
| `VisibilityTimeout` | the clock of one visibility key | `VisibilityTimeoutProofs` |
| `PatternScreening` | one screening task and its cancellations | `PatternScreeningProofs` |
| `UnifiedSync` | the job table, the step loop, the shared AKShare service | `UnifiedSyncProofs` |
| `SingleSourceSync` | the guard and the lock of the basics sync | `WebWorkProofs` |
| `DataImport` | one import in its transaction | `WebWorkProofs` |
| `ProxyPool` | the pool of proxies and the requests that go through it | `ProxyPoolProofs` |
| `BrowserSession` | the tokens of a page, its calls and its refresh timer | `WebWorkProofs` |
| `StrategySchedule` | the rows of strategies and their daily jobs | `WebWorkProofs` |
| `WebProcess` | these seven as the work of one web process and of a page it serves, with its fairness | `WebWorkProofs`: each part is itself in the process |
| `JobExecutions`, `MCJobExecutions` | the execution rows of one job | `JobExecutionsProofs` |
| `AbstractExecutions` | what the table of executions promises of a row: it comes once, is closed, and is not relabelled by those who come late | |
| `JobExecutionsRefinement` | `JobExecutions` as an `AbstractExecutions` | `JobExecutionsProofs`: the refinement |
| `JobExecutionsHistory` | the same with history variables that link rows to runs | |
| `BasicsSync` | the guard and the status upsert of the multi-source sync | |
| `DataSources` | one request for prices and its rounds of backup sources | |

The order was: the queue, because everything else feeds it or copies its
patterns; the two other places where concurrent writers share a row; what the
queue promises and the refinement; then the work that shares memory inside the web
process, and the one state machine of the frontend. Of what was once planned, four modules are not written, because the code
they would model is not run: the queue worker (`app/worker.py` is shadowed by the
package `app/worker/`, and nothing enqueues what it would take), `create_batch`
(no caller), rate limiting (the middleware is never installed) and the market
data caches (they cannot be imported). Worth adding when the code changes: the
runs of strategies once they can be stored, and the sync behind the guard of
`run_full_sync` once a request reaches it.

## 3. Correspondence with the code

**TaskQueue.** One action per Redis command: `EnqCheckUser`, `EnqCheckGlobal`,
`EnqStore`, `EnqPush` are `enqueue_task`; the `Deq*` actions are `dequeue_task`
with `mark_task_processing` and `set_visibility_timeout`; `Ack*`, `Cancel*` and
`Clean*` are the other operations. The local variables of a coroutine are its
program counter and the task in its hands (`wpc`/`wtask`, `cpc`/`ctask`,
`kpc`/`ktask`/`kexp`; `enq` for producers, whose task ids are fresh). A task's
hash is its `status`; the owner never changes and is the constant `Owner`. The
ready list is a sequence with its left end first: `LPUSH` puts before it, `RPOP`
takes the last. Visibility keys are three sets: present, past `timeout_at`, and
with a TTL. `TimeoutPasses` and `KeyExpires` let time pass at any moment. The
death of a coroutine (`*Dies`) stands for a killed process and for a Redis error,
which the `except` clauses turn into an early return; `cleanup_expired_tasks`
catches the error of one task and goes on with the next. The hash read at the
start of `ack_task` and of `_handle_expired_task` (the owner) is merged with the
command that follows, because nothing ever rewrites the owner. Of
the hash written by `enqueue_task` only the status is kept; the batch set, the
parameters and the time stamps are left out.

**TaskQueueRefinement.** Where a task is (`Place`) follows from the ready list,
the workers' hands and the sets of finished tasks, never from the `status` field,
which `cancel_task` overwrites at any time. On the list or in the hands of a
worker that has not got through `dequeue_task` it waits; in other hands it runs;
then it is completed, failed, or withdrawn if it left the list unrun.
Tasks that were found overdue or on which a coroutine died are exempt: the code
relabels, re-runs or forgets them, and `AbstractQueue!Exempt` lets go of them.

**VisibilityTimeout.** Time in ticks, `Sec` of them to a second.
`set_visibility_timeout` is `Stamp` (HSET) and `Expire` (EXPIRE). `Scan` runs in
every tick, more often than any caller would. A second worker takes a task that
was put back, so deliveries repeat.

**PatternScreening.** `status`, `stopFlag` and `stored` are the row: `status`,
`parameters["cancel_requested"]`, and how many symbols `result` accounts for.
`RunLoad` to `RunConfirm` are `run_task_background`; `ProgressRead` and
`ProgressWrite` are `_update_task_progress`, whose copy of `parameters` is
`paramsRead`; `ErrorRead`, `ErrorWrite` and `ErrorStatus` are the two paths of
`_update_task_status` in the exception handler. A symbol with too short a history
takes the `continue` of line 257-259 and skips the batch update.

**UnifiedSync.** A job goes through `Request` (the router's answer), `Begin` (its
entry in the table), and per step `StartStep`, a connection test if it is the
one to create the service, `TakeUp` of some symbols, `Handle` of each, and
`Answer`; the four sync methods with symbols have the same loop, and the map shows
it in `sync_financial_data`. How a step can end is the set `Ways`: an exception out of it, an answer,
an exception it swallowed, or nothing for a source no branch knows. `CancelJob`
changes the table and nothing else. `OtherCreates` and `OtherConnects` are a
scheduled download or a request that needs the same service.

**SingleSourceSync.** `Guard`, `Skip` and `Reset` are the code under the lock.
`Skip` is a state of its own because `get_status` is awaited with the lock held.

**DataImport.** `txn` is the state of the PostgreSQL transaction. `RowFails` is
the `except` clause of one row: the driver may have stopped it (the transaction
goes on) or the server (it is aborted); `Commit` of an aborted one changes nothing.

**ProxyPool.** A critical section of the pool's lock is one action: `Refresh`,
`Pick`, `Served`, `Refused`. What is read outside of it has an action of its own:
the pool's size (`NextRound`) and its age (`CheckAge`). A proxy works or does not
for the whole behaviour (`works`). Static proxies are numbered first, then those
of the API, which may fail to answer a refresh; 0 is the direct connection.

**BrowserSession.** `access` and `refresh` are the tokens of the store, by what
the server will say of them: an access token is fresh or stale, a refresh token
good or dead. A task is a call or the timer; `taskPc` says whether its request, or
the refresh made for it, is under way or waiting to be repeated. `Sends` is the
request interceptor, which reads the newest token; a refresh takes the token it
finds (`carried`), and may be overtaken by another. `Answered`, `Broken`,
`Unauthorized`, `StartRefresh` and `Lost` are the branches of the response
interceptor; so are `RefusedByCode`, an answer of status 200 whose body has a code
of authentication, and `RefusedByMessage`, one whose message speaks of a Token or a
login; `Refreshed`, `RefreshRefused`, `RefreshBroken` and `RefreshLost` the
outcomes of `refreshAccessToken`, with what the interceptor, or the timer, does
next. `handling` is the flag that keeps `handle401Error` quiet for three seconds.
The server's answer to a token is part of these steps, because it keeps no state;
time and the database enter as `Expires`, `SessionEnds` and `DatabaseFails`. A
`Reload` ends the tasks of the page and keeps what is stored. A call shows a view,
logs out, or checks the token of a new page: what ends the session when it fails
differs. A view may catch the error of its call or not. What it lets through reaches
`app.config.errorHandler` (`main.ts:51-70`), which clears the session for a status
or code 401 and for a message that contains `Token`, `认证失败` or `登录已过期`: a
refusal about the token of a data source is enough (`request.ts:203-206`), and the
error of a call that could not be refreshed as well. Other errors leave the session
alone. `excuse` records that something happened which may end a session; an
answer of these two kinds is such a thing. No router at this commit answers with a
body code of authentication, but the interceptor is ready for one.

**StrategySchedule.** `strategyStatus` and `plan` are a row: its status, and its
schedule as the loop of `register_enabled_strategy_jobs` sees it. `cronJob` is
APScheduler's memory, empty when the process starts. `RemoveJobs`, `FindEnabled`
and `AddJobs` are that function around its one `await`; `FindFails` and `AddFails`
are its exceptions, which end the start of the process (`startLook`, `startAdd`) or
this turn of the reconcile job (`look`, `add`). `AddFails` adds any of the jobs,
since the SELECT states no order. `UpdateStrategy` commits any status and any
schedule, which is what two overlapping edits may do.

**WebProcess.** The seven modules share no state, so each behaviour follows one of
them (`focus`) and the others stand still: what the module adds is the
specification under which all of that work makes progress.

**DataSources.** A request from the tool down to the adapters and back. A result
is a text with prices, an error text, or the pair `_try_fallback_sources` returns.

**JobExecutions.** A row has a status and a time stamp. `zombie` is the status
`failed` with the message of the zombie check, kept apart because the properties
ask who wrote it. `sched` is APScheduler's next run time (none, by the trigger,
now), `run` the job's only instance. `RecordLook`, `RecordUpdate` and
`RecordInsert` are `_record_job_execution`, whose SELECT and UPDATE are two
awaits; `RecordFails` and `TriggerFails` are its exception handler. `Restart`
keeps the table and nothing else: `check` is `none` until `CreateService`, the
first request of `/api/scheduler`, adds the listeners and the job of the check, and
until then a run that ends is heard by nobody and no request of the service is
served. The job of the check is an ordinary job: `PauseCheck`, `ResumeCheck` and
`TriggerCheck` are the routes of `routers/scheduler.py` applied to it. A run of the
check that is due may be missed by a busy loop or skipped while the last one is at
work (`ZombieMissed`), and may raise (`ZombieFails`).
`calmSince` is the last moment at which the check was armed, missed or in error.
Two first requests could both create the service in FastAPI's thread pool and
double the listeners; the model has one service per process.

**JobExecutionsRefinement.** The table and the clock are the abstract ones; hidden
is what coroutines have read and not yet written. An abstract row tells apart who
may still change it: a listener only a young row (`Reports`), the check only an
old one that has not ended well (`TimesOut`), a deletion only a closed one
(`Removed`); a row that a user condemned may be any (`Condemned`).

**BasicsSync.** The flag, the guard under the lock, and the upsert, with the keys
of the filter and of the document as sets: the insert refuses a keyword given
twice.

## 4. Runs

| Run | Checks | Instance | Shows |
|---|---|---|---|
| `QueueCancel` | `TypeOK`, `RecordBeforeReady`, `NoLeakedSlot`, `BoundedOvershoot`, `SingleDelivery`, `RunningIsCounted`, `QueuedIsReachable`, `FinishedStays` | 3 tasks, 1 user, 2 workers, 1 canceller, limits 1, 1 death | bookkeeping survives every interleaving with cancellations and one death |
| `QueueCleanup` | `NoLeakedSlot`, `RunningIsCounted`, `SingleDelivery`, `RunsAtMostOnce` | 2 tasks, 2 workers, 1 cleaner, limits 1, 1 death | slots, counts and delivery survive cleanups; the abstract queue is implemented |
| `QueueUserLimit` | `UserLimitHolds`, violated | 3 tasks, 2 users, 2 workers | the second check does not stop the race |
| `VisibilityTtl` | `TypeOK`, `TtlWins`, `NotStolenEarly` | seconds of 3 ticks, timeout 2 s, 24 ticks | the key vanishes before it can be overdue; nothing is taken early |
| `VisibilityRecovery` | `DeadWorkersTaskIsRecoverable`, violated | the same | a dead worker's task is never found |
| `WebProcess` | `TypeOK`, `CompletedIsWhole`, `EarlyCancelSticks`, `ReturnedIsReported`, `CompletedStays`, `ScreeningSettles` | screening: up to 5 symbols, batches of 2, 2 cancellations, 1 fault | the row tells the truth about the run |
| | `SyncTypeOK`, `TableIsTrue`, `ConnectionFailsOnce`, `EveryJobReturns` | unified sync: 2 jobs, up to 2 steps of up to 2 symbols, 1 other caller | the table tells the truth about the jobs |
| | `FlagMeansServing`, `EveryAskIsAnswered` | basics sync: 2 requests, forced or not, again and again | no flag is left behind, no request left waiting |
| | `ImportIsAtomic` | imports of up to 3 rows, again and again | all or nothing |
| | `DeadProxiesAreLeftAlone`, `NoNeedlessFailure` | 2 threads, a proxy and the direct connection, 2 rounds, limit 3 | rotation finds what works |
| | `SessionTypeOK`, `NoNeedlessLogout`, `EveryCallSettles` | a page: 1 call and the timer, 2 repetitions, 1 token that expires or is refused | no session is lost in a race, no call goes round for ever |
| | `StoppedStrategiesStop` | 2 strategies, edits, pauses, failures and restarts without end | what nobody wants any more stops |
| `PatternFailure` | `FailureIsReported`, violated | up to 3 symbols, 1 fault | a failed run stays "running" |
| `JobExecutions` | `TypeOK`, `SuccessIsNoZombie`, `RunningRowsAreKept`, `RowsLiveOnce` | 2 rows, 1 listener, 1 trigger, 1 deleter, the service created late, its check paused, resumed and triggered, 3 time units | successes stay, deletions are harmless, the abstract table is implemented |
| `JobCheck` | `RunningRowsGetClosed`, `RowsLiveOnce` | 1 row, 2 restarts or failed or missed checks, a period of 2, 5 time units | an armed check closes rows in time; a row keeps its life across restarts |
| `JobZombie` | `ZombieMeansDead`, violated | 2 rows, 5 time units | a long run that succeeded is recorded as timed out |
| `BasicsSync` | `SkippedOnlyWhileBusy`, violated | 2 requests | a request is refused though nothing runs |
| `DataFallback` | `FallbackReachesCaller`, violated | 3 backup sources, every order and availability | a backup's prices are lost on the way back |

What the violated runs show:

* **User limit** (`queue_service.py:116-124`): the comment says the second check
  prevents the race; it bounds the excess (`BoundedOvershoot`, proved) and no more.
* **Recovery of a dead worker's task** (`queue/helpers.py:51-54`): the TTL of the
  visibility key equals the timeout, so Redis removes the key exactly when a scan
  could first see it. `TtlWins` is the other side of it and is proved.
* **Failed screening** (`pattern_screening_service.py:437-447`): with an error
  message the status is not written.
* **Long runs** (`scheduler_service.py:654-658`, `577`): rows older than five
  minutes are not found again.
* **Stuck sync flag** (`multi_source_basics_sync_service.py:129-137`,
  `core/pg_adapter.py:246`).
* **Lost fallback** (`data_source_manager.py:1131-1151`, `2185`): a pair is
  returned where a text is expected.

Disagreements met while modelling that need no run to be seen are listed with
them in `PROJECT.json`: a cancelled unified sync goes on and ends as completed
(`CancelJob` against `Complete`); an AKShare service whose connection test failed
is used from then on (`ConnectFails` leaves `service` in place); Tushare is
offered as a source and ignored (`UnknownStep`); the record of a unified sync is
never made; histories are downloaded and not stored; an import reports rows that
were rolled back (`inserted` against `table` after `Commit`); the single-source
sync reports success and does nothing; a configuration cannot be saved; the caches
cannot be imported; a refresh restarts the rotation of the proxies; the pause
between requests is not kept by threads; a missing import in `is_trading_day`; a
refresh without an answer ends the session it was meant to keep; a failure of
the database is answered as an unknown user and logs pages out; a strategy that is
enabled by an update has no daily job (`Wanted`); one expression that does not
parse takes the jobs of other strategies away and keeps the process from starting
(`AddFails`); strategies cannot be read once there is one; and the pause of a
strategy's job lasts ten minutes at most (`RemoveJobs`).

Every property of a passing run has a mutant: a definition altered the way a
plausible mistake would alter the code (a put-back that is forgotten, a check
that is dropped, a TTL that is too long), under which the run fails.

## 5. Bounds

* Queue: limits of one with two workers are the smallest instance in which a
  worker is refused while another passes; three tasks let one wait, one run and
  one be cancelled. One death (`MaxCrashes = 1`) already leaves every kind of
  leftover state for the others to meet. Re-queued tasks go round again,
  so the run with a cleaner has two tasks, no canceller, and analyses that only
  succeed (`Outcomes`): nothing its properties read depends on how an analysis
  ends. Cancellations and cleanups meet only in the proofs, which set no bound.
  Producers enqueue each task once.
* Visibility: 24 ticks are eight seconds, enough for three deliveries with a
  timeout of two; three ticks to a second let an EXPIRE fall in the same second
  as its HSET or in the next.
* Refinements: that of the queue is checked where a cleaner and a death interfere,
  that of the executions with two rows that interfere, and with one across restarts and failed or missed checks; both are proved
  without bounds, the queue's with cancellers as well.
* Screening: five symbols in batches of two end on a full batch or on a partial
  one; the code's batch is 50. Universes of every size up to the bound, the
  empty one included, are tried.
* Unified sync: a second job and a second step are what it takes to meet the
  service while another tests it or after its test failed; two symbols make the
  loop turn.
* Basics sync: two requests that come again and again, so that one can overtake
  the other, wait for it, or be turned away. Imports: three documents, so that one can fail between two others.
* Proxies: `Rounds`, `MaxFailures` and `IncludeDirect` have the code's defaults,
  2, 3 and true. With one configured proxy and the direct connection a request
  has four attempts, one more than a dead proxy may take. With two dead proxies
  (`NumStatic = 2`) it has six and they may take all, and
  `NoNeedlessFailure` is violated: that is the finding on the rotation, and the
  hypothesis of `NobodyFailsNeedlessly` (section 7) draws the line just there. The
  set of proxies that work is any, none included.
* Page: one call and the timer race for the tokens, and every call behaves alike;
  the proof has any number of them. `MaxRetries` is the code's default of 2.
  `MaxMishaps` bounds the tokens that run out or are refused: with one, a token
  expires under way and two tasks refresh it, or a refresh is refused. Without
  such a bound a call could be refused after every refresh; that takes a token
  that runs out each time, an hour after it was issued. Logins, reloads, lost
  answers and failing calls are not bounded.
* Strategies: two, so that one row's broken expression can take the job of the
  other. Nothing else is bounded; the proof has any number of them.
* Web process: since behaviours follow one work each, the bounds of the parts
  add up instead of multiplying, and nothing is lost: no action of one part reads
  what another writes.
* Jobs: ages are scaled down (`Recent` 0 for 5 minutes, `ZombieAge` 1 for 30,
  `Period` 1 or 2 for 5, `Delay` 1). `JobExecutions` has no faults and `MaxTime` 3:
  a row can grow too old for a listener and old enough for the check. `JobCheck`
  has two faults and `MaxTime` 5, past `ZombieAge`, a period and the check's delay:
  a bound one shorter than the property's is violated there. `Delay` bounds the time between two statements of
  one coroutine; `Recent + Delay <= ZombieAge` is assumed (5 minutes and the delay
  of a statement against 30 minutes). Without it a listener could find a row, wait
  half an hour, and have its success overwritten. Rows are finite, so a behaviour
  stops when the table is full: these runs do not check deadlock. `JobZombie` uses
  ages 1 and 2. The other runs stop when every task is over.
* Data sources: none; the three backups, every order and every set of available
  ones are the code's own.

## 6. Fairness

The task queue has none: no code at this commit polls `dequeue_task`, so that a
queued task is ever taken cannot be claimed. Its properties are safety.
`WebProcess!WebFairSpec`: weak fairness of the screening's run and of each job's
`run_sync`, which are coroutines that nothing but their own awaits holds up, and
whose awaits end (providers answer, raise or time out). The requests of the basics
sync wait for an `asyncio.Lock`, which wakes its waiters in order: a request that
waits is served although others take the lock again and again, and that is strong
fairness of `Serve(a)`. A call of a page has weak fairness of its next step: axios
gives up on an answer after a minute, and `setTimeout` comes back. Nobody has to
cancel, to ask, to log in or to reload. APScheduler runs the job that reconciles
the strategies' jobs every ten minutes as long as the process lives and nobody
pauses that job, which is weak fairness of `PlannerProceeds`; a process that went
down need not come back. `RunningRowsGetClosed` is
a bounded, hence safe, form of "every row is closed while the check is armed":
it needs no fairness, because time does not pass a due check (`Tick`) that was not missed.

## 7. What is proved

The proof modules extend the models and use their assumptions on the constants
only (`OwnerAssumption`, `LimitAssumption`, `WorkersAssumption`,
`NoTaskAssumption`, `OutcomesAssumption`, `CrashAssumption`; `SecAssumption`,
`TimeoutAssumption`; `BoundsAssumption`, `BatchAssumption`; `TimesAssumption`, `NoRowAssumption`;
`SyncConstants`; `AskersAssumption`; `PoolConstants`; `SessionConstants`). The
theorems hold for any number of tasks, workers, cancellers, rows and so on.

* `TaskQueueProofs`
  * `TypeCorrect`: `TypeOK` is inductive; the removal of an id from the list
    (`Without`) is shown to give a sequence of tasks again.
  * `RecordsComeFirst`: inductive together with "an id of a producer past HSET
    has its hash, and so has every id a cleanup works on".
  * `SlotsHaveOwners`: `NoLeakedSlot` is inductive given types: a step that adds
    a slot makes its worker the owner, a step that ends ownership removes the
    slot first, and a death adds the task to `abandoned`.
  * `OvershootIsBounded`: the bound alone is not inductive, since a worker that
    passed the check has not added its task yet. The invariant counts those
    workers as well: the set of a user plus the workers about to mark a task of
    that user stay below the limit plus the number of workers.
    `OneWorkerKeepsTheLimit`: the same invariant says that the second check does
    what its comment claims where there is one worker; the excess that run
    `QueueUserLimit` shows takes two.
  * `SlotsNeedWorkers`: the global limit is looked at once and never again, and a
    check of the user's limit can be overtaken; all the same the slots in use are
    no more than the workers and the tasks dead coroutines left, because distinct
    slots are in distinct hands (an injection, by `OwnSlots`).
  * `RefusalsHaveAReason`: a worker that puts a task back found its user's limit
    taken by tasks in the hands of other workers, or by slots of dead coroutines,
    never by slots that a cancellation or a cleanup forgot.
* `TaskQueueDeliveryProofs`, about tasks no cleanup or death touched unless it
  says otherwise
  * `DeliveredOnce`: a task has an id on the list once, or is in one worker's
    hands, or in neither place (`PlaceInv`), from the moment it is pushed.
  * `WhatRunsIsCounted`: a worker's position in `dequeue_task` and `ack_task`
    says which slots its task must have (`CountInv`), which needs single delivery:
    nobody else returns them.
  * `QueuedCanRun`: a record that says queued belongs to an id on the list or in
    hands that will put it back (`ReachInv`).
  * `FinishedIsFinal`: a finished task is out of play, on no list and in no hands
    that could relabel it (`FinishInv`).
  * `QueueImplementsAbstract`: initial states map to initial states and every step
    to a step or a stutter of `AbstractQueue`. It rests on all of the above and on
    "the sets of finished tasks hold what was acknowledged, once" (`RecordedInv`,
    `RefInv`).
* `UnifiedSyncProofs`: `SyncTypeCorrect`; `TableTellsTheTruth`, from where each
  run is against how many outcomes it has (`Accounted`); `TheConnectionFailsOnce`,
  from who may be testing the connection: nobody before the service exists, then
  its creator alone, with no failure recorded so far (`TestedOnce`);
  `NoJobRunsForEver`, see below.
* `WebWorkProofs`: `TheFlagIsNeverLeftBehind`, since a request is in one place at
  a time; `ImportsAreAtomic`, since what the transaction sees is what was kept and
  what was counted (`ImportInv`); `SessionsAreWellTyped` and
  `SessionsEndForAReason`, for every number of calls and repetitions. That a page
  with an access token has a refresh token, and that without an excuse no refresh
  token is dead, neither in the store nor on its way, and no call is a logout
  (`SessionInv`), is what a step that ends a session is measured against. The
  excuses are the logout, the end of a session by the server, a failed refresh or
  page's check, and an answer that the interceptor or the page's error handler takes
  for one about authentication; a race of refreshes is not among them, nor is a view
  that fails in any other way. It rests
  on the server accepting a refresh token again and again: were it to serve once,
  two refreshes in a race would log the user out, which is the property's mutant.
  `JobsComeFromTheLastLook` (`JobsWereFound`): a daily job belongs to a strategy the
  last look found enabled, because between a look's removals and its additions there
  is no job at all; inductive given the types. `RequestsNeverBlockEachOther`
  (`LockInv`): the lock of the basics sync is held between two steps by a request
  that is reading the status and by no other, and such a request waits for nothing.
  `NoCallGoesRound`, see below. `PartsAreThemselves` and
  `TheProcessIsSafe`: the behaviours of `WebProcess` are, part by part, behaviours
  of the seven modules, so what is proved of each holds in the process.
* `ProxyPoolProofs`: `DeadProxiesAreSkipped`. The bound is not inductive, since a
  thread may still report on a proxy it was given: `Counted` adds those threads.
  `NobodyGivesUp` and `NobodyFailsNeedlessly`: suppose one proxy of every list the
  pool can make works, and rounds times the length of the shortest list exceeds
  dead proxies times `MaxFailures`; then no thread's request ends without an
  answer. While a proxy works, the counts of dead ones are never forgotten and
  only grow, so two refusals of one request differ in the proxy or in the
  failures counted when it was picked (`Explains`: the set of those pairs); there
  are `MaxFailures` such numbers for each dead proxy, and each turn of each round
  that is over stands for one refusal (`TriesInv`). Other threads and refreshes
  that restart the rotation only change which pairs are met. The second theorem
  puts it in the constants for a pool without the proxy API (`NumDynamic = 0`),
  where it states the run's property. With the code's defaults (2 rounds, 3
  failures, the direct connection) it covers one configured proxy, 4 > 3; two give
  6 > 6, which is false, and there TLC finds the property violated. What the API
  adds lengthens the list of the dead without any change to the shortest list, so
  the first theorem then asks for more rounds.
* `VisibilityTimeoutProofs`: `KeyInv` ties the key's two deadlines to the ticks
  of HSET and EXPIRE; `TtlAlwaysWins` and `NeverStolenEarly` follow by arithmetic
  of whole seconds (division and order), for every `Sec` and `Timeout`.
  `RecoveryNeedsALateExpire`: what a scan can take back at all is a task whose
  EXPIRE never came, or came in a later second than its HSET, and that only
  between the end of the timeout and the end of the TTL. `ALostTaskStaysLost`: what
  it then misses it misses for good. Together they say how far the finding
  of run `VisibilityRecovery` goes.
* `PatternScreeningProofs`: one inductive invariant of the run's program counter
  and the row gives the five theorems on what the row says;
  `TheRunGoesNowhereTwice`, see below.
* `JobExecutionsProofs`: the invariant adds to the types that the clock does not
  run past a due check (`Clocks`); that what a scan selected is old, and a row picked
  by a deletion will never say running again (`Selected`); and that, while the check is
  timed, its next run comes in time for every running row that the present one
  will not close (`Checked`). `ArmedCheckClosesRows` follows: it covers the time
  between the creation of the service, or a resumption of the check, and the next
  restart or pause, and promises nothing outside of it, as the code does not.
  `SuccessIsSafe` combines the ages: a row young enough for a listener is not old
  enough for the scan. `ExecutionsImplementTable`: each step of `JobExecutions` is
  a step of `AbstractExecutions` or a stutter. What a coroutine carries from its
  SELECT to its statement must still be true of the row: a row selected for a
  listener is young, one selected by the scan is old and has not ended well
  since, one picked by a deletion is closed (`RowInv`, on top of the invariant
  above), and the row in a listener's hands is never one of the scan's (`Apart`).

Four liveness properties have a safety half that needs no fairness, and that is
proved. For three of them each step of the work lowers a bounded number, and
nothing that runs beside it raises the number again: `NoCallGoesRound` for `EveryCallSettles`
(repetitions counted, then the phases of one transmission, between two tokens
that run out), `NoJobRunsForEver` for `EveryJobReturns` (outcomes, then the steps
to the next one), `TheRunGoesNowhereTwice` for `ScreeningSettles` (symbols, then
the steps of one). For `EveryAskIsAnswered` it is `RequestsNeverBlockEachOther`.
What is left to TLC is that a step of the work is enabled until the work is over,
and that fairness takes it.

Model-checked only: `ScreeningSettles`, `EveryJobReturns`,
`EveryAskIsAnswered`, `EveryCallSettles` and `StoppedStrategiesStop`, since liveness
under fairness, and ENABLED, are beyond the proof system. The properties of the runs that
are violated are refuted on an instance, which needs no proof; `DataSources` has no
constants, so its run is exhaustive as it stands.

Check them with `tlc -config X.cfg M` for each row of section 4 and `tlapm` on
each `*Proofs` module.

## 8. Not modelled, and why

* **Runs and backtests of strategies.** None is ever stored: `create_run` first
  loads the strategy, and `_load_strategy_model` passes `schedule=None` to a model
  that refuses it (`strategy_task_service.py:554-562`); were that mended, the insert at
  `strategy_task_service.py:211-222` leaves out `strategy_id`, which is NOT NULL
  (`app/core/pg_models.py:526`), and `create_backtest` writes a foreign key of 0.
  A daily job that comes due therefore changes nothing.
* **The queue worker, `create_batch`, rate limiting.** Not run, see section 2.
* **Market data caches.** `tradingagents/config/database_manager.py:201` names
  an attribute of instances in the class body; importing it raises NameError, which
  the cache package does not catch. `DataSourceManager` goes on without a cache.
* **Configuration.** Saving one always fails after the old one was deactivated
  (`config_service.py:829`): there is no history to check.
* **Quotes ingestion.** `run_once` has no caller in `app/`.
* **Requests that curl_cffi serves**, and the pause between requests: the pool is
  modelled, time between requests is not.
* **What a symbol's rows contain**, in sync workers and histories. The next day of
  weekly or monthly prices is taken from the latest day of any period stored
  (`akshare_sync_service.py:555`), which no property sees.
* **Several tabs of one browser, several timers of one page**, and answers of one
  session that arrive in the next: `BrowserSession` lets a late refresh open a
  session again after a logout, and claims nothing about it.
* **Favourites.** `favorites_service.py` does not parse (a `try` without `except`
  at line 179), and `app/main.py` includes no router that needs it.
* **`cancel_job_execution` and `update_job_progress`.** The flag that the first
  sets is read only by the second, whose single caller
  (`unified_sync_service.py:239-248`) does not await it and passes a keyword it
  does not have, so no run ever sees the flag.
* **The sync behind the guard of `run_full_sync`**, which no request reaches.
* **Detectors and rule engines.** Floating-point series.
* **External systems**: Redis executes commands one at a time, PostgreSQL commits
  are atomic and reads see the last commit, APScheduler runs a due job unless its
  instance is active.
* **Progress tracking** keeps percentages of one analysis in one thread; rows
  of users, tags, logs and statistics are single statements whose correctness
  is the database's; routers, the views of the frontend, the command line and the agents
  library present or format.
