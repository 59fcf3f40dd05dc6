# A TLA+ model of the protocols of pi-investment

`pi-investment` is a collection of services around an investment assistant. Two of them have a
correctness that is a matter of *protocol*: **agent-os** (`src/agent-os`, Go), which fires tasks as
webhooks or commands and sends notifications, and **quantsys-v2** (`src/quantsys-v2`, Python), which
accepts those webhooks, trades simulated accounts, works through the trading day, compiles trading
plans to watch rules, and calls people out when a rule has fired. This directory models those parts:
which states the tables, threads, goroutines and in-memory maps can reach together when requests,
ticks, crashes, failed writes and late answers interleave.

Paths below are under `src/agent-os/` or `src/quantsys-v2/`, as the heading or the module says.

## Inventory

| Component | State | Operations | Talks to | What makes it correct | Modelled |
|---|---|---|---|---|---|
| Executor (`internal/kernel/scheduler/executor.go`, `run_update.go`, `task_run_repository.go`) | semaphore, one goroutine per call, table `task_runs` | Execute: acquire, create run, attempts, backoff, complete, hand over; external report of a result | receiver (HTTP), backlog (insert), database | slots never leak; a run is closed on every path; Execute does not go back on a result; every call ends | `TaskExecutor` |
| Delivery backlog (`task_delivery_backlog_repository.go`, `task_delivery_retry_worker.go`, migration 004) | table `task_delivery_backlog`; the worker's copy of the batch | Enqueue, ListDue, post, MarkDelivered, MarkAttemptFailed | receiver | no row stranded, snapshot still valid when written back, bounded and final redelivery | `DeliveryContract`, `DeliveryBacklog` |
| Webhook receiver (`src/quantsys-v2/api/internal/scheduler_webhook.py`, `agent_os_client.py`) | background jobs | accept, run the job, report | executor, backlog worker, `task_runs` | a success has a cause; nothing is lost silently; copies are bounded | `TaskDelivery` (with the two above) |
| Schedule (`scheduler.go`, `clock_recovery.go`, `orphaned_detector.go`, `scheduler_handler.go`, `cmd/scheduler.go`, `task_repository.go`) | table `tasks`, cron engine, map `cronEntries`, mutex, rows held by requests | register, update, pause, resume, delete, clean up, recover after a clock jump, restart, command line | database, executor | table, engine and map agree when the mutex is free; a recovery drops nothing | `TaskSchedule` |
| Notifications (`notification_service.go`, `notification_repository.go`, `notification_retry_worker.go`) | table `notification_logs`, `lastAlertTime`, rows held by passes | Send, retry pass, alert | providers | sent means delivered; a result is final; only what was left behind is sent again; every row ends | `NotificationDelivery` |
| Accounts and pending orders (quantsys-v2: `account_trading_service.py`, `trade_guard_service.py`, `simulation_repository.py`, `scheduler_tasks_runtime.py`; stop loss: `intraday_monitor.py`, `paper_trading_engine.py`) | account row and its lock, cash flows, positions, trades, pending orders | trade, place, cancel, match, settle T+1, sell out | orchestrator, webhook job, clients | the books balance, cash is not overdrawn, T+1, an order ends and is traded once | `AccountTrading` |
| Daily orchestrator (quantsys-v2: `daily_orchestrator.py`) | the row of the day, the monitor thread | tick, resume, phases, push of the review, matching window | accounts, agent | phases in turn and once, one push, matching after settlement, the thread keeps up with the clock | `DailyOrchestrator` |
| Trading plans (quantsys-v2: `plan_async.py`, `plan_compiler.py`, `plan_rule_port.py`, `trading_plan_repository.py`; `position_lifecycle_service.py`, `watch_rule_repository.py`) | plan, rules, mapping of roles to rules | patch, apply, activate, pause, resume, close, archive; compile; position lifecycle, fills and rule API on the same rules | watch engine (reads the rules) | an active plan is watched without a gap, one that is off is not, one rule per role | `TradingPlan` |
| Watch todos (quantsys-v2: `sla_job.py`, `receipt_service.py`, `todo_service.py`, `watch_todo_repository.py`, `watch_receipt_repository.py`) | todos, receipts, the pass of the patrol and its buffer | create, claim, promote, call out, remind, expire, close, cascade | agent, card channel, clients, rules | nobody is told twice, closed is closed, nothing is left lying | `WatchTodo` |
| Watch engine (quantsys-v2: `watch_engine/core/engine.py`) | cooldowns, live rules, quotes | evaluate, trigger, escalate | todos, agent | - | no: next candidate |
| Task dependencies (`dag.go`) | graph in memory, table of edges | add edge, cycle check, CanExecute | schedule | acyclic, in step with the table | no (see *Plan*) |
| Service manager (`service_manager.go`) | lock and state per service | EnsureRunning, health poll, stop | processes | one instance per service | no (see *Plan*) |
| Error events (`error_event_worker.go`, `error_event_repository.go`, `error_event_env_noise_policy.go`, `error_event_patrol.go`) | watermark and cursors, in memory and in a file; table `error_events` | collect, upsert by fingerprint, archive noise, claim, resolve, ignore, reopen, reclaim zombies | failed runs, logs, clients, board | what people have in hand is left alone, a resolved event is quiet, every error is counted, and once | `ErrorEvents` |
| Event bus (`event_bus.go`, `websocket_server.go`) | subscriptions, bounded channels | publish, subscribe, unsubscribe | PostgreSQL NOTIFY, browsers | who gets which event | no (see *Plan*) |
| Resource quotas (`internal/resource`) | table of quotas | check, allocate, release | - | quota never exceeded | no (see *Plan*) |
| Heartbeats and registry; board, decision, memory, event, system, profile and skill endpoints | one table each | CRUD | - | row-level | no: no protocol between actors |
| Configuration, authentication, metrics, logging | - | - | - | - | no: sequential, unit-tested |
| Market data, strategies, factors and reports of quantsys-v2, agent-dh, agent-ts, web frontends, API clients | - | - | - | - | no: numerical code, data sources, user interfaces and separate products |

quantsys-v2 runs as one uvicorn process. Its routes that trade or edit plans are `async def` with
synchronous bodies, so the event loop serves them one after the other; plain `def` routes (claim or
close a todo, delete a rule) run in a thread pool. Beside them run the orchestrator's thread, which
wakes up every minute, the threads of webhook jobs, and interval jobs such as the patrol of the
todos, never two of one kind at once. Each has a database session of its own, at READ COMMITTED; an
UPDATE writes the columns that differ from what the session read.

The behaviours that are hard here: a goroutine per call with writes that may fail one by one; requests
that read a row before they take the mutex and write all of it afterwards; a worker that writes back
what it read minutes ago; passes of a cron job that overtake each other; a peer that accepted
although the sender saw a failure; a process that dies between two writes, or between a message and
its record; a request that is a series of commits. `PROJECT.json` lists them
as hazards, each at its line, with the properties that watch it.

## Modules

| Module | Kind |
|---|---|
| `DeliveryContract` | abstract specification of the backlog: owed, tried, delivered or written off |
| `DeliveryBacklog` | table and worker; implements `DeliveryContract` (`ImplementsContract`) |
| `DeliveryBacklog_proofs` | TLAPS proofs for any runs, limits and faults |
| `TaskExecutor` | Execute |
| `TaskDelivery` | composition: INSTANCEs `TaskExecutor` and `DeliveryBacklog`, adds the receiver |
| `TaskDelivery_proofs` | TLAPS proofs about the composition, for any runs, limits and faults |
| `TaskSchedule` | table, cron engine and map |
| `Scheduler_proofs` | TLAPS proofs about `TaskExecutor`, for any calls, capacity, retries and faults, and about `TaskSchedule`, for any tasks, requests, expressions and ids |
| `NotificationDelivery` | Send and the retry worker |
| `NotificationDelivery_proofs` | TLAPS proofs for any notes, passes, retries and faults |
| `AccountTrading` | an account, its three writing threads, orders, settlement, stop loss |
| `AccountTrading_proofs` | TLAPS proofs for any orders, amounts, trades and faults |
| `DailyOrchestrator` | the thread of the trading day and its row |
| `DailyOrchestrator_proofs` | TLAPS proofs for any number of faults |
| `TradingPlan` | a plan, its routes, and the compiler commit by commit |
| `WatchTodo` | todos, the patrol, clients, and the switch of their rule |
| `Watching_proofs` | TLAPS proofs about `TradingPlan`, for any versions, terms, rules, faults and writes by others, and about `WatchTodo`, for any finite set of todos, any requests and faults |
| `ErrorEvents` | the collector of errors, Upsert statement by statement, and what people do with an event |
| `ErrorEvents_proofs` | TLAPS proofs for any posts, runs, lines, batch, window and faults |

Each module starts with its state and then has one action per operation or step of the code; the
next-state relation follows, then the properties. Definitions whose comment begins with "Mutant" are
plausible errors of the code (a dropped filter, an off-by-one, a leaked slot); `PROJECT.json` says
which property refutes each of them. They are not used by any specification.

**How state and actions correspond to the code**

* `TaskExecutor`: a run stands for one call of `Execute` and for the row it creates. `pc` is the
  place in `Execute` between two writes or calls, `slots` is `len(semaphore)`, `run` the status
  column. `CreateRun`, `MarkRunning`, `CompleteSuccess`, `CompleteFailed` and `EnqueueDelivery` are
  the database writes in their order; each may fail, and does fail when the caller's context is dead
  (`ctx`, only for a manual trigger: a cron tick has `context.Background`). A failed attempt has one
  of five causes (`Failures`); `IsConnectionFailure` decides by the error *text*, so `"quoting"`, a
  refused request whose body quotes a network error, counts as unreachable, and the timeout that
  `executeWebhook` rewraps does not. A deadline on the caller's context has no caller; the branch of
  `Execute` for it is left out. `Execute` ignores a task's own `retry_count` and uses the configured
  retries, and so does the model.
* `DeliveryBacklog`: `row` is the table, `due` the runs whose `next_attempt_at` has passed, earliest
  first. `ListDue` chooses the batch by the WHERE, ORDER BY and LIMIT of the query and keeps `seen`,
  the attempts as read. `Post` sends one entry, `Record` writes `seen + 1`, unconditionally, as the
  UPDATE does. The length of the backoff is abstracted to "later".
* `TaskDelivery`: `Accept` is the receiver's 2xx. `AttemptUnanswered` is a post accepted although its
  sender sees a timeout, a reset or its own cancellation. `JobEnds`, `ReportArrives` and `ReportLost`
  are the background job and its one report. `Crash` takes executor and worker down together, since
  they share a process; the receiver goes on. A run's row may be reported while Execute is under way.
* `TaskSchedule`: a request holds the row it will write (`req`), read without the mutex in
  `ReadTask`. `UpdateRow` is the write under the mutex; if the entry has to be replaced the request
  keeps the mutex (stage `"place"`) until `PlaceJob`. `RecoverRead` and `RecoverSwap` are the two
  halves of the clock recovery, `BuildFrom` numbers entries afresh as a new cron engine does.
  `CleanupCheck` and `CleanupDelete` are the orphan cleanup, whose DELETE is outside the lock.
  `CliRegister` and `CliDelete` are the command line: another process that only reaches the table.
  `hook` stands for everything in a task besides its schedule.
* `NotificationDelivery`: `sender` is where a Send is, `gone` the clients that hung up (the request's
  context is used for the provider and for the UPDATE, whose error is ignored). A pass keeps the rows
  it read (`todo`, `read`) and writes `read + 1`. `SendAlert` includes the dereference of a channel
  that may be nil. `Age` lets a row become five minutes old once its Send is over: the provider's
  client gives up after 10 s (`internal/provider/feishu/feishu.go:24`).
* `AccountTrading`: `th` holds what each of the three threads has in hand: the event loop (`"loop"`,
  immediate trades and the requests about orders), the orchestrator's thread (`"tick"`), the webhook
  job (`"job"`). `Approves` is the guard service's judgement without the lock, `Lock` is
  `SELECT ... FOR UPDATE` with the second reading of cash and position, `Commit` the transaction;
  `Position` writes only the columns that differ from what the session read. `CommitUnrecorded` is
  a trade whose `add_trade` rolled back and returned None. `StartPass`, `NextOrder`, `Mark` are
  `execute_pending_orders`; settlement and stop loss are cut at their reads and commits. One symbol at
  a price of one per lot; `marred` records which exception a property makes.
* `DailyOrchestrator`: `slot` is the clock, cut where the answer of `_determine_phase` or of the
  comparison with 9:31 changes. `Begin` is `_transition`, `Completed` what `_mark_phase_completed`
  really writes. `Raise` is a handler that raises, `CommitFails` a failed read or commit, which ends the
  tick, or the resume, `Crash` the end of the process; `Start` and `Resume` its restart. A resume is
  tried once: `ResumeLost` is the one that the guard of trading days turns away or that cannot read the
  row, after which the thread ticks all the same. `mishaps` counts the faults of the day. A tick that
  the guard turns away is a tick not taken.
* `TradingPlan`: `req` is the request the event loop works on, with what its compilation still has to
  create, link, update and retire; each of these is one commit. `Found` and `Seen` are the lookup by
  key with its flaw (see *Divergences*). `LoseWrite` is an update that the repository swallows,
  `CompileFails` the compensation (`Undone`), `BreakOff` the end of the process. The version a client
  names is any that has existed. `RetireExit`, `PatchRule` and `DeleteRule` are the other writers of a
  plan's rules, between any two commits: the daily position lifecycle and a fill that sells the symbol
  out (`position_lifecycle_service.py:141`, `237`), and the rule API with the rules that expire. `taken`
  holds the rules they wrote and the compiler has not seen to since.
* `WatchTodo`: a todo's `late` is how long it is overdue, in the classes at which the patrol behaves
  differently, `period` counts how often its due time was put off, which is how receipts know the
  calls of one period from those of another. `Scan`, `Look`, `Promote`, `Bump`, `Log`, `Expire` are
  `WatchSlaJob.run_once`; `WakeOwner`, `SendCard`, `Record` are `ReceiptService.flush_grouped`;
  `CloseReads`, `CloseWrites`, `SendResult` are `close_and_receipt`, and the close of the job that
  reports fills. `AnswerLost` is a card that reaches the user while its channel reports a failure, so
  that the next channel sends it again. P1 stands for P0 too (`MayWait` is the half hour an order to trade may have left) and
  P2 for P3. Of the receipts only those of kind timeout are kept: the others are never read.
* `ErrorEvents`: `memory` is the collector's watermark (`lastTaskScan`) and cursor (`offsets`), `disk`
  the same in `.error_event_offsets.json`; `Scan`, `CollectRun`, `SaveMark` are `collectTaskFailures`,
  `TailOne`, `ReadBatch`, `BatchDone` are `tailOne` with its two moments at which it looks at the end of
  the file, `TailFails` and `ScanBreaks` its errors: before the cursor is saved, when the next round
  tries again, and after (a line over 1 MB, a failed read), when the rest is lost. `Loaded` is what a
  restart reads from the state file, or nothing if it is unreadable. `Lookup`, `Write`, `Archive` are the three statements of `Upsert` and `applyEnvNoisePolicy`,
  for the collector and for each post; `Acts` is the transaction of `ApplyAction`, which marks the
  calls that have read the row before as `stale`. One event is followed; failed runs belong to others.
  `lost` and `again` record, at the step that causes it, which items may be missed or counted twice:
  the properties allow those and no others. The patrol's reclaim is not an action, since its statement
  is refused by the database (see *Divergences*); the first scan's window of 30 minutes is taken to
  hold all runs.

## Runs

All runs use two workers and finish within three minutes. Runs that end in a counterexample are
listed under *Divergences*.

| Run | Instance | What it shows |
|---|---|---|
| `DeliveryBacklog` | 3 runs, batch of 2, 2 attempts, 1 fault (53k states) | rows compete for a batch that is too small for them; no update works on a stale copy; a settled row stays settled; the table implements `DeliveryContract`, its liveness included |
| `TaskExecutor` | a scheduled command and a manual webhook, 1 slot, 2 retries, 2 faults (92k) | calls wait for each other's slot, hang-ups and failed writes at every place; slots are accounted for, every call ends |
| `TaskDelivery` | a manual webhook and a command, 1 slot, 1 retry, 2 attempts, 1 fault (476k) | late and lost answers, lost reports, crash: nothing lost silently, a success has a cause, copies bounded, an owed delivery ends |
| `TaskSchedule` | 1 task, 2 requests, 2 good and 1 bad expression, 2 entry ids (190k) | stale writes against pause, recovery, restart, cleanup and command line; what is proved for any number of tasks |
| `NotificationDelivery` | 2 notes, 2 overlapping passes, 2 retries, alert at 2 rows, 1 fault | sent means delivered, results are final, every row ends |
| `AccountTrading` | 1 order, lots of 1 or 2, cash for 1, 2 lots held, 2 buys a day, 1 immediate trade or sale, 1 fault (528k) | three threads on one account: no trade under the lock is overwritten, cash is not overdrawn, T+1, a pending order ends |
| `DailyOrchestrator` | days without end, 2 faults (365k) | late starts, restarts, lost resumes and errors in every phase: phases in turn, one push of the review, no single fault of a day has orders matched before the settlement, the thread reaches each window |
| `TradingPlan` | stop loss and reduction in 2 sets of terms, 2 versions, 4 rules, 1 fault or 1 write by others (1.3M) | every route in every state with stale versions: an active plan is watched at every step of an edit, one that is off is not, and a rule retired, patched or deleted between any two commits costs that rule and no other |
| `WatchTodo` | 1 todo, 2 closing requests, 1 fault, a lost answer among them (624k) | patrol, clients and the switch of the rule on one todo: closed is closed, calls are bounded, nothing expires unannounced, every todo ends |
| `ErrorEvents` | 2 failed runs, 2 lines, 1 post, window and batch of 1, 2 actions of people, 1 fault (1.6M) | counting and archiving take nothing out of people's hands unless they acted after the call read the row; a resolved event is quiet; with restarts, scans that break off and an unreadable state file every error is counted, and once, but for the named losses and repetitions |

**Why the bounds are enough.** The interesting cases need two actors on one row (a request and
another request, a pass and another pass, Execute and a report), one row more than the batch holds, one
attempt more than the first, one expression that parses and one that does not, two versions of a
spec, money for one order but not for two, and one fault at any place (two where a restart and an
error before it make the difference). `MaxFaults` (`MaxBreaks` in `TradingPlan`) bounds failed reads and writes, lost
answers, lost resumes and crashes together; `MaxWrites` the writes by others, of which one is enough, as
it may fall between any two commits and hit any rule; the properties that mention `faults`
say what one fault may cost, and the proofs hold for any number of them.
Entry ids are as many as entries can exist at once, plus none: an id freed by a removal or by a new
engine is used again at once, which is the worst case for aliasing. (Within one engine robfig/cron
never reuses an id; the model allows more.) A task id is registered at most once, as the ids are
UUIDs. Command-line registration, failed deletes and their effect on `EnabledIsScheduled` are kept
apart by `unsynced`: the code only repairs them at the next restart or recovery.

`TaskSchedule` with two tasks and one request passes as well; two of each are out of TLC's reach.
`WatchTodo` has one todo, since two are out of TLC's reach: that several todos share one card is in
the module (`SendCard` takes the whole group), that a batch is too small for them is not exercised.
Trades, buys and rules created are capped because each one only repeats what the first ones do.
The constraint `OneUpset` keeps `TradingPlan` to a fault *or* a write by others in one behaviour, which keeps
the run short (without it the run passes too, in five minutes, and with one set of terms and an entry rule in
less). Four rules are what an activation, an edit and a resume create. `MaxEntry = 0` leaves the entry out of the run: its rule is keyed as the stop loss
is. The proofs have neither limit. `ErrorEvents` has two failed runs because a loss by the watermark needs one that
overtakes another. Two actions of people suffice for a claim or a conclusion that a call overtakes; a stale
reopening of a claimed event takes a third, and passes with one line. With two lines a log cut short never
has a line before a cursor beyond its end; three lines would show it, and are too many with the liveness
property.

The modules of accounts, orchestrator, plans, todos and error events state a `TypeOK` as well, as a
description of their variables; the `.cfg` files leave it out in favour of the other properties.

`CHECK_DEADLOCK FALSE` is set everywhere because the systems may come to rest: all calls have
returned, all rows are settled.

**Fairness.** Weak fairness of what the program itself drives, and of nothing else:

* goroutines are scheduled; posts, commands and provider calls end because each has a timeout
  (`executor.go` webhook and command timeouts, 60 s in the backlog worker, 10 s in the provider);
  sleeps end;
* the tickers and the cron job keep ticking, and the clock reaches `next_attempt_at` and the age of
  five minutes;
* `Record(TRUE)` of the worker is weakly fair because failures are bounded by `MaxFaults`.

* in `AccountTrading` the threads go on with what they have begun, the market opens and closes, and the
  scheduler's daily job starts a pass while orders are pending; a tick need not come in time;
* in `DailyOrchestrator` the thread goes on and ticks, the process is started again (launchd), and a
  day ends; the clock may stop in any window, which is what `WindowIsReached` is about; a tick that the
  guard turns away is one minute late, a resume that it turns away one of the faults;
* in `WatchTodo` the patrol is started each minute and goes on, and time passes;
* in `ErrorEvents` the cron engine starts the collector's round each minute, and each statement in it
  returns (the round has a context of 50 s). Nothing is assumed of people, of posts, or of a run
  whose end is not yet recorded.

No fairness is assumed for clients (calls, hang-ups, edits, closing a todo), for a peer that answers
2xx, for a report that arrives, or for faults. `TaskSchedule` and `TradingPlan` have only safety
properties.

## What is proved

TLAPS checks the following for every value of the constants that satisfies the named assumptions
(`BacklogAssumption`, `ExecutorAssumption`, `DeliveryAssumption`, `NotificationAssumption`: limits are
positive naturals, the set of calls is finite; `ScheduleAssumption`: markers such as "no entry" are not
values, an expression either parses or does not, there is an entry id; `ConstantsAssumption`: orders
and lots are positive numbers, the orders are finitely many; `FaultsAssumption`, `BatchAssumption`,
`BoundAssumption`, `BoundsAssumption`: a batch is not empty, bounds are naturals; `LimitAssumption`: a
pass reads at least one todo, and the todos are finitely many, as a table is). TLC has checked each inductive invariant
on the instance of its run before it was proved.

**`DeliveryBacklog_proofs`.** `TypeCorrect`, `NothingStranded`, `SnapshotIsFresh`,
`BoundedRedelivery`, `SettledStays`, `Implements`. The inductive invariant `IInv` adds
to the type invariant and `NoRowStranded`: `SnapshotFresh` (what the worker read still holds),
`CurrentTaken` (the entry in hand has left the batch, so a write cannot make the rest of the batch
stale), `AbsentUntried`, and `PostsAccounted`, which says for each post what it turned into: a
recorded attempt, a delivery, the one in hand, or a fault. Without `SnapshotFresh` a write of
`seen + 1` could lower the count or revive a settled row, so nothing else is inductive.
`SettledStays` follows from `SnapshotFresh` step by step. `Implements` maps each
step to `Owe`, `Deliver`, `Miss` or a stutter of the contract; that the last miss is the one that
writes off needs `NoRowStranded` and `SnapshotFresh`.

**`Scheduler_proofs`, the executor.** `TypeCorrect`, `SlotsAccounted`, `RunsAreClosed`, `OwnResultStays`.
`IInv` adds `ResultPending` (before Execute records a result, only a report can have closed the
row), `HandedOverClosed` (`NoRunLeftOpen` already while the hand-over is under way) and `RetryLeft`
(a sleeping call has a retry left). `SlotAccounting` rests on the lemma `HoldersMove`: a move between
stages leaves the set of holders, entering or leaving changes its cardinality by one.

**`Scheduler_proofs`, the schedule.** `ScheduleTypeCorrect`, `EngineMatches`, `DisabledStaysOut`, `ExpressionsCurrent`,
`EnabledAreScheduled`, `RowsAreObeyed` (the three before together, `RowsDecide`), `NothingDropped`.
The properties compare table and engine while the mutex is
free; the inductive invariant (`ScheduleIInv`) says the same per task (`OthersAgree`): the table may be ahead of the
engine only for the task that the holder of the mutex is about to place (`Placing`, `PlacedRow`,
`MutexHeld`). It adds `UniqueIds` (or removing one entry would remove another), `UnbornAbsent` (what is
not registered is nowhere), `SnapCurrent` (what the recovery has read under the mutex is still what
the table says, except for rows that the command line has deleted or inserted) and `HandmadeAgree`.
The last is about stale rows: `UpdateRow` compares `schedule` and `enabled` only, so a stale
copy of a row that has just the column `cron` may come back without a new entry, and the entry still
fires by the right expression because all copies of such a row carry the same `cron`.
`NothingDropped` follows from `SnapCurrent` and the lemma `Built` about an engine built from a table.

**`NotificationDelivery_proofs`.** `TypeCorrect`, `SentWasDelivered`, `OnlyLeftBehindIsRetried`,
`ResultsAreFinal`. `IInv` adds `SendSound` (a Send under way has a pending row that is not old),
`PassSound` (a pass, however late, carries only old rows that nobody can mark as failed, and records
only what was accepted) and `CauseKnown` (what is pending after its Send has been left behind by a
hang-up or a fault). `OnlyLeftBehindIsRetried` assumes `HasAlertChannel`: without it the alert ends the
process, which is one more cause (see *Divergences*).

**`TaskDelivery_proofs`.** `NothingIsLost`, `SuccessHasCause`, `CopiesAreBounded`,
`NoCopyOnceSettled`. The actions are conjunctions of steps of the two parts, which the proofs expand
through the INSTANCEs. `IInv` takes `SnapshotFresh` and `NoRowStranded` from the backlog and adds what
holds between the parts: `RowSound` (a row of the backlog belongs to a webhook run whose Execute has
returned, so an attempt of Execute and a post of the worker never concern the same run),
`AcceptedFirst` (without a first accepted post there is no job, no 2xx in hand, no success) and
`CopiesSound`, which says for each copy at the receiver which attempt, which post or which fault it
was. The bound of `CopiesBounded` is not inductive by itself, as it does not know what is in hand.
`NoCopyOnceSettled` (`SettledStaysSettled`, in the proof module) is what `SettledIsFinal` promises
for the table alone, carried to both senders and the receiver.

**`AccountTrading_proofs`.** `TypeCorrect`, `BooksAlwaysBalance`, `NoOverdraft`, `NotSoldOnTheDay`.
`LockSound` says what the holder of the row lock knows: its cash is the row's, and its position and
ledger too on an account without a stop loss, since every other writer of those needs the lock.
`SettleSound` is the settlement without the lock: as long as no trade has raced it, it knows all
purchases of the day. `StopSound` keeps the unlocked stop loss to accounts of agents, which `BooksBalance`
and `TPlusOne` except; `CashNotOverdrawn` holds for them, too.

**`DailyOrchestrator_proofs`.** `TypeCorrect`, `PhasesInTurn`, `StartedOncePerProcess`, `ReviewOnce`,
`SettledBeforeMatching`. `RowSound` says that what the row has reached or completed was started;
`TodoSound` that what resume still has to do has begun, in turn; `StartsBounded` which phases may still
be started and how often they were; `PushSound` that each push is marked, in hand or one that a crash
left unmarked; `SettlementSound` that the settlement is due or still comes as long as at most one
fault has met the day: either the handler of `MARKET_OPEN` is to run, in a tick or a resume, or the day has
not got there (`BeforeSettlement`), and a `MARKET_OPEN` that is on record without its handler running has
already cost a fault. So no *single* fault has orders matched unsettled, which `MatchAfterSettlement` says;
a crash in that handler and a lost resume do (see *Divergences*). `RowSound` also proves that the dictionary of finished phases never holds two of them (see
*Divergences*): it is the row's `phase` alone that keeps the ticks from repeating a phase, hence
`OncePerProcess`, and a restart repeats what it finds (`FinishedNotRedone`).

**`ErrorEvents_proofs`.** `ResolvedStaysQuiet`, `PeopleAreLeftAlone`, `CountedButOnce`. The first two
rest on `CallsSound`: a call that is not stale has read the conclusion that stands. The third rests on
what watermark and cursor have passed: `RunsSound` (a run counted is one the watermark has passed or
will have passed when the round saves it, and is no longer in the queue), `LinesSound` (a line counted
lies before a cursor within the log, and before the position of the reading under way), `QueueSound`
(no item twice in the queue, none counted before) and `FileSound` (a line stands in the log once).
`LinesSound` is only about lines outside `again`, and while a log is read the cursor may be behind its
end: that is the window in which a line is read twice, and the proof shows there is no other. After a restart, with a
state file that may be unreadable, what was counted and lies beyond the loaded marks is in `again`.

**`Watching_proofs`, the plan.** `ActivePlanWatched`, `PlanOffUnwatched`, `PlanRolesKept`. None of
the three is inductive, as each is about what a request has yet to do. `PlanIInv` adds `OpSound` (a
pause or a closing has every live rule on its list, and no compilation runs on a plan that is off),
`SpecSecured` (each role of the spec is about to get a rule, or has one with the right terms, or one
about to be given them, that is not to be retired: what the lookup with its flaw does not find it
creates anew, so the flaw costs rules and never a role; roles whose rule is in `taken` are excepted,
until the compiler writes that rule or another of its role) and `BeforeKept` (until it retires, a
compilation has taken nothing away). `ActiveIsWatched` is `SpecSecured` of a request with nothing left
to do; `RolesNeverLapse` is `BeforeKept` before the first retirement and `SpecSecured` after.
What others do between two commits is one lemma (`OthersPreserve`), used by each of their actions.
Looking for the invariant showed that `RolesNeverLapse` needs its exception for a lost write: with no
entry, two sizes of an exit, five versions and two faults, a crash between `create_rule` and
`link_rule` leaves a live rule that the mapping does not name; when a later edit finds the named, dead
rule, and its update is lost, the live one is retired as an orphan, and its role is unwatched. The
run's two versions are too few for that; TLC finds it with `MaxEntry = 0`, `MaxVersion = 5`,
`MaxRules = 8`, `MaxBreaks = 2` without the exception, along the edits described here.

**`Watching_proofs`, the todos.** `ExpiryFollowsCall`, `NobodyToldTwice`, `TodosAdvance`. `IInv` says
of the pass what it knows of the todos it read earlier: `QueueSound` (each todo once, and a level read
is behind the row at most by a claim), `WorkSound` (what is about to be written fits the row) and
`GroupSound` (a call in the buffer is of a round without a receipt, and the pass is done with its
todo). `ReceiptsSound` ties receipts to the period that stands, `CardsSound` counts each card as on
record, in the buffer or lost to a fault, and `LateSound` and `ResultsSound` give the card of a closed
todo and its result their only sender. `CallsBounded` is the sum of `CardsSound`, where a buffered
call and its own receipt never count together because of `GroupSound`; a card whose answer was lost is
paid for by its fault. `TodosAdvance` goes
step by step: the conditions in the UPDATEs decide, and `WorkSound` where they say nothing of the level.

**Only model-checked.** All liveness (`EveryCallEnds`, `OwedDeliveryEnds`, `EveryRowIsDealtWith`,
`PendingEnds`, `WindowIsReached`, `EveryTodoEnds`, `EveryErrorIsCounted`, the liveness of
`DeliveryContract`): liveness under fairness is out of reach of the prover. Every safety property that
a run checks is proved.

## Divergences

Two runs show the code at odds with a statement of the repository; each is a finding with its quote.

| Run | What happens |
|---|---|
| `AccountTrading_ExecutedOnce` | the tick thread and the webhook job read the same pending orders, and both trade one; a crash between trade and mark repeats it too |
| `DailyOrchestrator_FinishedNotRedone` | only the first finished phase of a day is written, since the dictionary is changed in place: a restart repeats what had finished |

The following were met while modelling. The definitions named state the contrary; they are in the
modules, no run checks them, and each is violated when its name is added to the `.cfg`:

* `TimeoutIsHandedOver`, `ReportedResultStands` (`TaskDelivery`): a webhook that runs into its own
  timeout is dropped, as the rewrapped error has no marker that `IsConnectionFailure` looks for; a
  fast receiver's result is overwritten by Execute's own `Complete`.
* `SettlementNotStopped` (`DailyOrchestrator`): the resume asks the guard of trading days, which fails
  closed, and is tried once (`orchestrator_bootstrap.py:75`). After a crash in the handler of `MARKET_OPEN`
  and a resume that is turned away, or that cannot read the row, the next tick goes on with the phases after
  it, unsettled, though `orchestrator_bootstrap.py:34` keeps that guard out of the thread lest a hiccup of the
  database silently stop the T+1 settlement.
* `ActiveHasItsRules` (`TradingPlan`, with one write by others and no fault): a plan is activated, and before
  its first buy the daily reconciliation retires its exit rules, since the account does not hold the symbol
  (`position_lifecycle_service.py:142`). Once it buys, no rule of the plan watches its exits before the next
  compilation, though `state_machine.py:5` says that an active plan without a position has its rules.
* `HookIsCurrent` (with two values of `Hooks`), `PauseSticks` (`TaskSchedule`): after an update of the
  webhook alone the entry keeps firing the old task; an edit that read the row before a pause enables
  the task again.
* `NoRowStaysPending` (`NotificationDelivery`): a notification whose retries are used up stays pending;
  the branch that would close it is unreachable, and its status `failed_permanent` would be refused
  by the CHECK of migration 008. With `HasAlertChannel = FALSE` the backlog alert dereferences nil,
  each pass ends the process, and `EveryRowIsDealtWith` fails.
* `OneRulePerRole` (`TradingPlan`): `plan_compiler.py:5` promises that compiling the same spec again
  changes nothing. `desired_rules` gives entry and stop loss the batch None (`:52`), `link_rule` stores
  0 (`:185`) and `list_managed` returns 0, so their rules are never found again: each compilation
  creates new ones, and a second edit leaves two live rules for a role.
* A rule update that the database refuses is not noticed (`base_repository.py:239`); if a crash has left
  rules outside the mapping before, a role may be unwatched after it (see *What is proved*, the plan).
* `CashFlowInvariant` (`AccountTrading`): the stop loss adds to a cash it read without the row lock
  (`paper_trading_engine.py:403`), and a trade that commits in between is lost from the balance.
* `RemindersOnTime` (`WatchTodo` with `ClockAhead = TRUE`): the patrol subtracts a due time converted
  to UTC from a naive local time (`sla_job.py:320-329`); on a host in China, which the launchd
  configuration names, reminders, expiry and the deadline of an order to trade come eight hours early.

Met without a definition of their own:

* The comments on the reclaim of zombies (`error_event_repository.go:363`, `error_event_patrol.go:13`)
  promise that a row in processing without an assignee disappears in the end. The statement's JSON
  literal ends in a doubled quote (`error_event_repository.go:376`), which keeps the SQL string open:
  PostgreSQL refuses it each time, and such a row waits for a claim by hand.
* A claim committed between the statements of an `Upsert` is taken away by the archiving of noise, or
  by a reopening decided on an older status, though `error_event_env_noise_policy.go:11` excludes both;
  an occurrence looked up before a resolution and written after it leaves the event resolved, though
  `014_create_error_events.sql:5` has it reopened. The properties of `ErrorEvents` name these calls as
  stale.
* `error_event_worker.go:231` advances the cursor first, lest a line be handled twice; but the scanner
  reads on past it, and a line written meanwhile is handled twice (`again`). And a scan that
  breaks off (`error_event_worker.go:236`, `252`) leaves the lines before that cursor unread for good, with
  a log line at most (`lost`). A run recorded after the
  watermark has passed its end time, or one whose `Upsert` failed, is never collected (`lost`).

* A non-2xx answer whose body quotes "connection refused" is handed to the backlog
  (`executor.go:365`, `402-413`; `"quoting"` in `Failures`), though `executor.go:185` says such
  failures are not worth redelivering.
* No path of `Execute` records the status `timeout` (`executor.go:144` needs a deadline that no
  caller sets), though `WP-1-COMPLETION-REPORT.md:74` lists it.
* A task that has only the column `cron` loses its entry when paused and does not get it back when
  resumed (`scheduler.go:178` looks at `schedule` alone); hence `row.schedule` in `EnabledIsScheduled`.
* `CleanupOrphanedTask` checks under the read lock and deletes outside it (`orphaned_detector.go:117`):
  a task scheduled in between is deleted and its entry goes on firing.
* Runs that a crash leaves as pending or running are never closed.
* A cancelled order may still be traded by a matcher that read it before; the result of `add_trade` is
  not looked at; a partial stop loss makes the purchases of today sellable.
* A refused activation (stale version) leaves a draft with live rules, since the rules come first
  (`plan_async.py:597-612`); resuming a draft activates it; a plan whose account holds the symbol
  cannot be closed from active or paused, as no fill carries a plan's id; a closing cannot be repeated
  after a crash.
* `sla_job.py:11` speaks of at most two cards per todo; a call, two reminders and the result card make
  four. A promotion that fails after the call was buffered leaves no reminders, and a reminder round
  that was lost is never repeated. An open todo of a disabled rule (a crash between disabling and
  cascade, or created meanwhile) is never listed again. A crash after the commit of a closing
  loses its result card for good.

## Not modelled, and limits

* The dependency graph, the service manager, the event bus and quotas of agent-os: small
  or row-level protocols, left for the plan below.
* The read-only handlers, the metrics, and the record of a job in quantsys-v2 itself.
* Rows of `task_runs` that a deleted task takes with it, and the shutdown of the process.
* `TaskSchedule` keeps reads inside the mutex atomic with the write that follows where nobody else
  can write the same columns in between; the command line, which can, acts between the steps.
* The rows of `notification_logs` that an administrator deletes; the LIMIT of 100 of a pass.
* `AccountTrading`: position limits, the drawdown breaker, fees, price limits, several symbols, and the
  records of decision and performance after the commit.
* `DailyOrchestrator`: what a handler computes; days without trading; `run_phase`, which has no caller.
  A guard that fails within a tick is no action: it is that minute's tick not taken.
* `TradingPlan`: change discipline, reflections and statistics; `on_fill`, which no trade reaches;
  `rule_state`, by which the watch engine, its health check and the rule API set a rule aside: the
  compiler neither reads nor writes it, so no compilation brings such a rule back, and "live" here is
  `enabled` alone; `expires_at` as data, and changes of a rule's plan, symbol or intent by PATCH; the
  stop loss rules without a plan that the position lifecycle creates.
* `WatchTodo`: the evaluation of rules, the change of a rule that may come with a closing, the wake at
  assignment, and more overdue todos than the 100 a pass reads. A result card that is sent twice since its
  answer was lost is not told apart from one: of the results of a request it is kept that there was one.
* `ErrorEvents`: which lines are errors, how they are joined and fingerprinted, counts and notes, several
  logs, a round that outlasts its minute, and the queue and the one retry of the reporter in quantsys-v2
  (a retry after a late answer is one more post).
* Market data, strategies, factors and reports of quantsys-v2, which make up most of the repository's
  lines: numerical code and data sources around a database, without a protocol between actors.

## Plan

1. Proofs: the bounds in the type definitions that no run lists (`PlanTypeOK`, `TypeOK` of `WatchTodo`).
2. The watch engine: cooldowns and escalation, composed with `WatchTodo`.
3. Task dependencies: two concurrent `AddDependency` calls and the cycle check
   (`scheduler.go:234`), `CanExecute` against deleted tasks; the service manager
   (`service_manager.go:147`); event bus and quotas.
