# auto_gardener: a TLA+ verification of the Forest / Gardener / Tree server

`auto_gardener` is a Go server. A user describes a task (a *Forest*); a *Gardener*
(a CLI process, Codex or Claude) plans stages of sub-tasks (*Trees*), each Tree is
one CLI process, a validation Tree follows each stage, and the Gardener then decides
whether to go on, to ask the user, or to finish. The user may talk to, stop, resume or
delete the task at any time, and a watchdog restarts what seems to have died.

The modules here are translated from the Go code under `src/internal`, the page's
`src/web/static/app.js` and the relay tool `src/deploy/gardener-relay.py`. Line numbers
below are those of `internal/app/orchestrator.go` where no file is named.

## 1. Inventory

For each part: its state, its operations, who it talks to, what is hard, what makes
it correct.

| Part | State | Operations | Talks to | Hard behaviour | Correct when | Modelled in |
|---|---|---|---|---|---|---|
| **Forest run lifecycle** (`orchestrator.go`) | `activeRuns`, `cancels`, one goroutine per run, the `Task` record | CreateTask 172, SendMessage 281, ResumeTask 325, StopTask 457, DeleteTask 490, startForestRun 517, runForest 538 | Store, CLI runner, Tree stage | cancel and register are two critical sections; every check of `isActiveRun` / `ctx` / `StopRequested` precedes its use by one or more unlocked steps; panics | one Gardener, stop and delete reach every process, a cancelled run unwinds, a superseded run touches nothing | `ForestRun`; its promise `OneRun` |
| **Watchdog** (`watchdog.go`, `runtime.go`) | none of its own (`LastWatchdogAt` in the task) | RunWatchdogOnce 47 | Store, `startForestRun` | acts on a snapshot of the running tasks and on an answer of `hasTaskProcesses` | a Running task with no run is started again; a live run is never killed | `ForestRun` |
| **Tree stage** (runTreeForest 856, runTree 940, runValidationTree 918, finishTreeBeforeRun 892) | semaphore, wait group, `Task.Trees`, report files | spawn, acquire, mark, run, report, validate | Store, CLI runner, StopTask, DeleteTask | slots and cancellation; StopTask writes the Trees' records and reports while their goroutines do; a report may fail to be written | bounded concurrency, validation last, a report for each Tree unless the disk refuses it, cancelled stages end, a stop settles | `TreeStage` |
| **Store, in memory** (`store.go`) | `tasks` map | AddTask 372, UpdateTask 451, AddTree 468, UpdateTree 475, DeleteTask 421 | everyone, event hub | memory changes before disk does | every update is atomic, nothing resurrects a deleted task | the guards and updates of `ForestRun` and `TreeStage` |
| **Store, on disk** (`store.go`) | `forest.json`, `messages.json`, `tree.json`, logs | persistTaskLocked 591, Load 225, DeleteTask 421; ResumeUnfinished (56) after a restart | the file system | several files truncated and rewritten one after the other; a crash or a disk error in between; Trees that were Running at the crash | a restart loses no task that was written, continues the unfinished, brings nothing stopped or deleted back | `StoreDisk` |
| **Settings** (`store.go` 142-190) | `settings.json`, the engine of each task | UpdateSettings 168, loadSettings | Store, CreateTask | fails between tasks; CreateTask reads the settings before it adds the task | tasks follow the settings | `StoreDisk` |
| **Event hub, SSE, page** (`events.go`, `server.go` 737-802, `web/static/app.js`) | a channel of 8 copies per subscriber; the page's copy | Publish, Subscribe, handleEvents, poller | Store, browser | a full channel drops the newest copy; AppendGardenerLog publishes outside the lock; the poller stops at the first Finished | the page converges to the task | `EventStream` |
| **CLI runner** (`codex/runner.go`) | process, two pipes, two readers, output file | runCodex 152, runClaude 243, killProcessTree | the OS, the orchestrator's line callback | a scanner that stops at 1 MB leaves the pipe full; Wait closes pipes under readers; an output file that an earlier call left, or that stays empty | an answer is whole, no line follows the return, a cancel ends the call | `CliRun` |
| **Usage accounting** (`usage.go`) | `usage.jsonl`, `expectTotal` per call, legacy logs | Record, AppendUsageEvent, consumeUsageLine, parseUsageJSONL, parseLegacyUsageFile | runner, logs | the lines of two pipes and of several calls are mixed; a mark in a line makes the legacy parser count it | each call counts what it reported, nothing twice | `UsageLedger`, `CliRun` |
| **Compatibility proxy** (`compat/proxy.go`) | per-stream accumulators | handle, streamChatAsResponses | Codex CLI, a model API | tool calls arrive by index with fields late or missing | nothing said is dropped, every item announced and closed once and whole | `CompatStream` |
| **Relay** (`deploy/gardener-relay.py`) | `instances.json`, user directories, nginx files, provisions | add_user 467, remove_user 541, gc_provisions 370 | OS, nginx | failure between steps, a rollback that some failures escape | a user is known with everything or not at all, users never share a port | `Relay` |
| **Prompts, parsing** (1182-1623) | none | parsePlan, normalizePlan, clarification heuristics | runs | wording of answers | an answer is one of: work, clarify, finished, not JSON | `ForestRun` as the nondeterministic outcome of a CLI call |
| **HTTP API, CSRF, file browser; paths, version, power; packaging; rest of the page** | none or read-only | — | — | sequential, I/O, wording | — | not modelled: no state that a model checker would explore |

The hazards (what a test would hardly reach, with the line where each bites) are listed
in `PROJECT.json` under `hazards`; those without a property say why.

## 2. Modules and their correspondence to the code

### `ForestRun`

One task. A step is one critical section of `Store.mu` or `Orchestrator.mu`, one read of a
context, or the start or end of a CLI; code between two of those is local to its goroutine
and merged with the step before it.

| Variable | Code |
|---|---|
| `task` | the record in `Store.tasks`: Status, StopRequested, AwaitingUserInput, CurrentForest; `record` is "absent" before CreateTask and "deleted" after DeleteTask |
| `activeRun` | `Orchestrator.activeRuns[taskID]` (kept when the run ends) |
| `registered` | the runs with a key in `Orchestrator.cancels` |
| `cancelled` | the runs whose context is done |
| `pc`, `work` | the run goroutine's position and locals: stage (git init, plan, Trees, validation, decision), parsed answer, retry count, the number of the next stage read at 586 |
| `hpc` | the position of each handler goroutine and of the watchdog |
| `stale` | `latestTaskActivity` is older than `watchdogStaleAfter` |

Run ids are recycled: a run whose goroutine has ended (`Exit`) may stand for a later run
unless `activeRuns` still holds its id, so finitely many ids cover executions of any length
with at most that many goroutines at once. `Starter == Client \cup Watchdog` are those that
call `startForestRun`.

| Action | Code |
|---|---|
| CreateTask, CreateAsk | CreateTask: AddTask (memory first, then disk), then a start or a clarification |
| SendMessage | SendMessage and ResumeTask, both through sendMessageWithInstruction 337 |
| StartCancel, StartRegister | the two critical sections of startForestRun 517 |
| StopCancel, StopUpdate | StopTask 457 |
| DeleteCancel, DeleteStore | DeleteTask 490, Store.DeleteTask |
| WatchdogPick, WatchdogProbe, TimePasses | RunWatchdogOnce, `watchdogStaleAfter` |
| Enter ... Exit, Panic | runForest 538 in its order, the checks after every stage, the `recover` and the deferred unregisterCancel |
| Launch, CliReturns, CliKilled | `runner.Run` for a Gardener call; for the stage "trees" it stands for `TreeStage` |

Abstracted: messages and logs; the read-only progress queries of the page; the cancel keys
of the Trees (a Tree is cancelled exactly when its run is, its context being a child of it);
the throttle `hasRecentWatchdogCue`, which only makes the watchdog slower;
which of several reasons made an answer "finished".

### `TreeStage`

One stage of one run: `tree` is `Task.Trees` (status, whether `FruitPath` is set), `gor` the
position of each Tree's goroutine, `slots` the semaphore, `stage`/`next` the run's goroutine,
`handler`/`paths` a StopTask, DeleteTask or new message and its snapshot, `dir` whether
`forests/{taskID}` exists. Loop and Spawn are 858-889, Wait is `wg.Wait` and the check after
it, Validate 918, Acquire the `select` on the semaphore and the context, Find ... Progress
runTree 940, FindEarly ... UpdateEarly finishTreeBeforeRun 892. Files are written with their
directories, which is why every write sets `dir`; the goal files are written in one step with
what stands before or after them.

`report` is what the disk holds of a Tree's `fruit.md`, and `fruitPath` the local that
writeFruit 1231 gave. `WriteFruit` may write the report (`FruitWritten`) or fail
(`FruitFails`): with a path when the file could not be written, without one when its
directory could not be made. Nobody acts on the error: runTree 990 notes it and sets the Tree
Finished with whatever path it got, finishTreeBeforeRun 902 drops it, and only StopTask 465
keeps no path of a report it could not write. A report is "failed" for good once one write of
it has failed, since two writers may have reached the file in either order: `Settled` asks
of such a Tree only that it is Finished. Each write of a report is one step. In `ForestRun` all this is one CLI
activity of the stages "trees" and "validate": its only effects there are that it ends, and
that it does not start when stopped.

### `EventStream`

One visit of one visible page. A copy of the task is its version and whether it is Finished:
the page decides on nothing else.

| Variable | Code |
|---|---|
| `latest` | the task in `Store.tasks` |
| `held` | copies AppendGardenerLog (store.go:521) took under the lock and has not published |
| `es` | the page's `EventSource` with the handler that serves it (server.go:737) |
| `chan` | the subscriber's channel (events.go:16); full, it drops |
| `pending`, `wire` | the handler's `pending`; events written and not received |
| `shown`, `poller` | what the page renders; whether `activeRefreshPoller` is set |
| `asked`, `replies`, `posting`, `answer` | GETs and a POST on their way there and back |
| `drops` | connections and replies lost (bound `MaxDrops`) |

ServerUpdate is any Store.UpdateTask, LogUpdate and LogPublish the two halves of
AppendGardenerLog; Subscribe, Refuse, Snapshot, Receive, Tick and Disconnect are
handleEvents in its order; Deliver, Poll, GetReturns, Post and PostReturns are the page's
callbacks. Times (650 ms, 750 ms, 8 s) are choices: Receive may flush or merge, Tick may
come at any time. `LateLogs = FALSE` and `DiskFaults = FALSE` are not code paths but
assumptions about the run: no change falls between the two halves of AppendGardenerLog, no
update fails before it publishes.

### `OneRun`

What `ForestRun` promises to a user who does one thing at a time: one run works or none;
dismissed runs leave; a stop and a delete are recorded when nobody works; after a delete no
run begins. `ForestRun!Promise` maps it: the working run is the registered one that is not
cancelled, the leaving ones are registered and cancelled. `Safety` is the promise without its
fairness.

### `StoreDisk`

| Variable | Code |
|---|---|
| `phase` | how far `main` has come: NewStore and settings, Load, ResumeUnfinished, ListenAndServe |
| `known`, `rec`, `settings` | `Store.tasks` and `Store.settings` |
| `job` | what the holder of `Store.mu` is writing: the files still to do, and whether one failed |
| `disk`, `disk0` | the files of each task (a torn file reads as a missing one) and `settings.json` |
| `running`, `ending`, `resuming` | runs of this process, Trees of cancelled runs, the list of ResumeUnfinished |
| `drafts`, `removing` | tasks CreateTask is building; tasks out of the map whose directory is not removed |
| `clean`, `owed`, `deleted`, `stopped`, `pending`, `drifted` | history for the properties |

A change of memory and the list of files to write are one step (`Persist`), each file is
truncated and written in steps of its own as far as crashes (`CutFiles`, `Cut0`) and errors
(`WriteFails`) can tell; `Written` ends the job and the `...Returns` actions are what each
caller does then. `Crash` empties memory at any point; `Start`, `LoadTask`, `Loaded`,
`Resume` and `Serve` are `main` in its order. The races of runs and handlers are those of
`ForestRun` and are not repeated: here a handler cancels and updates in one step.

### `UsageLedger`, `CliRun`, `MCCliRun`

`UsageLedger` holds the pure part as operators over sequences of lines: what a mark
`stderr:` in a line does (`Cleaned`, `AfterMark`), which lines Record
keeps (`Kept`, `Expects`), the state machine consumeUsageLine (`Consume`), and its state after
the lines of a file at given positions (`Stream`, a recursion along the lines), which the two
parsers are cases of. A line is the kind and number of what it says at its head, and its quote: what
stands after a mark in it. Record and codexLogLine take one mark off the head of a line,
which on stderr is the runner's; the legacy parser looks for a mark anywhere in a logged line
(usage.go:430) and counts what follows. `CliRun` is a call:
`proc` and `todo` are the (external) CLI, `pipe` the two pipes, `reading`, `hand` and `out`
the two readers, `phase` and `result` the caller, `ledger` and `log` what the line callback
leaves. `Wait` may close the pipes before the readers are through, and the lines left are
lost (`lost`). `MCCliRun` gives the CLIs their lines. `file` is the output file: what an
earlier call left ("stale"), or what this one wrote, its message or nothing. A Codex that ends
well need not have written it (`Exit`), and runCodex then hands out what it finds there, else
the lines (`Return`, runner.go:228). A second call of the task on the same
usage file is only its lines (`Neighbour`): the calls share nothing else.

### `CompatStream`

A request in `Requests` is refused with the code's status or translated (`ItemMessages`, then
`Normalize`, which takes the system messages out: `Systems`, `SystemParts`, `Rest`); then one action per delta of the provider's stream: text, or
a fragment of a tool call with its index, id, name and arguments, any of them missing;
`Finish` closes every item. Pieces of text are numbered, so that order and completeness are
visible. The end of a stream stands for `[DONE]`, end of file and a broken stream alike,
since the code treats them alike.

### `Relay`

One step per effect on the files: `MakeDir`, `WriteConf`, `WriteProvision`, `SaveState`,
`Reload`, then the rollback and remove_user with the same effects in their own order
(`After`). `Raise` is an `Exception`, which the `try` catches; `Interrupt` is everything else
that ends the tool there: SystemExit, the keyboard, an error outside the `try`. `loaded` is
what nginx serves; port_listening asks that, not the files. `littered` holds the users whose
call ended without (or with an incomplete) rollback.

### `ForestRun_proofs`, `TreeStage_proofs`, `EventStream_proofs`, `StoreDisk_proofs`, `CliRun_proofs`, `CompatStream_proofs`, `Relay_proofs`

The theorems of section 5. `SequenceInduction` has the lemmas on sequences of any length that
`CliRun_proofs` and `CompatStream_proofs` use.

## 3. Runs

Deadlock is not checked (`CHECK_DEADLOCK FALSE`) where the system may rest: every task is
finished and no user acts, a CLI may hang for ever, a torn `settings.json` ends every start,
a request is answered. Progress is stated by the liveness properties instead. In `Relay`
somebody can always reload nginx, and deadlock is checked.

### Runs that pass

| Run | Instance | Shows |
|---|---|---|
| `forest_serial` | 2 run ids, 1 handler, 1 stage, 1 JSON retry, git init, panics | With handlers one at a time: the orchestrator implements `OneRun`; one Gardener, a superseded run is always cancelled, a stop reaches every CLI, a deleted task keeps no process |
| `forest_watchdog` | 2 run ids, 1 handler, watchdog, disk faults, panics | With two starters every CLI stays reachable for the next stop; a Running task that nobody works on (a disk error after the memory changed) is picked up |
| `stage` | 3 Trees, 2 slots, a planned Tree and the validation Tree whose reports the disk may refuse | Six properties of a stage under stop, new message, delete and refused reports at every point |
| `stream` | 4 changes, room for all, 1 broken connection, no poll | The stream alone keeps the page current: subscription before snapshot, merging and reconnection lose nothing |
| `stream_poller` | 3 changes, a channel of 1, late logs, disk faults, refusal, 1 loss, 1 GET in flight, messages | Whatever happens to the stream, a running poller brings the page back, and it runs until an end has been seen |
| `disk` | 2 tasks, one left by an old version, 1 Tree each, 2 events (crash, disk error, change of the settings) | What a restart gives back, resumes, and keeps stopped or deleted; when tasks and settings may differ |
| `cli` | 1 call with four CLIs to choose from, pipes of one line, an output file left by an earlier call or not, a neighbour on the same usage file | The answer is whole, the usage is the call's own and counted once, nothing comes after the return, a cancel ends it whatever the CLI does |
| `compat` | requests of up to 3 items, streams of up to 4 deltas over a message and 2 calls | Nothing said is dropped; every item is announced and closed once with all its pieces |
| `relay` | 3 users (two of one proxy name), 2 slots, 2 keys, 2 faults | Add, remove and rollback leave a user whole or absent, and slots apart, also in what nginx still serves |

### Runs that find a disagreement

Each of these checks one statement of the repository's documents, comments or tests, and TLC
finds a behaviour of the code against it.

| Run | Statement | What happens |
|---|---|---|
| `forest_late_finish` | a superseded run only exits | the old run reads `isActiveRun` (580), a message registers a successor, the old run sets the task Finished (581); the pause (570) and Running at a stage's start (593) are late in the same way |
| `stage_delete` | deletion removes all files of the task | a Tree that is still ending recreates the directory after RemoveAll |
| `disk_torn` | after a restart unfinished Forests go on | a crash while `forest.json` is rewritten in place leaves it torn; Load skips the task |

The models also contain, without a run of their own: two overlapping messages that both
cancel (518) and then both register (522), which leaves two live Gardeners (never more than
there are handlers: theorem `Bounded`); a stop between the two halves of a start, whose CLI
nothing kills; the watchdog cancelling a run that began after it asked (watchdog.go:73-78); a
poll's late reply that takes a finished page back for good; a Tree that is Finished with the
path of a `fruit.md` the disk refused, or without one, although docs/REFERENCE.md:68 speaks of
one for every Tree that ends; a Codex that ends well without a message, whose call hands out
what an earlier call left in the output file; an answer made of lines whose end is missing
because `cmd.Wait` closed a pipe under its reader, without an error; an agent that prints a
line of an old log, whose usage the legacy parser then counts from the new log; and in the relay a SystemExit in
write_provision or `nginx -t`, which escapes the rollback and leaves the site of a user the
state does not know, so that the next user may be given the same port.

### Bounds and why they are enough

- `Run`: a task needs one live run and one superseded run that lingers to show every
  two-party race; ids are recycled, so executions have any number of runs.
- `Client`: one handler gives "handlers one at a time" (a single user who waits for each
  answer); the watchdog is the second starter.
- `MaxForest`: 0 (a plan, then the end) or 1 (a full cycle plan, Trees, validation, decision).
  The code has no cap; a further stage repeats the cycle with the same locals
  (`Begin`), so it adds a number and no control state.
- `JSONRetries` 0, or the code's own 1 (`maxGardenerJSONRetryAttempts`, 21): the first
  attempt, a retry, and the last failure all occur with 1.
- `Isolated`, `DiskFaults`, `Panics` select code paths; between them the passing runs use
  each path.
- `NTrees` 3 with `MaxConcurrent` 2: one Tree has to wait for a slot, another may be
  taking one. `Refusable` {3, 4}: a planned Tree and the validation Tree may each lose their
  report, by runTree, by finishTreeBeforeRun and by StopTask, beside two Trees that do not.
  `stage_delete` needs no refused report and has none.
- `Capacity` 1 instead of 8 makes the channel overflow at once; where no overflow is wanted
  it is at least `MaxVersion`. Three versions are needed for an overtaken log, an end and a
  continuation; one lost connection or reply for each kind of loss.
- `MaxPolls` 1: a reply may be overtaken by any number of events. 0 means that no poll falls
  due in the run, as when everything happens within the 8 seconds of the interval.

- `StoreDisk`: two tasks, since a disk error or a change of the settings between tasks needs
  two; `MaxEvents` counts crashes, disk errors and changes of the settings together, and two
  of them are the fault and the one that meets its traces (a crash during the resume after a
  crash, an error then a crash). `MaxMessages` and `NTrees` 1: each is one more file.
  `LegacyLog` has one of the tasks: the other is without the old log line. `disk_torn` needs
  one task and one crash.
- `CliRun`: `PipeSize` 1 blocks a CLI as soon as one line is unread. The lines of `MCScripts`
  are those on which Record, the parsers and the readers decide: a header before a number on
  the other pipe, details before a total of zero, a leaked tool call, a line over 1 MB, lines
  that quote a marked line or begin with a mark of their own. A line has at most one mark
  beside the runner's, and "tokens used" or a number with more text after it is left out. A line
  reaches the usage file and the log in one step.
- `CompatStream`: `MaxIndex` 1 gives two calls, beside the message; four deltas give each a
  first fragment, a late field and another item in between. Three items give a system
  message between, before or after a call and its result.
- `Relay`: two slots and two keys for three users, so that both are contested and reused;
  `MaxFaults` 2: a removal whose reload failed, and a failure of the next add. One call of the
  tool at a time.

`forest_serial`, `stage`, `disk` and `relay` are small on purpose: the proofs of section 5
cover any number of runs, handlers, stages, Trees, slots, tasks, crashes and users.

### Fairness

Weak fairness of every step of a goroutine that can run (`RunStep`, `StageStep`, `TreeStep`,
`HandlerStep`, `StartStep`, `WatchdogStep`, `Cli`, `Runner`, `Reader`): the Go scheduler runs runnable goroutines, mutexes
are held for moments, and file operations return. In `EventStream` also the timers, the
delivery of what the network does not lose, and the browser's reconnection. `CliKilled` is among them because
`exec.CommandContext` and the process-group kill act without the CLI's consent. `TimePasses`
is fair since the clock is. Not fair: requests of users, answers of CLIs (`CliReturns`) and
panics. So no liveness property holds because a CLI is polite.
`OneRun` has `WF(Leave)`, which `ImplementsOneRun` shows to follow from that.
In `StoreDisk` weak fairness of `Return \/ Start` lets a job end and a start be tried again
after a crash, and strong fairness of `BootStep` gives `main` its turn for `Store.mu`, which
resumed runs take again and again (a Go mutex does not starve a waiter). In `CliRun` the CLI
goes on while its pipes have room; a CLI that is blocked need not fail, only a kill ends it.
`CompatStream` and `Relay` have no liveness properties.
`StuckIsRescued` has the premise `UserRests`: a user whose
messages keep failing on a broken disk also keeps the task looking active.

## 4. Properties and what would break them

`SupersededIsCancelled`, `OneGardener`: dropping the cancellation of the old run.
`LiveIsReachable`: a run that unregisters more than its own key.
`StopIsReliable`: no cancellation at a stop. `DeleteIsFinal`: a run that unregisters its
successor. `ImplementsOneRun`: a CLI that survives its context.
`StuckIsRescued`: asking `activeRuns`, which outlives its run, instead of `cancels`.
`ConcurrencyBounded`: one slot too many. `ValidationIsLast`: no `wg.Wait`.
`StageLeavesReports`: a Tree whose report could not be written stays as it is.
`StoppedTreesSettle`: a Tree that never got a slot and just returns. `CancelledStageEnds`: a
CLI killed only by a stop.
`StreamCarriesLatest`: a merge that keeps the older copy. `PageConverges`: a flush of
Finished copies only. `PollerConverges`: polling only without a stream. `EndIsSeen`: a
stream whose first event stops the poller.
`CleanOnDisk`: only the files of Trees at work are written. `NoGhostTrees`: a stop that leaves Trees
Running. `StopOutlivesCrash`, `DeletedStaysGone`, `EnginesFollowSettings`: a stop
reported done in spite of a disk error, a removal that leaves `forest.json`, a change of the
settings that passes over the last tasks. `ReloadRestores`: a Load that
takes every task for finished. `ResumesUnfinished`: a resume given up on a disk error.
`StartsServing`: a Load that stops at what it cannot read.
`AnswerIsWhole`: two readers without the mutex. `LedgerKeepsUsage`: one parser state for all
calls. `UsageExact`: a number that must be the very next line. `NotCountedTwice`: log lines
that keep the mark of their pipe. `NoLineAfterReturn`: a return before the readers end.
`CancelReturns`: no kill. `CallReturns`: a reader that never sees the end of its
pipe.
`ConversationKept`: system messages at the end. `EveryCallClosed`: the last call left open.
`DoneIsWhole`: arguments kept only once the name is known.
`NothingLeftOver`: a rollback that keeps the site. `OwnSlot`: a port only the state is asked
for. For every property of a
passing run PROJECT.json names such a mutation, which TLC finds.

## 5. Proofs

All theorems are for every value of the constants, under the named assumptions of the
modules (`RunAssumption`, `StarterAssumption`, `BoundAssumption`, `FlagAssumption`,
`TreeAssumption`, `CapacityAssumption`, `TaskAssumption`, `UserAssumption`,
`FaultAssumption`, `ScriptAssumption`, `SizeAssumption`, `NeighbourAssumption`,
`LogAssumption`).

| Theorem | States | Argument |
|---|---|---|
| `ForestRun_proofs!TypeCorrect` | `Spec => []TypeOK` | action by action; `TaskType` and `LocalsType` for the updates of the records |
| `RegistrationCorrect` | a run is registered exactly while its goroutine exists, and only such runs are cancelled | inductive: `StartRegister` adds the key with the goroutine, `Exit` removes both; every other step moves a goroutine between positions that are not "idle" (`StepKinds`) |
| `Reachable` | `LiveIsReachable` | from `RegistrationCorrect`: a run in a CLI has a goroutine |
| `Superseded`, `Single` | with at most one starter, `SupersededIsCancelled` and `OneGardener` | not inductive as they stand: between the two critical sections of startForestRun the active run is still registered. The invariant `Supersession` adds that whoever is at "register" finds every registered run cancelled |
| `Bounded` | with finitely many starters, `GardenersBounded` | the invariant `Budget`: live runs plus starters between cancel and register never exceed the starters |
| `Implements` | with at most one starter, `Spec => Promise!Safety`: the initial states and the steps are those of `OneRun` | `Handled` adds to `Supersession` that whoever is about to record a stop or a delete finds every registered run cancelled, and that a handler past its lookup has its task; then step by step, `WorkingIs` and `WorkingNext` saying whom the mapping names |
| `TreeStage_proofs!TypeCorrect` | `Spec => []TypeOK` | action by action |
| `Concurrency` | `ConcurrencyBounded` | `SlotsHeld`: each planned Tree at work holds a slot, at most `MaxConcurrent` are taken, and the validation Tree works only when none is |
| `ValidationSettled`, `StageSettled` | `ValidationIsLast`, `StageLeavesReports` | `SlotsHeld`, `InOrder` (where the run's goroutine is determines which Trees may work), `Complete` (a stage that was not cancelled has started every Tree), `Recorded` (a Tree's record exists as its goroutine does, and past each step of the goroutine what it has written is there, or a write of its report has failed) |
| `EventStream_proofs!TypeCorrect` | `Spec => []TypeOK` | action by action, with `PublishType` for the channel |
| `Carries` | under `Undisturbed` (publications in order and not lost, room for every change, only the stream writes to the page), `StreamCarriesLatest` | the invariant `StreamInv`: `Room` (the channel is shorter than the task's version while a copy is held, so a publication never meets a full channel), `ChanCarries` (what was published between subscription and snapshot ends with the task), `Idle`, `HeldIsLatest`, `StreamOnly`; the last elements of sequences are lemmas of their own |
| `StoreDisk_proofs!TypeCorrect` | `Spec => []TypeOK` | with `Books`: who may hold the lock in which phase, on which task, and that ids are not used twice |
| `Clean` | `CleanOnDisk` | `Saved`: while a task is written its files to do are exactly those of its record, if nothing failed (`JobFiles`), and no file of a Tree is on disk that the record does not have (`NoLeftover`) |
| `GhostFree` | `NoGhostTrees` | inductive with `Books` |
| `StopLasts` | `StopOutlivesCrash` | `StopRecorded`: a stop reported done is in the record and in any `forest.json` there is, no run or resume is under way for its task, and a stop at work has already ended the run |
| `DeletedForGood` | `DeletedStaysGone` | `DeletedOffDisk`: a task reported deleted is neither known nor being removed and has no `forest.json`; its id is not given out again |
| `ReloadComplete` | `ReloadRestores` | `Owed`: until Load comes to a task, its files are those the crash found complete |
| `UnfinishedResumed` | `ResumesUnfinished` | `Resumable`: an unfinished task has a run, or is still on the list, or is being started |
| `EnginesFollow` | `EnginesFollowSettings` | `Drift`: the disk, the memory and the change under way agree with the settings for every task outside `drifted` |
| `CliRun_proofs!NothingFollows` | `NoLineAfterReturn` | `CallInv`: who holds a line is still reading (`Held`), nobody reads after the return (`Over`) |
| `WholeAnswer` | `AnswerIsWhole` | `OutInv`: of a call that lost no line, the lines collected are as many as have left the pipes, and hold those of each pipe in their order (`Gathered`, `WovenGrows`); `AnswerInv`: what Return saw of the process, the context, the file and the lines stays so (`Judged`); with `LinesInv` below, which says the pipes are empty by then |
| `UsageKept`, `CountedOnce` | `LedgerKeepsUsage`, `NotCountedTwice` | `UsageInv`: reading back what a call kept is, after every line, at the same point as reading all its lines would be, and Record expects a total whenever that reading does (`InStep`); the legacy parser is, after a log, where it would be after the old log and the lines as Record took them (`Unmarked`, `LogGrows`): lines that are not logged have no mark in them |
| `UsageIsExact` | `UsageExact` | `LinesInv`: of a call that lost no line, what is in a reader's hand, in the pipe and not yet printed is the end of what the CLI prints (`Placed`), the pipes are empty after the wait (`Drained`), and Record has read stderr as far as it is taken (`Exact`) |
| `GoesOn` | `NeverBlocked`: a call that is cancelled, or whose CLI prints no line too long for the scanner, has a next step until it returns | `AliveInv`: no line of a living CLI is lost (`Unlost`), so the line its reader is at is one of its script's and not too long (`PipedLine`), and both its pipes are read (`Listening`) |
| `RunsOut` | `StepsRunOut`: each step of a call lowers `Left`, and no step of another raises it | `Left` counts a line three times until it is printed, twice in a pipe and once in a reader's hand (`LineSteps`); a start costs more than the process and the readers it adds (`StartTakes`) |
| `CompatStream_proofs!Conversation` | `ConversationKept` | `ConversationInv`: what is sent is `ChatMessages` of the request; then where in the list of messages each item is (`ItemsInOrder`), and that `Normalize` keeps order and content (`NormalizeKeeps`) |
| `CallsClosed`, `ClosedWhole` | `EveryCallClosed`, `DoneIsWhole` | `StreamInv`, which speaks of the stream while it arrives: what is collected for an index is what was streamed for it (`Collected`), an item id belongs to one index (`Named`), and an announced item is announced once and not closed (`Streaming`); then `Ends`: what `Finish` adds closes each of them once |
| `Relay_proofs!TypeCorrect` | `Spec => []TypeOK` | action by action |
| `RollbackWhole`, `SlotsApart` | `NothingLeftOver`, `OwnSlot` | `IInv`: how far the files of the tool's user have come at each step (`MyInstance`, `MyDir`, `MySite`, `MyProvisions`), every other user is `Settled`, and the slot the tool is about to write is nobody else's (`Reserved`) |

Why the strengthening is needed in `StoreDisk`: `CleanOnDisk` says nothing of a task while it
is written, so a step that ends the write could leave anything; `JobFiles` carries the claim
through the write, and `NoLeftover` is needed because persistTaskLocked removes no file. In
`Relay` both properties speak of the moments between two calls, and every step of a call
breaks the first of them for its user; `IInv` says by which step which part is there, and
`Reserved` carries what add_user checked at its start to the moment it writes the site.

Why the strengthening is needed in `TreeStage`: StopTask writes `tree` and `report` on its
own, so "Finished" says nothing about the goroutine, and a goroutine before its last
UpdateTree may take a Tree back to Running. `Recorded` therefore follows the goroutine's
position: past writeFruit its report is whole and its path held, or a write of it has failed,
and past the last UpdateTree the Tree is `Settled`, which StopTask leaves alone.

Why the strengthening is needed in `CliRun`: `LedgerKeepsUsage` compares two readings of
different sequences, and a line that one of them has and the other has not may be passed over
only in a state where it changes nothing; `InStep` keeps the two states equal and Record's own
flag set whenever theirs is (it may be set without: a model line clears only theirs). `UsageExact` and `AnswerIsWhole` speak of the end only, and until then the
lines of a pipe are spread over four places, one of which both pipes share: `Gathered` counts
how many of each have left the pipe, and finds them there in order. In `CompatStream` both properties of the answer are empty until the
last step, which depends on everything before it.

Sequences of any length: the provers cannot instantiate a fact about a predicate, so the
induction theorems of the library are out of reach, but not a fact about a set.
`SequenceInduction` proves induction for sets of numbers (`NatInduct`, `UpTo`) from the
well-foundedness of `<`, and from it that a recursion along a sequence is well defined
(`RecursionExists`), what `FlattenSeq` returns (`FlattenLayout`) and, in `CliRun_proofs`, what
`Stream` computes for one line more (`StreamGrows`). `Stream` is a recursive function, and not
an operator declared RECURSIVE, for that reason.

Only model-checked: all liveness properties (`StopIsReliable`, `DeleteIsFinal`,
`StuckIsRescued`, `CancelledStageEnds`, `StoppedTreesSettle`, `PageConverges`,
`PollerConverges`, `EndIsSeen`, `StartsServing`, `CancelReturns`, `CallReturns`), which rest
on fairness; that `OneRun`'s `Leave` is fair, the temporal half of `ImplementsOneRun`; and of
course the counterexamples. Every invariant and every action property of a run that passes is
a theorem. `GoesOn` and `RunsOut` are what `CancelReturns` and `CallReturns` need beside
fairness: a call is never out of steps before it returns, and it has only so many; that the
step it has is taken in the end is what TLC adds.
Proved and not in a run: `Bounded`, `RegistrationCorrect`, `GoesOn`, `RunsOut` and the type
correctness of `Relay`.

## 6. Not modelled

- HTTP routing, CSRF, limits, the file browser, paths, version, power status, packaging: they
  keep no state that interleaves.
- The wording of prompts, goals, reports and cues. The classification of a Gardener's answer
  is nondeterministic.
- Other tasks, except on disk: tasks share nothing but the maps, keyed by task, the settings
  and the machine.
- What a CLI does in the workspace; its arguments and environment; the mock runner.
- Of the page: leaving and entering a task, a hidden tab, events over 2,000,000 characters,
  browsers without `EventSource`, a deleted task (nothing is published then).
- Of the usage: prices, summaries per day and model, the syntax of numbers.
- Of the proxy: token counts, the tools list, sampling values, input items without a type, an
  input that is not JSON (its error is ignored, proxy.go:272). The events of an open item carry
  `output_index` 0 and the closing one its own (proxy.go:464); the model has the numbers, and no
  property compares them. A stream that breaks off is
  completed like a whole one; no document says otherwise.
- Of the relay: list and show, the contents of the files, the frpc tunnels; two calls of the
  tool at once, which have no lock between reading and writing the state and lose a user; the
  use of a setup key a second time after its provision was collected, after which a removal
  of its first user takes the second one's provision too is in the model, and no property
  promises the provision.

## 7. Plan

Done: `ForestRun` and its promise `OneRun`, `TreeStage`, `EventStream`, `StoreDisk`, `CliRun`
with `UsageLedger`, `CompatStream`, `Relay`, and the theorems of section 5.

Left, in this order:

1. `Forest`, the composition of `ForestRun` with `TreeStage`: several runs of a task with a
   semaphore each, which is the one hazard about bounds no property covers.
2. `EventStream`: leaving and re-entering the page, a hidden page.
3. `Relay`: two calls of the tool at once.
