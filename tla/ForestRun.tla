------------------------------ MODULE ForestRun ------------------------------
(***************************************************************************)
(* The life of one task ("Forest") inside the server process: the HTTP      *)
(* handlers that create, message, stop and delete it, the Gardener          *)
(* goroutines they start (runForest), the watchdog, and the two maps of the *)
(* orchestrator (activeRuns, cancels) through which a new instruction       *)
(* supersedes the run of the previous one.                                  *)
(*                                                                          *)
(* A step is one critical section of Store.mu or Orchestrator.mu, one read  *)
(* of a context, or the start or end of a CLI process; everything between   *)
(* two of them is local to its goroutine.  The CLI is the environment: it   *)
(* answers what it likes, when it likes, or never.  The sub-tasks (Trees)   *)
(* of a stage are one CLI activity here.                                    *)
(***************************************************************************)
EXTENDS Naturals, FiniteSets

CONSTANTS
  Run,          \* run ids; at most this many Gardener goroutines at a time
  NoRun,        \* the zero value of activeRuns[taskID]
  Client,       \* HTTP handler goroutines that may work on the task at once
  Watchdog,     \* the watchdog goroutine as a set: {} when it never fires
  MaxForest,    \* the Gardener asks for no stage beyond this one
  JSONRetries,  \* maxGardenerJSONRetryAttempts
  Isolated,     \* taskWorkDir differs from WorkspacePath: no git init
  DiskFaults,   \* may persisting the task fail?
  Panics        \* may a run panic?

ASSUME RunAssumption == Run # {} /\ NoRun \notin Run
ASSUME StarterAssumption == Client \cap Watchdog = {}
ASSUME BoundAssumption == MaxForest \in Nat /\ JSONRetries \in Nat
ASSUME FlagAssumption == {Isolated, DiskFaults, Panics} \subseteq BOOLEAN

VARIABLES
  task,        \* the Task record of Store.tasks
  activeRun,   \* Orchestrator.activeRuns[taskID]
  registered,  \* the runs that have a key in Orchestrator.cancels
  cancelled,   \* the runs whose context is cancelled
  pc,          \* where each Gardener goroutine is; "idle": it does not exist
  work,        \* its local variables
  hpc,         \* where each handler, or the watchdog, is
  stale        \* no activity of the task for watchdogStaleAfter

runVars == <<pc, work>>
orchVars == <<activeRun, registered, cancelled>>
vars == <<task, orchVars, runVars, hpc, stale>>

Starter == Client \cup Watchdog

Stages == {"git", "plan", "trees", "validate", "decide"}
Answers == {"work", "clarify", "finished"}

Task == [record : {"absent", "present", "deleted"}, status : {"Running", "Finished"},
         stopRequested : BOOLEAN, awaiting : BOOLEAN, forest : Nat]
Locals == [stage : Stages, plan : Answers, attempt : Nat, next : Nat]
RunPC == {"idle", "enter", "launch", "cli", "checkCtx", "checkStop", "read", "write",
          "finishTest", "pauseTest", "finish", "pause", "exit"}
HandlerPC == {"idle", "cancel", "register", "ask", "stop", "delete", "probe"}

\* The run has a CLI process (for "trees": at least one Tree has).
Live == {r \in Run : pc[r] = "cli"}

Present == task.record = "present"

\* The locals of a run that begins stage s.
Begin(s) == [stage |-> s, plan |-> "finished", attempt |-> 0, next |-> 0]

Fresh(r) == pc[r] = "idle" /\ r # activeRun

Goto(r, l) == pc' = [pc EXCEPT ![r] = l]

Assign(r, w) == work' = [work EXCEPT ![r] = w]

\* Go to l in stage s; the locals of the stage left behind are dead.
Enact(r, l, s) == Goto(r, l) /\ Assign(r, Begin(s))

HandlerGoto(s, l) == hpc' = [hpc EXCEPT ![s] = l]

Init ==
  /\ task = [record |-> "absent", status |-> "Finished", stopRequested |-> FALSE,
             awaiting |-> FALSE, forest |-> 0]
  /\ activeRun = NoRun
  /\ registered = {}
  /\ cancelled = {}
  /\ pc = [r \in Run |-> "idle"]
  /\ work = [r \in Run |-> Begin("git")]
  /\ hpc = [s \in Starter |-> "idle"]
  /\ stale = FALSE

-----------------------------------------------------------------------------
(* What the handlers and the runs write to the task (each is the closure    *)
(* given to Store.UpdateTask, which does nothing once the task is gone).    *)

Update(t) == task' = IF Present THEN t ELSE task

Resumed  == [task EXCEPT !.status = "Running", !.stopRequested = FALSE, !.awaiting = FALSE]
Stopped  == [task EXCEPT !.status = "Finished", !.stopRequested = TRUE, !.awaiting = FALSE]
Done     == [task EXCEPT !.status = "Finished", !.awaiting = FALSE]
Staged(n) == [task EXCEPT !.forest = n, !.status = "Running"]

\* Mutant: a status of its own for a task that waits for the user.
PausedStatus == [task EXCEPT !.status = "Paused", !.awaiting = TRUE, !.stopRequested = FALSE]

Paused   == [task EXCEPT !.status = "Finished", !.awaiting = TRUE, !.stopRequested = FALSE]

-----------------------------------------------------------------------------
(* The maps of the orchestrator, and starting a run.                        *)

\* Mutant: the cancel functions are looked up but not called.
CancelNothing == UNCHANGED cancelled

CancelTaskProcesses == cancelled' = cancelled \cup registered

\* Mutant: asks activeRuns, which keeps the id of a run that has ended.
HasActiveRun == activeRun # NoRun

HasTaskProcesses == registered # {}

\* Mutant: a run that ends takes every key of its task with it.
UnregisterTask(r) == registered' = {} /\ cancelled' = cancelled \ {r}

UnregisterCancel(r) == registered' = registered \ {r} /\ cancelled' = cancelled \ {r}

\* startForestRun, first critical section: cancel what is registered.
StartCancel(s) ==
  /\ hpc[s] = "cancel"
  /\ CancelTaskProcesses
  /\ HandlerGoto(s, "register")
  /\ stale' = FALSE
  /\ UNCHANGED <<task, activeRun, registered, runVars>>

\* startForestRun, second critical section (registerRun) and the go statement.
StartRegister(s) ==
  /\ hpc[s] = "register"
  /\ \E r \in Run :
       /\ Fresh(r)
       /\ activeRun' = r
       /\ registered' = registered \cup {r}
       /\ Goto(r, "enter")
  /\ HandlerGoto(s, "idle")
  /\ stale' = FALSE
  /\ UNCHANGED <<task, cancelled, work>>

-----------------------------------------------------------------------------
(* HTTP handlers.                                                           *)

\* AddTask puts the task into the map before it persists it, so a disk error
\* leaves a Running task that no run was started for.
CreateTask(c) ==
  /\ hpc[c] = "idle"
  /\ task.record = "absent"
  /\ task' = [task EXCEPT !.record = "present", !.status = "Running"]
  /\ \/ HandlerGoto(c, "cancel")
     \/ HandlerGoto(c, "ask")
     \/ DiskFaults /\ HandlerGoto(c, "idle")
  /\ stale' = FALSE
  /\ UNCHANGED <<orchVars, runVars>>

\* The first prompt is too vague: CreateTask pauses the task itself.
CreateAsk(c) ==
  /\ hpc[c] = "ask"
  /\ Update(Paused)
  /\ HandlerGoto(c, "idle")
  /\ stale' = FALSE
  /\ UNCHANGED <<orchVars, runVars>>

\* SendMessage and ResumeTask (both end in sendMessageWithInstruction).  When
\* the task cannot be persisted it is Running in memory and nothing starts.
SendMessage(c) ==
  /\ hpc[c] = "idle"
  /\ Present
  /\ task' = Resumed
  /\ \/ HandlerGoto(c, "cancel")
     \/ DiskFaults /\ HandlerGoto(c, "idle")
  /\ stale' = FALSE
  /\ UNCHANGED <<orchVars, runVars>>

StopCancel(c) ==
  /\ hpc[c] = "idle"
  /\ Present
  /\ CancelTaskProcesses
  /\ HandlerGoto(c, "stop")
  /\ stale' = FALSE
  /\ UNCHANGED <<task, activeRun, registered, runVars>>

StopUpdate(c) ==
  /\ hpc[c] = "stop"
  /\ Update(Stopped)
  /\ HandlerGoto(c, "idle")
  /\ stale' = FALSE
  /\ UNCHANGED <<orchVars, runVars>>

DeleteCancel(c) ==
  /\ hpc[c] = "idle"
  /\ Present
  /\ CancelTaskProcesses
  /\ HandlerGoto(c, "delete")
  /\ stale' = FALSE
  /\ UNCHANGED <<task, activeRun, registered, runVars>>

DeleteStore(c) ==
  /\ hpc[c] = "delete"
  /\ Update([task EXCEPT !.record = "deleted"])
  /\ HandlerGoto(c, "idle")
  /\ stale' = FALSE
  /\ UNCHANGED <<orchVars, runVars>>

-----------------------------------------------------------------------------
(* The watchdog.  Ten minutes can pass without activity only while every    *)
(* goroutine of the task is blocked in a CLI: all other steps take moments. *)

TimePasses ==
  /\ Watchdog # {} /\ ~stale
  /\ \A s \in Starter : hpc[s] = "idle"
  /\ \A r \in Run : pc[r] \in {"idle", "cli"}
  /\ stale' = TRUE
  /\ UNCHANGED <<task, orchVars, runVars, hpc>>

\* RunWatchdogOnce picks the task from its snapshot of the Running tasks and
\* notes LastWatchdogAt, which counts as activity.
WatchdogPick(w) ==
  /\ hpc[w] = "idle"
  /\ stale
  /\ Present /\ task.status = "Running"
  /\ HandlerGoto(w, "probe")
  /\ stale' = FALSE
  /\ UNCHANGED <<task, orchVars, runVars>>

\* hasTaskProcesses: only log when something is registered, else start a run.
WatchdogProbe(w) ==
  /\ hpc[w] = "probe"
  /\ HandlerGoto(w, IF HasTaskProcesses THEN "idle" ELSE "cancel")
  /\ stale' = FALSE
  /\ UNCHANGED <<task, orchVars, runVars>>

-----------------------------------------------------------------------------
(* A Gardener run.                                                          *)

\* Only the goroutine's own control state changes.
Local(r) == stale' = FALSE /\ UNCHANGED <<task, orchVars, hpc>>

Enter(r) ==
  /\ pc[r] = "enter"
  /\ \/ ~Present /\ Goto(r, "exit")
     \/ Present /\ Isolated /\ Goto(r, "checkCtx")
     \/ Present /\ ~Isolated /\ Goto(r, "launch")
  /\ Local(r) /\ UNCHANGED work

\* A CLI that fails leaves no plan or decision but ForestFinished.
NoAnswer(r) == Goto(r, "checkCtx") /\ Assign(r, [work[r] EXCEPT !.plan = "finished"])

\* A CLI is started unless its context is cancelled, the task is gone (only
\* a retry does not look again), or, for the Trees, a stop was requested.
MayLaunch(r) ==
  /\ r \notin cancelled
  /\ Present \/ work[r].attempt > 0
  /\ ~(work[r].stage = "trees" /\ task.stopRequested)

Launch(r) ==
  /\ pc[r] = "launch"
  /\ IF MayLaunch(r)
     THEN Goto(r, "cli") /\ UNCHANGED work
     ELSE NoAnswer(r)
  /\ Local(r)

\* The CLI ends by itself.  For a plan or a decision its output is an answer,
\* an error ("finished", the user is told) or not JSON, which is retried.
CliReturns(r) ==
  /\ pc[r] = "cli"
  /\ \/ /\ work[r].stage \notin {"plan", "decide"}
        /\ Goto(r, "checkCtx") /\ UNCHANGED work
     \/ /\ work[r].stage \in {"plan", "decide"}
        /\ \E a \in Answers :
             /\ a = "work" => task.forest < MaxForest
             /\ Assign(r, [work[r] EXCEPT !.plan = a])
        /\ Goto(r, "checkCtx")
     \/ /\ work[r].stage \in {"plan", "decide"}
        /\ IF work[r].attempt < JSONRetries /\ r \notin cancelled
           THEN /\ Assign(r, [work[r] EXCEPT !.attempt = @ + 1])
                /\ Goto(r, "launch")
           ELSE NoAnswer(r)
  /\ Local(r)

\* Mutant: a CLI is killed on a stop, not when a new message supersedes it.
CliKilledOnStop(r) ==
  /\ pc[r] = "cli" /\ r \in cancelled /\ task.stopRequested
  /\ NoAnswer(r)
  /\ Local(r)

\* The CLI of a cancelled run is killed.
CliKilled(r) ==
  /\ pc[r] = "cli" /\ r \in cancelled
  /\ NoAnswer(r)
  /\ Local(r)

\* After every stage: ctx.Err() != nil || isStopRequested.
CheckCtx(r) ==
  /\ pc[r] = "checkCtx"
  /\ IF r \in cancelled
     THEN Enact(r, "finishTest", "git")
     ELSE Goto(r, "checkStop") /\ UNCHANGED work
  /\ Local(r)

\* What follows a stage that was not stopped.
Proceed(r) ==
  LET w == work[r] IN
  \/ w.stage = "git" /\ Enact(r, "launch", "plan")
  \/ w.stage = "trees" /\ Enact(r, "launch", "validate")
  \/ w.stage = "validate" /\ Enact(r, "launch", "decide")
  \/ w.stage \in {"plan", "decide"} /\ w.plan = "clarify" /\ Enact(r, "pauseTest", "git")
  \/ w.stage \in {"plan", "decide"} /\ w.plan = "finished" /\ Enact(r, "finishTest", "git")
  \/ /\ w.stage = "decide" /\ w.plan = "work"
     /\ Goto(r, "checkCtx") /\ Assign(r, [work[r] EXCEPT !.stage = "plan"])
  \/ w.stage = "plan" /\ w.plan = "work" /\ Enact(r, "read", "plan")

CheckStop(r) ==
  /\ pc[r] = "checkStop"
  /\ IF Present /\ task.stopRequested
     THEN Enact(r, "finishTest", "git")
     ELSE Proceed(r)
  /\ Local(r)

\* The number of the next stage is read in one critical section ...
ReadForest(r) ==
  /\ pc[r] = "read"
  /\ \/ Present /\ Assign(r, [work[r] EXCEPT !.next = task.forest + 1]) /\ Goto(r, "write")
     \/ ~Present /\ Enact(r, "exit", "git")
  /\ Local(r)

\* ... and written in another, together with Status = Running.
WriteForest(r) ==
  /\ pc[r] = "write"
  /\ Update(Staged(work[r].next))
  /\ Enact(r, "launch", "trees")
  /\ stale' = FALSE
  /\ UNCHANGED <<orchVars, hpc>>

\* isActiveRun, then finishTask or pauseForClarification: two sections.
FinishTest(r) ==
  /\ pc[r] = "finishTest"
  /\ Goto(r, IF activeRun = r THEN "finish" ELSE "exit")
  /\ Local(r) /\ UNCHANGED work

PauseTest(r) ==
  /\ pc[r] = "pauseTest"
  /\ Goto(r, IF activeRun = r THEN "pause" ELSE "exit")
  /\ Local(r) /\ UNCHANGED work

FinishTask(r) ==
  /\ pc[r] = "finish"
  /\ Update(Done)
  /\ Goto(r, "exit")
  /\ stale' = FALSE
  /\ UNCHANGED <<orchVars, work, hpc>>

PauseForClarification(r) ==
  /\ pc[r] = "pause"
  /\ Update(Paused)
  /\ Goto(r, "exit")
  /\ stale' = FALSE
  /\ UNCHANGED <<orchVars, work, hpc>>

\* The recover handler: a panic anywhere in runForest ends like a finish.
Panic(r) ==
  /\ Panics
  /\ pc[r] \in {"enter", "launch", "checkCtx", "checkStop", "read", "write"}
  /\ Enact(r, "finishTest", "git")
  /\ Local(r)

\* The deferred unregisterCancel; activeRuns keeps the id.
Exit(r) ==
  /\ pc[r] = "exit"
  /\ UnregisterCancel(r)
  /\ Enact(r, "idle", "git")
  /\ stale' = FALSE
  /\ UNCHANGED <<task, activeRun, hpc>>

-----------------------------------------------------------------------------
StartStep(s) == StartCancel(s) \/ StartRegister(s)

Request(c) == CreateTask(c) \/ SendMessage(c) \/ StopCancel(c) \/ DeleteCancel(c)

HandlerStep(c) == CreateAsk(c) \/ StopUpdate(c) \/ DeleteStore(c)

WatchdogStep(w) == WatchdogPick(w) \/ WatchdogProbe(w)

RunStep(r) ==
  \/ Enter(r) \/ Launch(r) \/ CliKilled(r) \/ CheckCtx(r) \/ CheckStop(r)
  \/ ReadForest(r) \/ WriteForest(r) \/ FinishTest(r) \/ PauseTest(r)
  \/ FinishTask(r) \/ PauseForClarification(r) \/ Exit(r)

Next ==
  \/ \E s \in Starter : StartStep(s)
  \/ \E c \in Client : Request(c) \/ HandlerStep(c)
  \/ \E w \in Watchdog : WatchdogStep(w)
  \/ \E r \in Run : RunStep(r) \/ CliReturns(r) \/ Panic(r)
  \/ TimePasses

Spec == Init /\ [][Next]_vars

\* The Go scheduler runs every runnable goroutine, a cancelled CLI is killed,
\* time passes.  Nothing makes a user act or a CLI answer.
Fairness ==
  /\ \A r \in Run : WF_vars(RunStep(r))
  /\ \A s \in Starter : WF_vars(StartStep(s))
  /\ \A c \in Client : WF_vars(HandlerStep(c))
  /\ \A w \in Watchdog : WF_vars(WatchdogStep(w))
  /\ WF_vars(TimePasses)

FairSpec == Spec /\ Fairness

-----------------------------------------------------------------------------
(* Properties.                                                              *)

\* The type of every variable.
TypeOK ==
  /\ task \in Task
  /\ activeRun \in Run \cup {NoRun}
  /\ registered \subseteq Run
  /\ cancelled \subseteq Run
  /\ pc \in [Run -> RunPC]
  /\ work \in [Run -> Locals]
  /\ hpc \in [Starter -> HandlerPC]
  /\ stale \in BOOLEAN

\* Every run with a CLI process has its cancel function in o.cancels, so the
\* stop, delete and supersede paths can reach every process of the task.
LiveIsReachable == Live \subseteq registered

\* Overlapping starts can leave several live Gardeners, because startForestRun
\* cancels and registers in two critical sections, but never more than there
\* are handlers that start runs at the same time.
GardenersBounded == Cardinality(registered \ cancelled) <= Cardinality(Starter)

\* "One Gardener per Forest", when starts do not overlap: of the runs that are
\* registered at most one is not cancelled, however long old runs linger on
\* their way out.
OneGardener == \A r1, r2 \in registered \ cancelled : r1 = r2

\* A run that activeRuns no longer names has been told to stop.
SupersededIsCancelled == \A r \in registered \ {activeRun} : r \in cancelled

\* After a stop no CLI of the task stays alive, unless a later message
\* withdraws the stop (the CLIs are not assumed to end by themselves).
StopIsReliable == task.stopRequested ~> (Live = {} \/ ~task.stopRequested)

\* Once a task is deleted its processes go away and none comes back.
DeleteIsFinal == (task.record = "deleted") ~> [](Live = {})

\* A Running task that nothing works on (a start that failed on a disk error,
\* a late write of a superseded run) does not stay so: the watchdog starts a
\* run, provided the user at last leaves the task alone (a message every few
\* minutes that fails on the disk keeps it looking active).
Stuck == Present /\ task.status = "Running" /\ registered = {}
UserRests == <>[][~ \E c \in Client : Request(c)]_vars
StuckIsRescued == UserRests => (Stuck ~> ~Stuck)

\* A run that was superseded neither finishes nor pauses the task of its
\* successor, nor sets it Running for a stage: the code logs that it only exits.
SupersededOnlyExits ==
  [][\A r \in Run : FinishTask(r) \/ PauseForClarification(r) \/ WriteForest(r)
                      => r = activeRun]_vars

\* When starts do not overlap, the two maps and the contexts keep the promise of
\* OneRun: the run that works is the one registered and not cancelled, those on
\* their way out are registered and cancelled.
Working ==
  IF registered \subseteq cancelled THEN NoRun
  ELSE CHOOSE r \in registered : r \notin cancelled

Promise == INSTANCE OneRun WITH
  working <- Working,
  leaving <- registered \cap cancelled,
  stopped <- task.stopRequested,
  gone <- task.record = "deleted"

ImplementsOneRun == Promise!Spec
=============================================================================
