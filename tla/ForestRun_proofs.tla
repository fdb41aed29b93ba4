--------------------------- MODULE ForestRun_proofs ---------------------------
(***************************************************************************)
(* Theorems about ForestRun for any number of runs, handlers, stages and    *)
(* retries.  All of them are invariants of Spec, without fairness.          *)
(***************************************************************************)
EXTENDS ForestRun, FiniteSetTheorems, TLAPS

-----------------------------------------------------------------------------
(* Type correctness.                                                        *)

\* What the handlers and the runs write to a task is a task.
LEMMA TaskType ==
  ASSUME task \in Task
  PROVE  /\ Resumed \in Task /\ Stopped \in Task /\ Done \in Task /\ Paused \in Task
         /\ \A n \in Nat : Staged(n) \in Task
         /\ [task EXCEPT !.record = "present", !.status = "Running"] \in Task
         /\ [task EXCEPT !.record = "deleted"] \in Task
BY DEF Task, Resumed, Stopped, Done, Paused, Staged

\* The locals of a run stay locals when a stage begins, a CLI answers, an
\* attempt is repeated or the number of the next stage is noted.
LEMMA LocalsType ==
  /\ \A s \in Stages : Begin(s) \in Locals
  /\ \A w \in Locals :
       /\ \A a \in Answers : [w EXCEPT !.plan = a] \in Locals
       /\ \A s \in Stages : [w EXCEPT !.stage = s] \in Locals
       /\ \A n \in Nat : [w EXCEPT !.next = n] \in Locals
       /\ [w EXCEPT !.attempt = @ + 1] \in Locals
<1>1. \A s \in Stages : Begin(s) \in Locals
  BY DEF Begin, Locals, Answers
<1>2. ASSUME NEW w \in Locals
      PROVE  /\ \A a \in Answers : [w EXCEPT !.plan = a] \in Locals
             /\ \A s \in Stages : [w EXCEPT !.stage = s] \in Locals
             /\ \A n \in Nat : [w EXCEPT !.next = n] \in Locals
             /\ [w EXCEPT !.attempt = @ + 1] \in Locals
  BY DEF Locals
<1> QED BY <1>1, <1>2

\* Moving a run, with or without a new stage, keeps pc and work well-typed.
LEMMA MoveType ==
  ASSUME pc \in [Run -> RunPC], work \in [Run -> Locals],
         NEW r \in Run, NEW l \in RunPC
  PROVE  /\ Goto(r, l) => pc' \in [Run -> RunPC]
         /\ \A s \in Stages : Enact(r, l, s) => work' \in [Run -> Locals]
         /\ \A w \in Locals : Assign(r, w) => work' \in [Run -> Locals]
         /\ NoAnswer(r) => work' \in [Run -> Locals]
<1>1. Goto(r, l) => pc' \in [Run -> RunPC]
  BY DEF Goto
<1>2. \A w \in Locals : Assign(r, w) => work' \in [Run -> Locals]
  BY DEF Assign
<1>3. \A s \in Stages : Enact(r, l, s) => work' \in [Run -> Locals]
  BY <1>2, LocalsType DEF Enact
<1>4. NoAnswer(r) => work' \in [Run -> Locals]
  BY <1>2, LocalsType DEF NoAnswer, Answers
<1> QED BY <1>1, <1>2, <1>3, <1>4

\* Every variable keeps its type, whatever the CLI answers and however the
\* handlers, the watchdog and the runs interleave.
THEOREM TypeCorrect == Spec => []TypeOK
<1>1. Init => TypeOK
  <2> SUFFICES ASSUME Init PROVE TypeOK
    OBVIOUS
  <2> USE DEF Init
  <2>1. task \in Task                         BY DEF Task
  <2>2. pc \in [Run -> RunPC]                 BY DEF RunPC
  <2>3. work \in [Run -> Locals]              BY LocalsType DEF Stages
  <2>4. hpc \in [Starter -> HandlerPC]        BY DEF HandlerPC
  <2> QED BY <2>1, <2>2, <2>3, <2>4 DEF TypeOK
<1>2. TypeOK /\ [Next]_vars => TypeOK'
  <2> SUFFICES ASSUME TypeOK, [Next]_vars PROVE TypeOK'
    OBVIOUS
  <2> USE DEF TypeOK, Local, orchVars, runVars
  <2>1. ASSUME NEW s \in Starter, StartStep(s) PROVE TypeOK'
    BY <2>1 DEF StartStep, StartCancel, StartRegister, CancelTaskProcesses, HandlerGoto, HandlerPC,
                Goto, RunPC
  <2>2. ASSUME NEW c \in Client, Request(c) PROVE TypeOK'
    <3> USE DEF HandlerGoto, HandlerPC, Starter
    <3>1. CASE CreateTask(c)   BY <3>1, TaskType DEF CreateTask
    <3>2. CASE SendMessage(c)  BY <3>2, TaskType DEF SendMessage
    <3>3. CASE StopCancel(c)   BY <3>3 DEF StopCancel, CancelTaskProcesses
    <3>4. CASE DeleteCancel(c) BY <3>4 DEF DeleteCancel, CancelTaskProcesses
    <3> QED BY <2>2, <3>1, <3>2, <3>3, <3>4 DEF Request
  <2>3. ASSUME NEW c \in Client, HandlerStep(c) PROVE TypeOK'
    BY <2>3, TaskType DEF HandlerStep, CreateAsk, StopUpdate, DeleteStore, Update, HandlerGoto,
                          HandlerPC, Starter
  <2>4. ASSUME NEW w \in Watchdog, WatchdogStep(w) PROVE TypeOK'
    BY <2>4 DEF WatchdogStep, WatchdogPick, WatchdogProbe, HandlerGoto, HandlerPC, Starter
  <2>5. ASSUME NEW r \in Run, RunStep(r) \/ CliReturns(r) \/ Panic(r) PROVE TypeOK'
    <3>1. pc' \in [Run -> RunPC]
      BY <2>5, MoveType DEF RunPC, RunStep, Enter, Launch, CliKilled, CheckCtx, CheckStop, Proceed,
         ReadForest, WriteForest, FinishTest, PauseTest, FinishTask, PauseForClarification, Exit,
         CliReturns, Panic, Enact, NoAnswer
    <3>2. work' \in [Run -> Locals]
      <4>1. CASE Enter(r) \/ WriteForest(r) \/ FinishTest(r) \/ PauseTest(r) \/ FinishTask(r)
                 \/ PauseForClarification(r) \/ Exit(r) \/ Panic(r) \/ CheckCtx(r)
        BY <4>1, MoveType DEF Stages, RunPC, Enter, WriteForest, FinishTest, PauseTest,
           FinishTask, PauseForClarification, Exit, Panic, CheckCtx
      <4>2. CASE Launch(r) \/ CliKilled(r)
        BY <4>2, MoveType DEF RunPC, Launch, CliKilled
      <4>3. CASE CheckStop(r)
        BY <4>3, MoveType, LocalsType DEF Stages, RunPC, CheckStop, Proceed
      <4>4. CASE ReadForest(r)
        <5>1. task.forest + 1 \in Nat
          BY DEF Task
        <5> QED BY <4>4, <5>1, MoveType, LocalsType DEF ReadForest, Stages, RunPC
      <4>5. CASE CliReturns(r)
        BY <4>5, MoveType, LocalsType DEF CliReturns, RunPC
      <4> QED BY <2>5, <4>1, <4>2, <4>3, <4>4, <4>5 DEF RunStep
    <3>3. task' \in Task
      <4>1. work[r].next \in Nat
        BY DEF Locals
      <4> QED BY <2>5, <4>1, TaskType DEF RunStep, Enter, Launch, CliKilled, CheckCtx, CheckStop,
         ReadForest, WriteForest, FinishTest, PauseTest, FinishTask, PauseForClarification, Exit,
         CliReturns, Panic, Update
    <3>4. registered' \subseteq Run /\ cancelled' \subseteq Run
      BY <2>5 DEF RunStep, Enter, Launch, CliKilled, CheckCtx, CheckStop, ReadForest, WriteForest,
         FinishTest, PauseTest, FinishTask, PauseForClarification, Exit, UnregisterCancel,
         CliReturns, Panic
    <3>5. UNCHANGED <<activeRun, hpc>> /\ stale' = FALSE
      BY <2>5 DEF RunStep, Enter, Launch, CliKilled, CheckCtx, CheckStop, ReadForest, WriteForest,
         FinishTest, PauseTest, FinishTask, PauseForClarification, Exit, CliReturns, Panic
    <3> QED BY <3>1, <3>2, <3>3, <3>4, <3>5
  <2>6. CASE TimePasses
    BY <2>6 DEF TimePasses
  <2>7. CASE UNCHANGED vars
    BY <2>7 DEF vars
  <2> QED BY <2>1, <2>2, <2>3, <2>4, <2>5, <2>6, <2>7 DEF Next
<1> QED BY <1>1, <1>2, PTL DEF Spec

-----------------------------------------------------------------------------
(* What a step does to the registration of runs.                            *)

\* The step leaves activeRuns, cancels and the contexts alone; no run begins
\* or ends and no handler stands between the two halves of startForestRun that
\* did not before.
Quiet ==
  /\ UNCHANGED orchVars
  /\ \A r \in Run : pc'[r] = "idle" <=> pc[r] = "idle"
  /\ \A s \in Starter : hpc'[s] = "register" <=> hpc[s] = "register"

\* A stop or a delete cancels what is registered.
CancelsAll ==
  /\ CancelTaskProcesses
  /\ UNCHANGED <<activeRun, registered, pc>>
  /\ \A s \in Starter : hpc'[s] = "register" <=> hpc[s] = "register"

\* Only the two halves of startForestRun, the end of a run, a stop and a
\* delete touch the registration of runs.
LEMMA StepKinds ==
  ASSUME TypeOK, [Next]_vars
  PROVE  \/ Quiet
         \/ CancelsAll
         \/ \E s \in Starter : StartCancel(s) \/ StartRegister(s)
         \/ \E r \in Run : Exit(r)
<1> USE DEF TypeOK, orchVars, runVars, HandlerGoto, Local
<1>1. ASSUME NEW c \in Client, Request(c) PROVE Quiet \/ CancelsAll
  BY <1>1 DEF Request, CreateTask, SendMessage, StopCancel, DeleteCancel, Quiet, CancelsAll, Starter
<1>2. ASSUME NEW c \in Client, HandlerStep(c) PROVE Quiet
  BY <1>2 DEF HandlerStep, CreateAsk, StopUpdate, DeleteStore, Quiet, Starter
<1>3. ASSUME NEW w \in Watchdog, WatchdogStep(w) PROVE Quiet
  BY <1>3 DEF WatchdogStep, WatchdogPick, WatchdogProbe, Quiet, Starter
<1>4. ASSUME NEW r \in Run, RunStep(r) \/ CliReturns(r) \/ Panic(r), ~Exit(r) PROVE Quiet
  <2>1. \E l \in RunPC \ {"idle"} : Goto(r, l)
    BY <1>4 DEF RunStep, Enter, Launch, CliKilled, CheckCtx, CheckStop, Proceed, ReadForest,
       WriteForest, FinishTest, PauseTest, FinishTask, PauseForClarification, CliReturns, Panic,
       Enact, NoAnswer, RunPC
  <2>2. pc[r] # "idle"
    BY <1>4 DEF RunStep, Enter, Launch, CliKilled, CheckCtx, CheckStop, ReadForest,
       WriteForest, FinishTest, PauseTest, FinishTask, PauseForClarification, CliReturns, Panic
  <2>3. \A q \in Run : pc'[q] = "idle" <=> pc[q] = "idle"
    BY <2>1, <2>2 DEF Goto
  <2>4. UNCHANGED <<orchVars, hpc>>
    BY <1>4 DEF RunStep, Enter, Launch, CliKilled, CheckCtx, CheckStop, ReadForest, WriteForest,
       FinishTest, PauseTest, FinishTask, PauseForClarification, CliReturns, Panic
  <2> QED BY <2>3, <2>4 DEF Quiet
<1>5. CASE TimePasses
  BY <1>5 DEF TimePasses, Quiet
<1>6. CASE UNCHANGED vars
  BY <1>6 DEF vars, Quiet
<1> QED BY <1>1, <1>2, <1>3, <1>4, <1>5, <1>6 DEF Next, StartStep

-----------------------------------------------------------------------------
(* Every run can be reached through o.cancels, in any interleaving.         *)

\* o.cancels holds exactly the runs whose goroutine exists, and only such a
\* run has a cancelled context.
Registration ==
  /\ registered = {r \in Run : pc[r] # "idle"}
  /\ cancelled \subseteq registered

\* The goroutine of a run lives exactly as long as its key in o.cancels.
THEOREM RegistrationCorrect == Spec => []Registration
<1>1. Init => Registration
  BY DEF Init, Registration
<1>2. TypeOK /\ Registration /\ [Next]_vars => Registration'
  <2> SUFFICES ASSUME TypeOK, Registration, [Next]_vars PROVE Registration'
    OBVIOUS
  <2> USE DEF TypeOK, Registration
  <2>1. CASE Quiet
    BY <2>1 DEF Quiet, orchVars
  <2>2. CASE CancelsAll
    BY <2>2 DEF CancelsAll, CancelTaskProcesses
  <2>3. ASSUME NEW s \in Starter, StartCancel(s) PROVE Registration'
    BY <2>3 DEF StartCancel, CancelTaskProcesses, runVars
  <2>4. ASSUME NEW s \in Starter, StartRegister(s) PROVE Registration'
    BY <2>4 DEF StartRegister, Goto, Fresh
  <2>5. ASSUME NEW r \in Run, Exit(r) PROVE Registration'
    BY <2>5 DEF Exit, UnregisterCancel, Enact, Goto
  <2> QED BY <2>1, <2>2, <2>3, <2>4, <2>5, StepKinds
<1> QED BY <1>1, <1>2, TypeCorrect, PTL DEF Spec

\* A stop, a delete or a new message reaches every CLI process of the task.
THEOREM Reachable == Spec => []LiveIsReachable
<1>1. Registration => LiveIsReachable
  BY DEF Registration, LiveIsReachable, Live
<1> QED BY <1>1, RegistrationCorrect, PTL

-----------------------------------------------------------------------------
(* One Gardener, as long as starts do not overlap.                          *)

\* The inductive invariant.  startForestRun lets go of Orchestrator.mu between
\* cancelling and registering; what saves it, when no other handler starts a
\* run meanwhile, is that everything registered is cancelled at that point.
Supersession ==
  /\ SupersededIsCancelled
  /\ \A s \in Starter : hpc[s] = "register" => registered \subseteq cancelled

LEMMA SupersessionHolds ==
  ASSUME \A s, t \in Starter : s = t
  PROVE  Spec => []Supersession
<1>1. Init => Supersession
  BY DEF Init, Supersession, SupersededIsCancelled
<1>2. TypeOK /\ Supersession /\ [Next]_vars => Supersession'
  <2> SUFFICES ASSUME TypeOK, Supersession, [Next]_vars PROVE Supersession'
    OBVIOUS
  <2> USE DEF TypeOK, Supersession, SupersededIsCancelled
  <2>1. CASE Quiet
    BY <2>1 DEF Quiet, orchVars
  <2>2. CASE CancelsAll
    BY <2>2 DEF CancelsAll, CancelTaskProcesses
  <2>3. ASSUME NEW s \in Starter, StartCancel(s) PROVE Supersession'
    BY <2>3 DEF StartCancel, CancelTaskProcesses
  <2>4. ASSUME NEW s \in Starter, StartRegister(s) PROVE Supersession'
    <3>1. registered \subseteq cancelled
      BY <2>4 DEF StartRegister
    <3>2. SupersededIsCancelled'
      BY <2>4, <3>1 DEF StartRegister
    <3>3. \A t \in Starter : hpc'[t] # "register"
      BY <2>4 DEF StartRegister, HandlerGoto
    <3> QED BY <3>2, <3>3
  <2>5. ASSUME NEW r \in Run, Exit(r) PROVE Supersession'
    BY <2>5 DEF Exit, UnregisterCancel
  <2> QED BY <2>1, <2>2, <2>3, <2>4, <2>5, StepKinds
<1> QED BY <1>1, <1>2, TypeCorrect, PTL DEF Spec

\* When at most one handler or watchdog can be starting runs, a run that
\* activeRuns no longer names has been told to stop ...
THEOREM Superseded ==
  ASSUME \A s, t \in Starter : s = t
  PROVE  Spec => []SupersededIsCancelled
<1>1. Supersession => SupersededIsCancelled
  BY DEF Supersession
<1> QED BY <1>1, SupersessionHolds, PTL

\* ... so the Forest has one Gardener.
THEOREM Single ==
  ASSUME \A s, t \in Starter : s = t
  PROVE  Spec => []OneGardener
<1>1. SupersededIsCancelled => OneGardener
  BY DEF SupersededIsCancelled, OneGardener
<1> QED BY <1>1, Superseded, PTL

-----------------------------------------------------------------------------
(* The promise of OneRun, as long as starts do not overlap.                 *)

\* A handler is at work on a task that is there, and whoever is about to record
\* a stop or a delete finds nobody at work.
Handled ==
  \A s \in Starter :
    /\ hpc[s] # "idle" => Present
    /\ hpc[s] \in {"stop", "delete"} => registered \subseteq cancelled

LEMMA HandledHolds ==
  ASSUME \A s, t \in Starter : s = t
  PROVE  Spec => []Handled
<1>1. Init => Handled
  BY DEF Init, Handled
<1>2. TypeOK /\ Registration /\ Handled /\ [Next]_vars => Handled'
  <2> SUFFICES ASSUME TypeOK, Registration, Handled, [Next]_vars PROVE Handled'
    OBVIOUS
  <2> USE DEF TypeOK, Handled, HandlerGoto, Present, orchVars, runVars, Starter
  <2>1. ASSUME NEW s \in Starter, StartStep(s) PROVE Handled'
    BY <2>1 DEF StartStep, StartCancel, StartRegister
  <2>2. ASSUME NEW c \in Client, Request(c) PROVE Handled'
    <3>1. CASE CreateTask(c)   BY <3>1 DEF CreateTask, Task
    <3>2. CASE SendMessage(c)  BY <3>2 DEF SendMessage, Resumed, Task
    <3>3. CASE StopCancel(c)   BY <3>3 DEF StopCancel, CancelTaskProcesses
    <3>4. CASE DeleteCancel(c) BY <3>4 DEF DeleteCancel, CancelTaskProcesses
    <3> QED BY <2>2, <3>1, <3>2, <3>3, <3>4 DEF Request
  <2>3. ASSUME NEW c \in Client, HandlerStep(c) PROVE Handled'
    BY <2>3 DEF HandlerStep, CreateAsk, StopUpdate, DeleteStore
  <2>4. ASSUME NEW w \in Watchdog, WatchdogStep(w) PROVE Handled'
    BY <2>4 DEF WatchdogStep, WatchdogPick, WatchdogProbe
  <2>5. ASSUME NEW r \in Run, RunStep(r) \/ CliReturns(r) \/ Panic(r) PROVE Handled'
    <3>1. UNCHANGED hpc
      BY <2>5 DEF RunStep, Enter, Launch, CliKilled, CheckCtx, CheckStop, ReadForest, WriteForest,
         FinishTest, PauseTest, FinishTask, PauseForClarification, Exit, CliReturns, Panic, Local
    <3>2. task'.record = task.record
      BY <2>5 DEF RunStep, Enter, Launch, CliKilled, CheckCtx, CheckStop, ReadForest, WriteForest,
         FinishTest, PauseTest, FinishTask, PauseForClarification, Exit, CliReturns, Panic, Local,
         Update, Staged, Done, Paused, Task
    <3>3. registered \subseteq cancelled => registered' \subseteq cancelled'
      BY <2>5 DEF RunStep, Enter, Launch, CliKilled, CheckCtx, CheckStop, ReadForest, WriteForest,
         FinishTest, PauseTest, FinishTask, PauseForClarification, Exit, CliReturns, Panic, Local,
         UnregisterCancel
    <3> QED BY <3>1, <3>2, <3>3
  <2>6. CASE TimePasses
    BY <2>6 DEF TimePasses
  <2>7. CASE UNCHANGED vars
    BY <2>7 DEF vars
  <2> QED BY <2>1, <2>2, <2>3, <2>4, <2>5, <2>6, <2>7 DEF Next
<1> QED BY <1>1, <1>2, TypeCorrect, RegistrationCorrect, PTL DEF Spec

\* What a step does to the user's stop and to the task as such.
LEMMA TaskKinds ==
  ASSUME TypeOK, Handled, [Next]_vars
  PROVE  \/ task'.stopRequested = task.stopRequested
              /\ (task'.record = "deleted" <=> task.record = "deleted")
         \/ Quiet /\ task'.stopRequested = FALSE
              /\ (task'.record = "deleted" <=> task.record = "deleted")
         \/ Quiet /\ registered \subseteq cancelled /\ task'.stopRequested = TRUE
              /\ (task'.record = "deleted" <=> task.record = "deleted")
         \/ Quiet /\ registered \subseteq cancelled
              /\ task'.stopRequested = task.stopRequested /\ task'.record = "deleted"
<1> USE DEF TypeOK, orchVars, runVars, Update, Present
<1>1. ASSUME NEW s \in Starter, StartStep(s) PROVE UNCHANGED task
  BY <1>1 DEF StartStep, StartCancel, StartRegister
<1>2. ASSUME NEW c \in Client, CreateTask(c)
      PROVE  task'.stopRequested = task.stopRequested /\ task.record # "deleted"
             /\ task'.record # "deleted"
  BY <1>2 DEF CreateTask, Task
<1>3. ASSUME NEW c \in Client, SendMessage(c)
      PROVE  Quiet /\ task'.stopRequested = FALSE /\ task'.record = task.record
  BY <1>3 DEF SendMessage, Resumed, Task, Quiet, HandlerGoto, Starter
<1>4. ASSUME NEW c \in Client, StopCancel(c) \/ DeleteCancel(c) PROVE UNCHANGED task
  BY <1>4 DEF StopCancel, DeleteCancel
<1>5. ASSUME NEW c \in Client, CreateAsk(c)
      PROVE  Quiet /\ task'.record = task.record
             /\ (task'.stopRequested = FALSE \/ UNCHANGED task)
  BY <1>5 DEF CreateAsk, Paused, Task, Quiet, HandlerGoto, Starter
<1>6. ASSUME NEW c \in Client, StopUpdate(c)
      PROVE  Quiet /\ registered \subseteq cancelled /\ task'.record = task.record
             /\ task'.stopRequested = TRUE
  BY <1>6 DEF StopUpdate, Stopped, Task, Quiet, HandlerGoto, Starter, Handled
<1>7. ASSUME NEW c \in Client, DeleteStore(c)
      PROVE  Quiet /\ registered \subseteq cancelled /\ task'.record = "deleted"
             /\ task'.stopRequested = task.stopRequested
  BY <1>7 DEF DeleteStore, Task, Quiet, HandlerGoto, Starter, Handled
<1>8. ASSUME NEW w \in Watchdog, WatchdogStep(w) PROVE UNCHANGED task
  BY <1>8 DEF WatchdogStep, WatchdogPick, WatchdogProbe
<1>9. ASSUME NEW r \in Run, PauseForClarification(r)
      PROVE  Quiet /\ task'.record = task.record
             /\ (task'.stopRequested = FALSE \/ UNCHANGED task)
  BY <1>9 DEF PauseForClarification, Paused, Task, Quiet, Goto
<1>10. ASSUME NEW r \in Run, RunStep(r) \/ CliReturns(r) \/ Panic(r), ~PauseForClarification(r)
       PROVE  task'.record = task.record /\ task'.stopRequested = task.stopRequested
  BY <1>10 DEF RunStep, Enter, Launch, CliKilled, CheckCtx, CheckStop, ReadForest, WriteForest,
     FinishTest, PauseTest, FinishTask, Exit, CliReturns, Panic, Local, Staged, Done, Task
<1>11. CASE TimePasses \/ UNCHANGED vars
  BY <1>11 DEF TimePasses, vars
<1> QED
  BY <1>1, <1>2, <1>3, <1>4, <1>5, <1>6, <1>7, <1>8, <1>9, <1>10, <1>11
     DEF Next, Request, HandlerStep

\* The run that works, in a state and in the next one.
LEMMA WorkingIs ==
  ASSUME OneGardener
  PROVE  /\ registered \subseteq cancelled => Working = NoRun
         /\ \A r \in registered \ cancelled : Working = r
BY DEF OneGardener, Working

LEMMA WorkingNext ==
  ASSUME OneGardener'
  PROVE  /\ (registered \subseteq cancelled)' => Working' = NoRun
         /\ \A r \in (registered \ cancelled)' : Working' = r
BY DEF OneGardener, Working

\* A step of the orchestrator is a step of OneRun, or one it does not see.
LEMMA StepImplements ==
  ASSUME \A s, t \in Starter : s = t, TypeOK, Registration, Supersession, Handled,
         Supersession', [Next]_vars
  PROVE  [Promise!Next]_Promise!vars
<1> USE DEF TypeOK
<1>0. OneGardener /\ OneGardener'
  BY DEF Supersession, SupersededIsCancelled, OneGardener
<1>1. CASE Quiet
  <2>1. UNCHANGED <<Working, registered \cap cancelled>>
    BY <1>1 DEF Quiet, orchVars, Working
  <2>2. registered \subseteq cancelled => Working = NoRun
    BY <1>0, WorkingIs
  <2> QED
    BY <1>1, <2>1, <2>2, TaskKinds
       DEF Promise!Next, Promise!Withdraw, Promise!Stop, Promise!Delete, Promise!vars
<1>2. CASE ~Quiet /\ (CancelsAll \/ \E s \in Starter : StartCancel(s))
  <2>1. CancelTaskProcesses /\ UNCHANGED registered
    BY <1>2 DEF CancelsAll, StartCancel
  <2>2. (registered \subseteq cancelled)' /\ (registered \cap cancelled)' = registered
    BY <2>1 DEF CancelTaskProcesses
  <2>3. Working' = NoRun
    BY <1>0, <2>2, WorkingNext
  <2>4. UNCHANGED <<task.stopRequested, task.record = "deleted">>
    BY <1>2, TaskKinds
  <2>5. CASE registered \subseteq cancelled
    <3>1. Working = NoRun /\ registered \cap cancelled = registered
      BY <1>0, <2>5, WorkingIs
    <3> QED
      BY <2>2, <2>3, <2>4, <3>1 DEF Promise!vars
  <2>6. ASSUME NEW r \in registered \ cancelled PROVE Promise!Dismiss
    <3>1. Working = r /\ r # NoRun
      BY <1>0, WorkingIs, RunAssumption
    <3>2. registered = (registered \cap cancelled) \cup {r}
      BY <1>0 DEF OneGardener
    <3> QED
      BY <2>2, <2>3, <2>4, <3>1, <3>2 DEF Promise!Dismiss
  <2> QED
    BY <2>5, <2>6 DEF Promise!Next
<1>3. ASSUME ~Quiet, NEW s \in Starter, StartRegister(s) PROVE Promise!Next
  <2>1. PICK r \in Run : pc[r] = "idle" /\ registered' = registered \cup {r} /\ UNCHANGED cancelled
    BY <1>3 DEF StartRegister, Fresh
  <2>2. r \notin registered /\ cancelled \subseteq registered
    BY <2>1 DEF Registration
  <2>3. registered \subseteq cancelled /\ task.record # "deleted"
    BY <1>3 DEF StartRegister, Supersession, Handled, Present
  <2>4. Working = NoRun /\ Working' = r
    BY <1>0, <2>1, <2>2, <2>3, WorkingIs, WorkingNext
  <2>5. UNCHANGED <<registered \cap cancelled, task.stopRequested, task.record = "deleted">>
    BY <1>3, <2>1, <2>2, TaskKinds
  <2>6. Promise!Begin(r)
    BY <2>2, <2>3, <2>4, <2>5 DEF Promise!Begin
  <2> QED
    BY <2>6 DEF Promise!Next
<1>4. ASSUME ~Quiet, NEW r \in Run, Exit(r) PROVE Promise!Next
  <2>1. r \in registered /\ registered' = registered \ {r} /\ cancelled' = cancelled \ {r}
    BY <1>4 DEF Exit, UnregisterCancel, Registration
  <2>2. UNCHANGED <<task.stopRequested, task.record = "deleted">>
    BY <1>4 DEF Exit
  <2>3. CASE r \in cancelled
    <3>1. registered' \ cancelled' = registered \ cancelled
      BY <2>1, <2>3
    <3>2. UNCHANGED Working
      <4>1. CASE registered \subseteq cancelled
        BY <1>0, <3>1, <4>1, WorkingIs, WorkingNext
      <4>2. ASSUME NEW q \in registered \ cancelled PROVE Working = q /\ Working' = q
        BY <1>0, <3>1, WorkingIs, WorkingNext
      <4> QED
        BY <4>1, <4>2
    <3>3. (registered \cap cancelled)' = (registered \cap cancelled) \ {r}
      BY <2>1
    <3>4. Promise!Leave(r)
      BY <2>1, <2>2, <2>3, <3>2, <3>3 DEF Promise!Leave
    <3> QED
      BY <3>4 DEF Promise!Next
  <2>4. CASE r \notin cancelled
    <3>1. Working = r /\ r # NoRun
      BY <1>0, <2>1, <2>4, WorkingIs, RunAssumption
    <3>2. (registered \subseteq cancelled)'
      BY <1>0, <2>1, <2>4 DEF OneGardener
    <3>3. Working' = NoRun /\ UNCHANGED (registered \cap cancelled)
      BY <1>0, <2>1, <2>4, <3>2, WorkingNext
    <3>4. Promise!End
      BY <2>2, <3>1, <3>3 DEF Promise!End
    <3> QED
      BY <3>4 DEF Promise!Next
  <2> QED
    BY <2>3, <2>4
<1> QED
  BY <1>1, <1>2, <1>3, <1>4, StepKinds

\* When at most one handler or watchdog can be starting runs, the orchestrator
\* keeps the promise of OneRun: a run begins only when no other works and the
\* task is there, a stop and a delete are recorded only when none works.
THEOREM Implements ==
  ASSUME \A s, t \in Starter : s = t
  PROVE  Spec => Promise!Safety
<1>1. Init => Promise!Init
  BY WorkingIs DEF Init, Promise!Init, OneGardener
<1>2. TypeOK /\ Registration /\ Supersession /\ Handled /\ Supersession' /\ [Next]_vars
        => [Promise!Next]_Promise!vars
  BY StepImplements
<1> QED
  BY <1>1, <1>2, TypeCorrect, RegistrationCorrect, SupersessionHolds, HandledHolds, PTL
     DEF Spec, Promise!Safety

-----------------------------------------------------------------------------
(* How many Gardeners overlapping starts can leave.                         *)

Uncancelled == registered \ cancelled

Registering == {s \in Starter : hpc[s] = "register"}

\* The inductive invariant: a handler that has cancelled and will register
\* counts for the run it is about to add.
Budget ==
  /\ IsFiniteSet(Uncancelled)
  /\ Cardinality(Uncancelled) + Cardinality(Registering) <= Cardinality(Starter)

LEMMA BudgetHolds ==
  ASSUME IsFiniteSet(Starter)
  PROVE  Spec => []Budget
<1>1. Init => Budget
  <2> SUFFICES ASSUME Init PROVE Budget
    OBVIOUS
  <2>1. Uncancelled = {} /\ Registering = {}
    BY DEF Init, Uncancelled, Registering
  <2> QED BY <2>1, FS_EmptySet, FS_CardinalityType DEF Budget
<1>2. TypeOK /\ Budget /\ [Next]_vars => Budget'
  <2> SUFFICES ASSUME TypeOK, Budget, [Next]_vars PROVE Budget'
    OBVIOUS
  <2>0. /\ IsFiniteSet(Registering) /\ IsFiniteSet(Registering')
        /\ Cardinality(Registering) \in Nat
        /\ Cardinality(Registering') \in Nat
        /\ Cardinality(Registering') <= Cardinality(Starter)
        /\ Cardinality(Starter) \in Nat
        /\ Cardinality(Uncancelled) \in Nat
    BY FS_Subset, FS_CardinalityType DEF Registering, Budget
  <2>1. CASE Quiet
    <3>1. Uncancelled' = Uncancelled /\ Registering' = Registering
      BY <2>1 DEF Quiet, orchVars, Uncancelled, Registering
    <3> QED BY <3>1 DEF Budget
  <2>2. CASE CancelsAll
    <3>1. Uncancelled' = {}
      BY <2>2 DEF CancelsAll, CancelTaskProcesses, Uncancelled
    <3> QED BY <2>0, <3>1, FS_EmptySet DEF Budget
  <2>3. ASSUME NEW s \in Starter, StartCancel(s) PROVE Budget'
    <3>1. Uncancelled' = {}
      BY <2>3 DEF StartCancel, CancelTaskProcesses, Uncancelled
    <3> QED BY <2>0, <3>1, FS_EmptySet DEF Budget
  <2>4. ASSUME NEW s \in Starter, StartRegister(s) PROVE Budget'
    <3>1. PICK r \in Run : registered' = registered \cup {r} /\ cancelled' = cancelled
      BY <2>4 DEF StartRegister
    <3>2. Uncancelled' = Uncancelled \/ Uncancelled' = Uncancelled \cup {r}
      BY <3>1 DEF Uncancelled
    <3>3. /\ IsFiniteSet(Uncancelled')
          /\ Cardinality(Uncancelled') \in Nat
          /\ Cardinality(Uncancelled') <= Cardinality(Uncancelled) + 1
      <4>1. /\ IsFiniteSet(Uncancelled \cup {r})
            /\ Cardinality(Uncancelled \cup {r})
                 = IF r \in Uncancelled THEN Cardinality(Uncancelled)
                                        ELSE Cardinality(Uncancelled) + 1
        BY FS_AddElement DEF Budget
      <4> QED BY <2>0, <3>2, <4>1 DEF Budget
    <3>4. s \in Registering /\ Registering' = Registering \ {s}
      BY <2>4 DEF StartRegister, HandlerGoto, Registering, TypeOK
    <3>5. Cardinality(Registering') = Cardinality(Registering) - 1
      BY <2>0, <3>4, FS_RemoveElement
    <3> QED BY <2>0, <3>3, <3>5 DEF Budget
  <2>5. ASSUME NEW r \in Run, Exit(r) PROVE Budget'
    <3>1. Uncancelled' \subseteq Uncancelled /\ Registering' = Registering
      BY <2>5 DEF Exit, UnregisterCancel, Uncancelled, Registering
    <3>2. /\ IsFiniteSet(Uncancelled')
          /\ Cardinality(Uncancelled') \in Nat
          /\ Cardinality(Uncancelled') <= Cardinality(Uncancelled)
      BY <3>1, FS_Subset, FS_CardinalityType DEF Budget
    <3> QED BY <2>0, <3>1, <3>2 DEF Budget
  <2> QED BY <2>1, <2>2, <2>3, <2>4, <2>5, StepKinds
<1> QED BY <1>1, <1>2, TypeCorrect, PTL DEF Spec

\* Overlapping starts leave at most one live Gardener per handler that can
\* start runs.
THEOREM Bounded ==
  ASSUME IsFiniteSet(Starter)
  PROVE  Spec => []GardenersBounded
<1>1. TypeOK /\ Budget => GardenersBounded
  <2> SUFFICES ASSUME Budget PROVE GardenersBounded
    OBVIOUS
  <2>1. IsFiniteSet(Registering)
    BY FS_Subset DEF Registering
  <2> QED BY <2>1, FS_CardinalityType DEF Budget, GardenersBounded, Uncancelled
<1> QED BY <1>1, TypeCorrect, BudgetHolds, PTL
=============================================================================
