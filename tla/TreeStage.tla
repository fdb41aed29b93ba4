------------------------------ MODULE TreeStage ------------------------------
(***************************************************************************)
(* One stage of a Gardener run: runTreeForest starts a goroutine per        *)
(* sub-task (Tree) of the plan, a semaphore lets MaxConcurrent of them work *)
(* at a time, and once all have returned runValidationTree runs one more    *)
(* Tree.  Meanwhile the user may stop the task, supersede the run with a    *)
(* new message, or delete the task together with its directory.             *)
(*                                                                          *)
(* ForestRun sees all this as the stages "trees" and "validate".  A step is *)
(* one critical section of Store.mu, one channel operation, one write of a  *)
(* report file, or the start or end of a CLI process.                       *)
(***************************************************************************)
EXTENDS Naturals, FiniteSets

CONSTANTS
  NTrees,         \* Trees in the plan, already cut to MaxTreesPerForest
  MaxConcurrent,  \* Orchestrator.maxConcurrent
  Refusable       \* bound: the Trees whose report the disk may refuse

ASSUME TreeAssumption == NTrees \in Nat \ {0} /\ MaxConcurrent \in Nat \ {0}

VARIABLES
  present,        \* is the task in Store.tasks?
  stopRequested,  \* Task.StopRequested
  ctxDone,        \* is the context of the run cancelled?
  stage,          \* where the run's goroutine is
  next,           \* index of the next Tree runTreeForest will add
  tree,           \* Task.Trees: status and whether FruitPath is set
  gor,            \* where each Tree's goroutine is
  slots,          \* the Trees whose goroutine holds a slot of sem
  dir,            \* does forests/{taskID} exist on disk?
  handler,        \* where the HTTP handler is
  paths,          \* StopTask's local: the Trees it wrote a fruit.md for
  fruitPath,      \* runTree's local: the Trees whose writeFruit gave a path
  report          \* while the task exists, the fruit.md of each Tree: whole, or in
                  \* doubt for good once a write of it has failed

vars == <<present, stopRequested, ctxDone, stage, next, tree, gor, slots, dir, handler, paths,
          fruitPath, report>>
taskVars == <<present, stopRequested, tree>>
runVars == <<stage, next>>
handlerVars == <<handler, paths>>
reportVars == <<fruitPath, report>>

Planned == 1 .. NTrees
Validation == NTrees + 1
Tree == 1 .. Validation

Working == {"find", "mark", "goal", "cli", "fruit", "update", "progress"}
Early == {"early", "earlyFruit", "earlyUpdate"}

TreeRecord == [status : {"none", "Running", "Finished"}, fruit : BOOLEAN]
TreePC == {"none", "acquire", "done"} \cup Working \cup Early
StagePC == {"loop", "add", "wait", "validate", "validating", "done"}
HandlerPC == {"idle", "stopSnapshot", "stopUpdate", "supersede", "delete", "remove"}

NoTree == [status |-> "none", fruit |-> FALSE]

Init ==
  /\ present = TRUE
  /\ stopRequested = FALSE
  /\ ctxDone = FALSE
  /\ stage = "loop"
  /\ next = 1
  /\ tree = [i \in Tree |-> NoTree]
  /\ gor = [i \in Tree |-> "none"]
  /\ slots = {}
  /\ dir = TRUE
  /\ handler = "idle"
  /\ paths = {}
  /\ fruitPath = {}
  /\ report = [i \in Tree |-> "none"]

Goto(i, l) == gor' = [gor EXCEPT ![i] = l]

\* UpdateTree: write f to the record of Tree i, if task and Tree exist, and
\* persist the task (which makes its directory).
UpdateTree(i, f) ==
  /\ tree' = IF present /\ tree[i].status # "none" THEN [tree EXCEPT ![i] = f] ELSE tree
  /\ dir' = (dir \/ present)
  /\ UNCHANGED <<present, stopRequested>>

AddTree(i) ==
  /\ tree' = IF present THEN [tree EXCEPT ![i].status = "Running"] ELSE tree
  /\ dir' = (dir \/ present)
  /\ UNCHANGED <<present, stopRequested>>

\* A goal or log file of a Tree: its directories are made as needed, and nobody
\* asks whether it could be written.
WriteFile == dir' = TRUE

\* Reports are written: those of the refused Trees fail, and leave on disk an
\* older report, a torn one or none.
Write(trees, refused) ==
  /\ refused \subseteq Refusable
  /\ report' = [i \in Tree |-> IF ~present THEN "none"
                               ELSE IF i \in refused THEN "failed"
                               ELSE IF i \in trees /\ report[i] = "none" THEN "whole"
                               ELSE report[i]]

Stopping == ctxDone \/ (present /\ stopRequested)

-----------------------------------------------------------------------------
(* The run's goroutine.                                                     *)

\* Mutant: one Tree too many.
LoopOneMore ==
  /\ stage = "loop"
  /\ stage' = IF next <= NTrees + 1 /\ ~Stopping THEN "add" ELSE "wait"
  /\ UNCHANGED <<taskVars, ctxDone, next, gor, slots, dir, handlerVars, reportVars>>

\* runTreeForest looks for a stop before every Tree ...
Loop ==
  /\ stage = "loop"
  /\ stage' = IF next <= NTrees /\ ~Stopping THEN "add" ELSE "wait"
  /\ UNCHANGED <<taskVars, ctxDone, next, gor, slots, dir, handlerVars, reportVars>>

\* ... and then adds it and starts its goroutine, whatever happened meanwhile.
Spawn ==
  /\ stage = "add"
  /\ AddTree(next)
  /\ Goto(next, "acquire")
  /\ next' = next + 1
  /\ stage' = "loop"
  /\ UNCHANGED <<ctxDone, slots, handlerVars, reportVars>>

\* Mutant: validation does not wait for the Trees.
NoWait ==
  /\ stage = "wait"
  /\ stage' = IF Stopping THEN "done" ELSE "validate"
  /\ UNCHANGED <<taskVars, ctxDone, next, gor, slots, dir, handlerVars, reportVars>>

\* wg.Wait returns; the run checks for a stop before it validates.
Wait ==
  /\ stage = "wait"
  /\ \A i \in Planned : gor[i] \in {"none", "done"}
  /\ stage' = IF Stopping THEN "done" ELSE "validate"
  /\ UNCHANGED <<taskVars, ctxDone, next, gor, slots, dir, handlerVars, reportVars>>

\* runValidationTree adds its Tree and runs it in the run's goroutine.
Validate ==
  /\ stage = "validate"
  /\ IF present
     THEN stage' = "validating" /\ AddTree(Validation) /\ Goto(Validation, "find")
     ELSE stage' = "done" /\ UNCHANGED <<taskVars, dir, gor>>
  /\ UNCHANGED <<ctxDone, next, slots, handlerVars, reportVars>>

EndStage ==
  /\ stage = "validating" /\ gor[Validation] = "done"
  /\ stage' = "done"
  /\ UNCHANGED <<taskVars, ctxDone, next, gor, slots, dir, handlerVars, reportVars>>

-----------------------------------------------------------------------------
(* The goroutine of Tree i.                                                 *)

\* Mutants: a semaphore with one slot too many; a Tree that never got a slot
\* ends without a report.
AcquireOneMore(i) ==
  /\ gor[i] = "acquire"
  /\ \/ /\ Cardinality(slots) <= MaxConcurrent
        /\ slots' = slots \cup {i}
        /\ Goto(i, "find")
     \/ /\ ctxDone
        /\ Goto(i, "early")
        /\ UNCHANGED slots
  /\ UNCHANGED <<taskVars, ctxDone, runVars, dir, handlerVars, reportVars>>

AcquireNoReport(i) ==
  /\ gor[i] = "acquire"
  /\ \/ /\ Cardinality(slots) < MaxConcurrent
        /\ slots' = slots \cup {i}
        /\ Goto(i, "find")
     \/ /\ ctxDone
        /\ Goto(i, "done")
        /\ UNCHANGED slots
  /\ UNCHANGED <<taskVars, ctxDone, runVars, dir, handlerVars, reportVars>>

\* select: a free slot, or the context; when both are ready, either.
Acquire(i) ==
  /\ gor[i] = "acquire"
  /\ \/ /\ Cardinality(slots) < MaxConcurrent
        /\ slots' = slots \cup {i}
        /\ Goto(i, "find")
     \/ /\ ctxDone
        /\ Goto(i, "early")
        /\ UNCHANGED slots
  /\ UNCHANGED <<taskVars, ctxDone, runVars, dir, handlerVars, reportVars>>

Release(i) == slots' = slots \ {i} /\ Goto(i, "done")

\* runTree: FindTree, GetTask.
Find(i) ==
  /\ gor[i] = "find"
  /\ IF present /\ tree[i].status # "none"
     THEN Goto(i, "mark") /\ UNCHANGED slots
     ELSE Release(i)
  /\ UNCHANGED <<taskVars, ctxDone, runVars, dir, handlerVars, reportVars>>

\* The Tree is set to Running whatever its status is by now.
Mark(i) ==
  /\ gor[i] = "mark"
  /\ UpdateTree(i, [tree[i] EXCEPT !.status = "Running"])
  /\ Goto(i, "goal")
  /\ UNCHANGED <<ctxDone, runVars, slots, handlerVars, reportVars>>

\* writeTreeGoal and the first line of progress.log; then the CLI starts, unless
\* the context is cancelled.
Launch(i) ==
  /\ gor[i] = "goal"
  /\ WriteFile
  /\ Goto(i, IF ctxDone THEN "fruit" ELSE "cli")
  /\ UNCHANGED <<taskVars, ctxDone, runVars, slots, handlerVars, reportVars>>

\* A line of output: AppendTreeProgress and AppendUsageEvent append to files
\* without asking whether the task still exists.
CliOutput(i) ==
  /\ gor[i] = "cli"
  /\ WriteFile
  /\ UNCHANGED <<taskVars, ctxDone, runVars, gor, slots, handlerVars, reportVars>>

CliReturns(i) ==
  /\ gor[i] = "cli"
  /\ Goto(i, "fruit")
  /\ UNCHANGED <<taskVars, ctxDone, runVars, slots, dir, handlerVars, reportVars>>

\* Mutant: only a stop kills the CLI, not the cancelled context.
CliKilledOnStop(i) ==
  /\ gor[i] = "cli" /\ stopRequested
  /\ Goto(i, "fruit")
  /\ UNCHANGED <<taskVars, ctxDone, runVars, slots, dir, handlerVars, reportVars>>

CliKilled(i) ==
  /\ gor[i] = "cli" /\ ctxDone
  /\ Goto(i, "fruit")
  /\ UNCHANGED <<taskVars, ctxDone, runVars, slots, dir, handlerVars, reportVars>>

\* writeFruit: a path and the file; a path and an error of the write; or only an
\* error, when its directory cannot be made.
FruitWritten(i) ==
  /\ Write({i}, {})
  /\ fruitPath' = fruitPath \cup {i}
  /\ WriteFile

FruitFails(i) ==
  /\ Write({i}, {i})
  /\ \/ fruitPath' = fruitPath \cup {i} /\ WriteFile
     \/ UNCHANGED <<fruitPath, dir>>

\* runTree notes an error in the progress of the Tree, finishTreeBeforeRun drops
\* it; both go on.
WriteFruit(i) ==
  /\ gor[i] \in {"fruit", "earlyFruit"}
  /\ FruitWritten(i) \/ FruitFails(i)
  /\ Goto(i, IF gor[i] = "fruit" THEN "update" ELSE "earlyUpdate")
  /\ UNCHANGED <<taskVars, ctxDone, runVars, slots, handlerVars>>

\* Mutant: the Tree stays as it is when its report could not be written.
FinishWritten(i) ==
  /\ IF i \in fruitPath THEN UpdateTree(i, [status |-> "Finished", fruit |-> TRUE])
     ELSE UNCHANGED <<taskVars, dir>>
  /\ fruitPath' = fruitPath \ {i}
  /\ UNCHANGED report

\* The Tree is Finished with whatever path it got.
Finish(i) ==
  /\ UpdateTree(i, [status |-> "Finished", fruit |-> i \in fruitPath])
  /\ fruitPath' = fruitPath \ {i}
  /\ UNCHANGED report

Update(i) ==
  /\ gor[i] = "update"
  /\ Finish(i)
  /\ Goto(i, "progress")
  /\ UNCHANGED <<ctxDone, runVars, slots, handlerVars>>

\* The last line of progress.log; then the slot is given back.
Progress(i) ==
  /\ gor[i] = "progress"
  /\ WriteFile
  /\ Release(i)
  /\ UNCHANGED <<taskVars, ctxDone, runVars, handlerVars, reportVars>>

\* finishTreeBeforeRun: a Tree that never got a slot.
FindEarly(i) ==
  /\ gor[i] = "early"
  /\ Goto(i, IF present /\ tree[i].status # "none" THEN "earlyFruit" ELSE "done")
  /\ UNCHANGED <<taskVars, ctxDone, runVars, slots, dir, handlerVars, reportVars>>

UpdateEarly(i) ==
  /\ gor[i] = "earlyUpdate"
  /\ Finish(i)
  /\ Goto(i, "done")
  /\ UNCHANGED <<ctxDone, runVars, slots, handlerVars>>

-----------------------------------------------------------------------------
(* The HTTP handler.                                                        *)

\* cancelTaskProcesses at the start of StopTask or DeleteTask.
Cancel ==
  /\ handler = "idle" /\ present
  /\ ctxDone' = TRUE
  /\ handler' \in {"stopSnapshot", "delete"}
  /\ UNCHANGED <<taskVars, runVars, gor, slots, dir, paths, reportVars>>

\* StopTask writes a fruit.md for every Tree its snapshot shows at work, and keeps
\* the paths of those it could write ...
StopSnapshot ==
  /\ handler = "stopSnapshot"
  /\ LET atWork == {i \in Tree : tree[i].status = "Running" /\ ~tree[i].fruit}
     IN  \E refused \in SUBSET atWork :
           /\ Write(atWork, refused)
           /\ paths' = atWork \ refused
           /\ dir' = (dir \/ paths' # {})
  /\ handler' = "stopUpdate"
  /\ UNCHANGED <<taskVars, ctxDone, runVars, gor, slots, fruitPath>>

\* ... and then finishes every Tree that is Running by now.
StopUpdate ==
  /\ handler = "stopUpdate"
  /\ stopRequested' = TRUE
  /\ tree' = [i \in Tree |->
                IF tree[i].status = "Running"
                THEN [status |-> "Finished", fruit |-> tree[i].fruit \/ i \in paths]
                ELSE tree[i]]
  /\ handler' = "idle" /\ paths' = {}
  /\ UNCHANGED <<present, ctxDone, runVars, gor, slots, dir, reportVars>>

\* A new message clears the stop request, then cancels the run.
Supersede ==
  /\ handler = "idle" /\ present
  /\ stopRequested' = FALSE
  /\ handler' = "supersede"
  /\ UNCHANGED <<present, tree, ctxDone, runVars, gor, slots, dir, paths, reportVars>>

SupersedeCancel ==
  /\ handler = "supersede"
  /\ ctxDone' = TRUE
  /\ handler' = "idle"
  /\ UNCHANGED <<taskVars, runVars, gor, slots, dir, paths, reportVars>>

\* Store.DeleteTask: out of the map with all its Trees, then RemoveAll outside
\* the lock.
DeleteStore ==
  /\ handler = "delete"
  /\ present' = FALSE
  /\ stopRequested' = FALSE
  /\ tree' = [i \in Tree |-> NoTree] /\ report' = [i \in Tree |-> "none"]
  /\ handler' = "remove"
  /\ UNCHANGED <<ctxDone, runVars, gor, slots, dir, paths, fruitPath>>

DeleteFiles ==
  /\ handler = "remove"
  /\ dir' = FALSE
  /\ handler' = "idle"
  /\ UNCHANGED <<taskVars, ctxDone, runVars, gor, slots, paths, reportVars>>

-----------------------------------------------------------------------------
StageStep == Loop \/ Spawn \/ Wait \/ Validate \/ EndStage

TreeStep(i) ==
  \/ Acquire(i) \/ Find(i) \/ Mark(i) \/ Launch(i) \/ CliKilled(i)
  \/ WriteFruit(i) \/ Update(i) \/ Progress(i) \/ FindEarly(i) \/ UpdateEarly(i)

HandlerStep == StopSnapshot \/ StopUpdate \/ SupersedeCancel \/ DeleteStore \/ DeleteFiles

Next ==
  \/ StageStep
  \/ \E i \in Tree : TreeStep(i) \/ CliOutput(i) \/ CliReturns(i)
  \/ Cancel \/ Supersede
  \/ HandlerStep

Spec == Init /\ [][Next]_vars

\* Goroutines and handlers run, a cancelled CLI is killed; a CLI that is left
\* alone need not end.
FairSpec ==
  /\ Spec
  /\ WF_vars(StageStep) /\ WF_vars(HandlerStep)
  /\ \A i \in Tree : WF_vars(TreeStep(i))

-----------------------------------------------------------------------------
(* Properties.                                                              *)

\* The type of every variable.
TypeOK ==
  /\ {present, stopRequested, ctxDone, dir} \subseteq BOOLEAN
  /\ stage \in StagePC
  /\ next \in 1 .. Validation
  /\ tree \in [Tree -> TreeRecord]
  /\ gor \in [Tree -> TreePC]
  /\ slots \subseteq Tree
  /\ handler \in HandlerPC
  /\ paths \subseteq Tree /\ fruitPath \subseteq Tree
  /\ report \in [Tree -> {"none", "whole", "failed"}]

\* At most MaxConcurrent Trees of the stage are at work at a time, the
\* validation Tree (which takes no slot) included.
ConcurrencyBounded == Cardinality({i \in Tree : gor[i] \in Working}) <= MaxConcurrent

\* A Tree that is Finished, with the path of its report in the record and the whole
\* report on disk, unless the disk refused a report of it: then only the first.
Settled(i) ==
  /\ tree[i].status = "Finished"
  /\ report[i] = "failed" \/ (tree[i].fruit /\ report[i] = "whole")

\* Validation judges a settled stage: when its Tree exists, every planned Tree was
\* run, none is at work, and what is to be judged is recorded and on disk.
ValidationIsLast ==
  gor[Validation] # "none" =>
    \A i \in Planned : gor[i] \in {"none", "done"} /\ (present => Settled(i))

\* However the stage ends (done, stopped, superseded, with reports that could not be
\* written), no slot is lost and every Tree it added is Finished; also when StopTask
\* finished a Tree that its own snapshot had missed, or wrote over its report.
StageLeavesReports ==
  stage = "done" /\ present =>
    slots = {} /\ \A i \in Tree : tree[i].status # "none" => Settled(i)

\* A cancelled stage unwinds without waiting for any CLI to end by itself,
\* also the Trees that still wait for a slot.
CancelledStageEnds == ctxDone ~> (stage = "done")

\* A stop settles: runTree may still set a Tree to Running after StopTask has
\* finished it, but in the end no Tree of a stopped task is, or becomes, Running.
StoppedTreesSettle ==
  (stopRequested /\ handler = "idle")
    ~> (~present \/ ~stopRequested
        \/ [](present => \A i \in Tree : tree[i].status # "Running"))

\* Deleting a task removes everything under forests/{taskID}.
DeletedDataIsGone == ~present ~> []~dir
=============================================================================
