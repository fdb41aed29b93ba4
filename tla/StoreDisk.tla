------------------------------ MODULE StoreDisk ------------------------------
(***************************************************************************)
(* The store across crashes of the server: the tasks and the settings in    *)
(* memory, the files they are written to, the reload at the next start and  *)
(* the tasks the orchestrator then resumes.                                 *)
(*                                                                          *)
(* Store.mu is held from the change in memory to the last file written, so  *)
(* one job at a time works on the files.  os.WriteFile truncates a file and *)
(* writes it again; the process may die, and the disk may refuse, after any *)
(* number of files and in the middle of one.  To Load a torn file of a task *)
(* is the same as a missing one: readJSON fails.                            *)
(*                                                                          *)
(* The races of runs and handlers are the subject of ForestRun and          *)
(* TreeStage; here a handler cancels and updates in one step, and of a      *)
(* cancelled run only its Trees are left.                                   *)
(***************************************************************************)
EXTENDS Integers, FiniteSets

CONSTANTS
  Task,        \* ids of tasks
  NoTask,
  NTrees,      \* bound: Trees of a task
  MaxMessages, \* bound: messages of a task
  MaxEvents,   \* bound: crashes, disk errors and changes of the settings, together
  LegacyLog    \* tasks an old version left, whose log holds its line of recovery

ASSUME TaskAssumption == NoTask \notin Task /\ LegacyLog \subseteq Task
ASSUME BoundAssumption == {NTrees, MaxMessages, MaxEvents} \subseteq Nat

VARIABLES
  phase,     \* of the process: "down", or how far main has come
  used,      \* ids in use or ever used: newID returns another
  known,     \* the tasks of Store.tasks
  rec,       \* their records
  settings,  \* Store.settings (the engine of its CLI)
  running,   \* tasks with a Gardener run in this process
  ending,    \* Trees of a cancelled run that are still at work
  drafts,    \* tasks CreateTask is building, with the engine it read
  removing,  \* tasks DeleteTask took out of the map, their files not removed
  resuming,  \* tasks of ResumeUnfinished's list it has not come to
  job,       \* what the holder of Store.mu does
  disk,      \* the files of each task
  disk0,     \* settings.json
  events,    \* crashes, disk errors and changes of the settings so far
  clean,     \* history: the last persist of the task succeeded
  owed,      \* history: what a reload has to restore of the task
  deleted,   \* history: tasks whose deletion was reported done
  stopped,   \* history: tasks whose stop was reported done, and not withdrawn
  pending,   \* history: tasks that had a run when the server crashed
  drifted    \* history: tasks whose engine may differ from the settings'

serverVars == <<phase, settings>>
taskVars == <<used, known, rec>>
runVars == <<running, ending, resuming>>
handlerVars == <<drafts, removing>>
diskVars == <<disk, disk0>>
reported == <<deleted, stopped>>
reload == <<owed, pending, drifted>>
vars == <<serverVars, taskVars, runVars, handlerVars, job, diskVars, events, clean,
          reported, reload>>

Engines == {"codex", "claude"}
Tree == 1..NTrees
TreeStatus == {"none", "Running", "Finished"}

\* Files are numbered in the order they are written: forest.json, messages.json,
\* every tree.json; settings.json is written alone.
ForestFile == 1
MessageFile == 2
TreeFile(i) == i + 2
TaskFiles == 1..(NTrees + 2)
SettingsFile == NTrees + 3

Meta == [status : {"Running", "Finished"}, stop : BOOLEAN, engine : Engines]
Record == [meta : Meta, messages : Nat, trees : [Tree -> TreeStatus]]

\* A file that cannot be read: no forest.json, no messages, no Tree.
Files == [meta : {<<>>} \cup {<<m>> : m \in Meta}, messages : Nat,
          trees : [Tree -> TreeStatus]]

Jobs == [kind : {"none", "create", "continue", "stop", "update", "load", "resume",
                 "settings", "first"},
         task : Task \cup {NoTask}, todo : SUBSET (1..SettingsFile),
         ok : BOOLEAN]

NoJob == [kind |-> "none", task |-> NoTask, todo |-> {}, ok |-> TRUE]

Blank == [meta |-> [status |-> "Finished", stop |-> FALSE, engine |-> "codex"],
          messages |-> 0, trees |-> [i \in Tree |-> "none"]]

NoFiles == [meta |-> <<>>, messages |-> 0, trees |-> [i \in Tree |-> "none"]]

Event == events < MaxEvents /\ events' = events + 1

Idle == job = NoJob
Up == phase \in {"resume", "serve"}

\* What the files of a task say when they have all been written.
Image(r) == [meta |-> <<r.meta>>, messages |-> r.messages, trees |-> r.trees]

Init ==
  /\ phase = "down" /\ settings = "codex"
  /\ used = LegacyLog /\ known = {} /\ rec = [t \in Task |-> Blank]
  /\ running = {} /\ ending = {} /\ resuming = {}
  /\ drafts = {} /\ removing = {}
  /\ job = NoJob
  /\ disk = [t \in Task |-> IF t \in LegacyLog THEN Image(Blank) ELSE NoFiles]
  /\ disk0 = "absent"
  /\ events = 0
  /\ clean = {} /\ deleted = {} /\ stopped = {}
  /\ owed = [t \in Task |-> <<>>] /\ pending = {} /\ drifted = {}

-----------------------------------------------------------------------------
(* Writing the files.                                                       *)

\* Mutant: a Tree that has ended is taken to be on disk already.
ActiveTrees(r) == {TreeFile(i) : i \in {j \in Tree : r.trees[j] = "Running"}}

\* The files of t.Trees.
TreeFiles(r) == {TreeFile(i) : i \in {j \in Tree : r.trees[j] # "none"}}

\* persistTaskLocked.
FilesOf(r) == {ForestFile, MessageFile} \cup TreeFiles(r)

NewJob(kind, t, files) == [kind |-> kind, task |-> t, todo |-> files, ok |-> TRUE]

\* The record of t becomes r in memory; then it is persisted.
Persist(kind, t, r) ==
  /\ rec' = [rec EXCEPT ![t] = r]
  /\ job' = NewJob(kind, t, FilesOf(r))
  /\ clean' = clean \ {t}

\* The files of a task after those in F are written from the record r ...
With(files, F, r) ==
  [meta |-> IF ForestFile \in F THEN <<r.meta>> ELSE files.meta,
   messages |-> IF MessageFile \in F THEN r.messages ELSE files.messages,
   trees |-> [i \in Tree |-> IF TreeFile(i) \in F THEN r.trees[i] ELSE files.trees[i]]]

\* ... and after those in F are gone, or torn.
Without(files, F) ==
  [meta |-> IF ForestFile \in F THEN <<>> ELSE files.meta,
   messages |-> IF MessageFile \in F THEN 0 ELSE files.messages,
   trees |-> [i \in Tree |-> IF TreeFile(i) \in F THEN "none" ELSE files.trees[i]]]

\* What stops the job before: some files are written, the first of the others is
\* torn (os.WriteFile opens with O_TRUNC) or as it was.
Before(P) == \A f \in P, g \in job.todo \ P : f < g

Torn(P) == {f \in job.todo \ P : \A g \in job.todo \ P : f <= g}

CutFiles(files, r) ==
  UNION {{With(files, P, r)} \cup {Without(With(files, P, r), {f}) : f \in Torn(P)} :
         P \in {Q \in SUBSET job.todo : Before(Q)}}

Cut ==
  IF job.task = NoTask THEN {disk}
  ELSE {[disk EXCEPT ![job.task] = files] : files \in CutFiles(disk[job.task], rec[job.task])}

Cut0 == IF job.todo = {SettingsFile} THEN {disk0, "torn", settings} ELSE {disk0}

\* An error: the rest of the files is not written.
WriteFails ==
  /\ job.todo # {}
  /\ Event
  /\ disk' \in Cut /\ disk0' \in Cut0
  /\ job' = [job EXCEPT !.todo = {}, !.ok = FALSE]
  /\ UNCHANGED <<serverVars, taskVars, runVars, handlerVars, clean, reported,
                 reload>>

\* A job of one of these kinds ends: what is left of its files is written.
Written(kinds) ==
  /\ job.kind \in kinds
  /\ IF job.task = NoTask
     THEN disk0' = (IF job.todo = {} THEN disk0 ELSE settings) /\ UNCHANGED disk
     ELSE /\ disk' = [disk EXCEPT ![job.task] = With(@, job.todo, rec[job.task])]
          /\ UNCHANGED disk0

\* The lock is released; a persist without error leaves its task clean.
Unlock ==
  /\ job' = NoJob
  /\ clean' = IF job.ok THEN clean \cup ({job.task} \cap Task) ELSE clean

\* UpdateTask returns, as does the persist at the end of Load, whose error is
\* ignored.
UpdateReturns ==
  /\ Written({"update", "load"})
  /\ Unlock
  /\ UNCHANGED <<serverVars, taskVars, runVars, handlerVars, events, reported, reload>>

\* The Trees of t that are at work.
AtWork(t) == {t} \X {i \in Tree : rec[t].trees[i] = "Running"}

\* startForestRun: the run before is cancelled, its Trees are not gone at once.
StartRun(t) ==
  /\ running' = running \cup {t}
  /\ ending' = ending \cup AtWork(t)

NoRun == UNCHANGED <<running, ending>>

\* Mutant: ResumeUnfinished gives up a task it cannot persist.
StartWhenPersisted ==
  /\ Written({"create", "continue", "resume"})
  /\ IF job.ok THEN StartRun(job.task) ELSE NoRun
  /\ Unlock
  /\ UNCHANGED <<serverVars, taskVars, resuming, handlerVars, events, reported, reload>>

\* A handler starts a run only when AddTask or UpdateTask succeeded,
\* ResumeUnfinished in any case.
StartReturns ==
  /\ Written({"create", "continue", "resume"})
  /\ IF job.ok \/ job.kind = "resume" THEN StartRun(job.task) ELSE NoRun
  /\ Unlock
  /\ UNCHANGED <<serverVars, taskVars, resuming, handlerVars, events, reported, reload>>

\* Mutant: StopTask hides the disk error.
StopReportedAnyway ==
  /\ Written({"stop"})
  /\ stopped' = stopped \cup {job.task}
  /\ Unlock
  /\ UNCHANGED <<serverVars, taskVars, runVars, handlerVars, events, deleted, reload>>

StopReturns ==
  /\ Written({"stop"})
  /\ stopped' = IF job.ok THEN stopped \cup {job.task} ELSE stopped
  /\ Unlock
  /\ UNCHANGED <<serverVars, taskVars, runVars, handlerVars, events, deleted, reload>>

-----------------------------------------------------------------------------
(* The server at work.                                                      *)

Free == Up /\ Idle

\* CreateTask reads the settings ...
ReadSettings(t) ==
  /\ Free /\ phase = "serve"
  /\ t \notin used
  /\ used' = used \cup {t}
  /\ drafts' = drafts \cup {[task |-> t, engine |-> settings]}
  /\ UNCHANGED <<serverVars, known, rec, runVars, removing, job, diskVars, events, clean,
                 reported, reload>>

\* ... and adds the task under Store.mu later: in the map before it is on disk.
AddTask(d) ==
  /\ Free
  /\ drafts' = drafts \ {d}
  /\ known' = known \cup {d.task}
  /\ Persist("create", d.task,
             [Blank EXCEPT !.meta.status = "Running", !.meta.engine = d.engine, !.messages = 1])
  /\ drifted' = IF d.engine = settings THEN drifted ELSE drifted \cup {d.task}
  /\ UNCHANGED <<serverVars, used, runVars, removing, diskVars, events, reported, owed, pending>>

\* sendMessageWithInstruction: a message, and Running again.
Continue(t) ==
  /\ Free /\ phase = "serve"
  /\ t \in known /\ rec[t].messages < MaxMessages
  /\ Persist("continue", t, [rec[t] EXCEPT !.meta.status = "Running", !.meta.stop = FALSE,
                                           !.messages = @ + 1])
  /\ stopped' = stopped \ {t}
  /\ UNCHANGED <<serverVars, used, known, runVars, handlerVars, diskVars, events, deleted, reload>>

\* Mutant: the Trees stay as they were.
RecoverTrees(trees) == trees

EndTrees(trees) == [i \in Tree |-> IF trees[i] = "Running" THEN "Finished" ELSE trees[i]]

\* Mutant: the run goes on.
KeepRun(t) == running

\* cancelTaskProcesses.
CancelRun(t) == running \ {t}

\* StopTask: the run is cancelled, its Trees are said to be over.
StopTask(t) ==
  /\ Free /\ phase = "serve"
  /\ t \in known
  /\ running' = CancelRun(t)
  /\ ending' = ending \cup AtWork(t)
  /\ Persist("stop", t, [rec[t] EXCEPT !.meta.status = "Finished", !.meta.stop = TRUE,
                                       !.trees = EndTrees(@)])
  /\ UNCHANGED <<serverVars, used, known, resuming, handlerVars, diskVars, events, reported, reload>>

\* A run adds its next Tree, or one of its Trees ends.
TreeSteps(t) ==
  LET trees == rec[t].trees
  IN {[trees EXCEPT ![i] = "Running"] :
        i \in {j \in Tree : trees[j] = "none" /\ \A k \in 1..(j - 1) : trees[k] # "none"}}
     \cup {[trees EXCEPT ![i] = "Finished"] :
             i \in {j \in Tree : trees[j] = "Running" /\ <<t, j>> \notin ending}}

\* AddTree, UpdateTree, or AppendTreeProgress: every line of progress writes
\* every file of the task again.
RunUpdate(t) ==
  /\ Free
  /\ t \in running
  /\ \E trees \in {rec[t].trees} \cup TreeSteps(t) :
       Persist("update", t, [rec[t] EXCEPT !.trees = trees])
  /\ UNCHANGED <<serverVars, used, known, runVars, handlerVars, diskVars, events, reported, reload>>

\* A Tree of a cancelled run that had its slot is marked Running late; in the end
\* it is Finished.
TreeEnds(t) ==
  /\ Free
  /\ \E i \in Tree, status \in {"Running", "Finished"} :
       /\ <<t, i>> \in ending
       /\ ending' = IF status = "Finished" THEN ending \ {<<t, i>>} ELSE ending
       /\ Persist("update", t, [rec[t] EXCEPT !.trees[i] = status])
  /\ UNCHANGED <<serverVars, used, known, running, resuming, handlerVars, diskVars, events,
                 reported, reload>>

\* finishTask, after which the run is over.
FinishTask(t) ==
  /\ Free
  /\ t \in running
  /\ AtWork(t) \subseteq ending
  /\ running' = running \ {t}
  /\ Persist("update", t, [rec[t] EXCEPT !.meta.status = "Finished"])
  /\ UNCHANGED <<serverVars, used, known, ending, resuming, handlerVars, diskVars, events, reported, reload>>

\* DeleteTask cancels the run and takes the task out of the map ...
DeleteTask(t) ==
  /\ Free /\ phase = "serve"
  /\ t \in known
  /\ known' = known \ {t}
  /\ rec' = [rec EXCEPT ![t] = Blank]
  /\ running' = CancelRun(t)
  /\ ending' = ending \ ({t} \X Tree)
  /\ removing' = removing \cup {t}
  /\ clean' = clean \ {t}
  /\ UNCHANGED <<serverVars, used, resuming, drafts, job, diskVars, events, reported, reload>>

\* Mutant: one file is forgotten.
DeleteMessagesOnly(t) ==
  /\ Up /\ t \in removing
  /\ disk' = [disk EXCEPT ![t] = Without(@, {MessageFile})]
  /\ removing' = removing \ {t}
  /\ deleted' = deleted \cup {t}
  /\ UNCHANGED <<serverVars, taskVars, runVars, drafts, job, disk0, events, clean, stopped,
                 reload>>

\* ... and removes its directory without the lock: all of it,
DeleteReturns(t) ==
  /\ Up /\ t \in removing
  /\ disk' = [disk EXCEPT ![t] = NoFiles]
  /\ removing' = removing \ {t}
  /\ deleted' = deleted \cup {t}
  /\ UNCHANGED <<serverVars, taskVars, runVars, drafts, job, disk0, events, clean, stopped,
                 reload>>

\* or some files, until one cannot be removed.
DeleteFails(t) ==
  /\ Up /\ t \in removing
  /\ Event
  /\ \E F \in SUBSET TaskFiles : disk' = [disk EXCEPT ![t] = Without(@, F)]
  /\ removing' = removing \ {t}
  /\ UNCHANGED <<serverVars, taskVars, runVars, drafts, job, disk0, clean,
                 reported, reload>>

-----------------------------------------------------------------------------
(* Settings.                                                                *)

\* UpdateSettings: first in memory, then settings.json ...
UpdateSettings(e) ==
  /\ Free /\ phase = "serve"
  /\ Event
  /\ settings' = e
  /\ job' = NewJob("settings", NoTask, {SettingsFile})
  /\ UNCHANGED <<phase, taskVars, runVars, handlerVars, diskVars, clean,
                 reported, reload>>

\* The tasks of the map that have another engine than the settings.
Behind == {t \in known : rec[t].meta.engine # settings}

\* ... then applySettingsRuntimeToTasksLocked: one task after the other, in the
\* order of the map, until one cannot be persisted.
ApplyNext ==
  /\ Written({"settings"}) /\ job.ok
  /\ \E t \in Behind :
       /\ rec' = [rec EXCEPT ![t].meta.engine = settings]
       /\ job' = NewJob("settings", t, FilesOf(rec[t]))
       /\ clean' = (clean \cup ({job.task} \cap Task)) \ {t}
  /\ UNCHANGED <<serverVars, used, known, runVars, handlerVars, events, reported, reload>>

\* Mutant: the loop over the tasks may end before the last.
SettingsReturnEarly ==
  /\ Written({"settings"})
  /\ drifted' = IF job.ok THEN {} ELSE drifted \cup Behind
  /\ Unlock
  /\ UNCHANGED <<serverVars, taskVars, runVars, handlerVars, events, reported, owed,
                 pending>>

SettingsReturn ==
  /\ Written({"settings"})
  /\ job.ok => Behind = {}
  /\ drifted' = IF job.ok THEN {} ELSE drifted \cup Behind
  /\ Unlock
  /\ UNCHANGED <<serverVars, taskVars, runVars, handlerVars, events, reported, owed,
                 pending>>

-----------------------------------------------------------------------------
(* Crash and restart.                                                       *)

LegacyStatus(t, m) ==
  IF m.status = "Finished" /\ ~m.stop /\ t \in LegacyLog THEN "Running" ELSE m.status

\* Mutant: Load takes no task to have been working.
RecoveredIdle(t, files) ==
  [meta |-> [files.meta[1] EXCEPT !.status = "Finished"],
   messages |-> files.messages,
   trees |-> EndTrees(files.trees)]

\* What Load makes of the files of a task.
Recovered(t, files) ==
  [meta |-> [files.meta[1] EXCEPT !.status = LegacyStatus(t, files.meta[1])],
   messages |-> files.messages,
   trees |-> EndTrees(files.trees)]

\* What a reload has to restore: the record as it is, its Trees over.  The log
\* line of an old version takes a task to Running on purpose.
Restored(t, r) ==
  [meta |-> [r.meta EXCEPT !.status = LegacyStatus(t, r.meta)],
   messages |-> r.messages,
   trees |-> EndTrees(r.trees)]

\* The process dies: memory is lost, a write or a removal is cut short.
Crash ==
  /\ phase # "down"
  /\ Event
  /\ \E d \in Cut, gone \in [removing -> SUBSET TaskFiles] :
       disk' = [t \in Task |-> IF t \in removing THEN Without(d[t], gone[t]) ELSE d[t]]
  /\ disk0' \in Cut0
  /\ phase' = "down" /\ settings' = "codex"
  /\ known' = {} /\ rec' = [t \in Task |-> Blank]
  /\ running' = {} /\ ending' = {} /\ resuming' = {} /\ drafts' = {} /\ removing' = {}
  /\ job' = NoJob
  /\ owed' = [t \in Task |-> IF t \in clean THEN <<Restored(t, rec[t])>>
                             ELSE IF t \in known \cup removing THEN <<>> ELSE owed[t]]
  /\ pending' = pending \cup {t \in running : rec[t].meta.status = "Running"}
  /\ drifted' = IF disk0' # settings THEN Task ELSE drifted \cup Behind \cup (Task \ clean)
  /\ clean' = {}
  /\ UNCHANGED <<used, reported>>

\* NewStore, loadSettings: a torn settings.json is an error, which ends main
\* (the process stays down); a missing one is written.
Start ==
  /\ phase = "down" /\ disk0 # "torn"
  /\ IF disk0 = "absent"
     THEN /\ phase' = "settings" /\ job' = NewJob("first", NoTask, {SettingsFile})
          /\ UNCHANGED settings
     ELSE phase' = "load" /\ settings' = disk0 /\ UNCHANGED job
  /\ UNCHANGED <<taskVars, runVars, handlerVars, diskVars, events, clean, reported, reload>>

FirstReturns ==
  /\ Written({"first"})
  /\ phase' = IF job.ok THEN "load" ELSE "down"
  /\ Unlock
  /\ UNCHANGED <<settings, taskVars, runVars, handlerVars, events, reported, reload>>

Readable == {t \in Task : disk[t].meta # <<>>}

\* Load, one directory: forest.json must be readable, the rest may be missing.
\* The task is persisted again.
LoadTask(t) ==
  /\ phase = "load" /\ Idle
  /\ t \in Readable \ known
  /\ known' = known \cup {t}
  /\ Persist("load", t, Recovered(t, disk[t]))
  /\ UNCHANGED <<serverVars, used, runVars, handlerVars, diskVars, events, reported, reload>>

Unfinished == {t \in known : rec[t].meta.status = "Running" /\ ~rec[t].meta.stop}

\* Mutant: a directory Load cannot read stops it.
LoadedWhole ==
  /\ phase = "load" /\ Idle /\ \A t \in Task : t \in known \/ disk[t] = NoFiles
  /\ phase' = "resume"
  /\ resuming' = Unfinished
  /\ owed' = [t \in Task |-> <<>>]
  /\ UNCHANGED <<settings, taskVars, running, ending, handlerVars, job, diskVars, events, clean,
                 reported, pending, drifted>>

\* Load is through; ResumeUnfinished takes its list.
Loaded ==
  /\ phase = "load" /\ Idle /\ Readable \subseteq known
  /\ phase' = "resume"
  /\ resuming' = Unfinished
  /\ owed' = [t \in Task |-> <<>>]
  /\ UNCHANGED <<settings, taskVars, running, ending, handlerVars, job, diskVars, events, clean,
                 reported, pending, drifted>>

\* ResumeUnfinished sets the task Running and starts a run.
Resume(t) ==
  /\ phase = "resume" /\ Idle
  /\ t \in resuming
  /\ resuming' = resuming \ {t}
  /\ Persist("resume", t, [rec[t] EXCEPT !.meta.status = "Running"])
  /\ UNCHANGED <<serverVars, used, known, running, ending, handlerVars, diskVars, events, reported, reload>>

\* ListenAndServe.
Serve ==
  /\ phase = "resume" /\ Idle /\ resuming = {}
  /\ phase' = "serve"
  /\ pending' = {}
  /\ UNCHANGED <<settings, taskVars, runVars, handlerVars, job, diskVars, events, clean,
                 reported, owed, drifted>>

-----------------------------------------------------------------------------
Return == UpdateReturns \/ StartReturns \/ StopReturns \/ ApplyNext \/ SettingsReturn \/ FirstReturns
BootStep == Loaded \/ Serve \/ \E t \in Task : LoadTask(t) \/ Resume(t)

User(t) == ReadSettings(t) \/ Continue(t) \/ StopTask(t) \/ DeleteTask(t)
RunStep(t) == RunUpdate(t) \/ TreeEnds(t) \/ FinishTask(t)
Removal(t) == DeleteReturns(t) \/ DeleteFails(t)

Next ==
  \/ Return \/ WriteFails
  \/ \E t \in Task : User(t) \/ RunStep(t) \/ Removal(t)
  \/ \E d \in drafts : AddTask(d)
  \/ \E e \in Engines : UpdateSettings(e)
  \/ Crash \/ Start \/ BootStep

Spec == Init /\ [][Next]_vars

\* A start is tried again after a crash, the goroutines run, and Store.mu does
\* not keep main from its turn for ever.
FairSpec == Spec /\ WF_vars(Return \/ Start) /\ SF_vars(BootStep)

-----------------------------------------------------------------------------
(* Properties.                                                              *)

\* The type of every variable.
TypeOK ==
  /\ phase \in {"down", "settings", "load", "resume", "serve"}
  /\ settings \in Engines /\ disk0 \in Engines \cup {"absent", "torn"}
  /\ used \subseteq Task /\ known \subseteq used /\ rec \in [Task -> Record]
  /\ running \subseteq known /\ resuming \subseteq known /\ ending \subseteq known \X Tree
  /\ drafts \subseteq [task : Task, engine : Engines] /\ removing \subseteq Task \ known
  /\ job \in Jobs
  /\ disk \in [Task -> Files]
  /\ events \in 0..MaxEvents
  /\ clean \subseteq known
  /\ deleted \subseteq Task /\ stopped \subseteq Task /\ pending \subseteq Task
  /\ drifted \subseteq Task
  /\ \A t \in Task : owed[t] = <<>> \/ owed[t][1] \in Record

\* The files of a task whose last persist succeeded say what memory says, also
\* after an earlier persist was cut short by the disk.
CleanOnDisk == \A t \in clean : disk[t] = Image(rec[t])

\* A restart gives back every task that was not being written at the crash, or
\* refused by the disk before: status, messages, engine, Trees.
ReloadRestores ==
  [][Loaded => \A t \in Task : owed[t] # <<>> => t \in known /\ <<rec[t]>> = owed[t]]_vars

\* A Tree is Running only in a process where the run of its task, or a cancelled
\* one, will end it: after a restart none waits for a CLI that is gone.
NoGhostTrees == \A t \in known : t \in running \/ AtWork(t) \subseteq ending

\* A stop the user saw done holds across crashes and disk faults until the user
\* withdraws it: no restart brings the task back to work.
StopOutlivesCrash == stopped \cap running = {}

\* A task the user saw deleted never comes back.
DeletedStaysGone == \A t \in deleted : t \notin known /\ t \notin Readable

\* Tasks leave the engine of the settings only through a creation that read the
\* settings too early, a disk fault or a crash; a change of the settings that
\* succeeds repairs them all.
EnginesFollowSettings == Free => Behind \subseteq drifted

\* Whatever is torn among the files of the tasks, a start comes to serve, with a
\* run for every unfinished task it could read.
StartsServing ==
  (phase = "down" /\ disk0 # "torn") ~> (phase = "serve" \/ disk0 = "torn")

ResumesUnfinished == [][Serve => Unfinished \subseteq running]_vars

\* A task that had a run when the server crashed has one after the restart.
RunningForestsResume == [][Serve => pending \subseteq running \cup {t \in known : rec[t].meta.status = "Finished"}]_vars
=============================================================================
