--------------------------- MODULE StoreDisk_proofs ---------------------------
(***************************************************************************)
(* Theorems about StoreDisk for any number of tasks, Trees, messages,       *)
(* crashes and disk errors.                                                 *)
(***************************************************************************)
EXTENDS StoreDisk, TLAPS

-----------------------------------------------------------------------------
(* The book-keeping every theorem rests on.                                 *)

\* Jobs on the record of a task.
TaskJobs == {"create", "continue", "stop", "update", "load", "resume"}

\* Who may hold the lock is determined by how far main has come.
Phases ==
  /\ phase = "down" => job = NoJob
  /\ phase = "settings" => job.kind \in {"none", "first"}
  /\ phase = "load" => job.kind \in {"none", "load"}
  /\ phase = "resume" => job.kind \in {"none", "load", "update", "resume"}
  /\ phase = "serve" => job.kind # "first" /\ resuming = {}
  /\ phase # "serve" => drafts = {} /\ removing = {}
  /\ ~Up => running = {} /\ ending = {} /\ resuming = {}
  /\ phase \in {"down", "settings"} => known = {}

\* A job works on a task of the map, or on the settings.
JobTask ==
  /\ job.kind = "none" => job = NoJob
  /\ job.kind \in TaskJobs => job.task \in Task
  /\ job.task \in Task => job.task \in known /\ job.kind # "first"
  /\ job.task = NoTask => job.todo \subseteq {SettingsFile}
  /\ job.task \in Task => job.todo \subseteq TaskFiles

\* An id is used for one task, and nothing is on disk before it is.
Ids ==
  /\ removing \cup deleted \cup stopped \subseteq used
  /\ \A d \in drafts : d.task \in used /\ d.task \notin known \cup removing \cup deleted \cup stopped
  /\ \A d, e \in drafts : d.task = e.task => d = e
  /\ \A t \in Task : t \notin used \/ (\E d \in drafts : d.task = t) => disk[t] = NoFiles

\* Type correctness and the book-keeping together are inductive.
Books == TypeOK /\ Phases /\ JobTask /\ Ids

\* While a task is written, its files to write are those of its record, and the
\* task is not clean.
JobFiles ==
  job.task \in Task =>
    /\ job.task \notin clean
    /\ job.ok => job.todo = FilesOf(rec[job.task])

\* No file of a Tree is on disk that the record does not have.
NoLeftover ==
  \A t \in known, i \in Tree : rec[t].trees[i] = "none" => disk[t].trees[i] = "none"

\* CleanOnDisk with what it needs of a job at work and of the other files.
Saved == JobFiles /\ NoLeftover /\ CleanOnDisk


-----------------------------------------------------------------------------
(* The data of the actions.                                                 *)

\* The files of a task are those of TaskFiles, settings.json is none of them.
LEMMA FileNumbers ==
  /\ NTrees \in Nat
  /\ SettingsFile \notin TaskFiles /\ TaskFiles \subseteq 1..SettingsFile
  /\ ForestFile \in TaskFiles /\ MessageFile \in TaskFiles
  /\ \A i \in Tree : TreeFile(i) \in TaskFiles /\ TreeFile(i) # ForestFile /\ TreeFile(i) # MessageFile
  /\ \A i, j \in Tree : TreeFile(i) = TreeFile(j) => i = j
  /\ \A r : FilesOf(r) \subseteq TaskFiles
<1>1. NTrees \in Nat
  BY BoundAssumption
<1> QED BY <1>1 DEF SettingsFile, TaskFiles, ForestFile, MessageFile, TreeFile, Tree, FilesOf, TreeFiles

\* What handlers, runs and Load make of a record is a record.
LEMMA RecordType ==
  /\ Blank \in Record
  /\ \A r \in Record :
       /\ \A s \in {"Running", "Finished"} : [r EXCEPT !.meta.status = s] \in Record
       /\ \A e \in Engines : [r EXCEPT !.meta.engine = e] \in Record
       /\ \A trees \in [Tree -> TreeStatus] : [r EXCEPT !.trees = trees] \in Record
       /\ \A i \in Tree, s \in TreeStatus : [r EXCEPT !.trees[i] = s] \in Record
       /\ [r EXCEPT !.meta.status = "Running", !.meta.stop = FALSE, !.messages = @ + 1] \in Record
       /\ [r EXCEPT !.meta.status = "Finished", !.meta.stop = TRUE, !.trees = EndTrees(@)] \in Record
  /\ \A e \in Engines :
       [Blank EXCEPT !.meta.status = "Running", !.meta.engine = e, !.messages = 1] \in Record
<1>1. \A r \in Record : EndTrees(r.trees) \in [Tree -> TreeStatus]
  BY DEF Record, EndTrees, TreeStatus
<1>2. Blank \in Record
  BY DEF Blank, Record, Meta, Engines, TreeStatus
<1>3. ASSUME NEW r \in Record
      PROVE  /\ \A s \in {"Running", "Finished"} : [r EXCEPT !.meta.status = s] \in Record
             /\ \A e \in Engines : [r EXCEPT !.meta.engine = e] \in Record
             /\ \A trees \in [Tree -> TreeStatus] : [r EXCEPT !.trees = trees] \in Record
             /\ \A i \in Tree, s \in TreeStatus : [r EXCEPT !.trees[i] = s] \in Record
             /\ [r EXCEPT !.meta.status = "Running", !.meta.stop = FALSE, !.messages = @ + 1] \in Record
             /\ [r EXCEPT !.meta.status = "Finished", !.meta.stop = TRUE, !.trees = EndTrees(@)] \in Record
  <2>1. \A s \in {"Running", "Finished"} : [r EXCEPT !.meta.status = s] \in Record
    BY DEF Record, Meta
  <2>2. \A e \in Engines : [r EXCEPT !.meta.engine = e] \in Record
    BY DEF Record, Meta
  <2>3. \A trees \in [Tree -> TreeStatus] : [r EXCEPT !.trees = trees] \in Record
    BY DEF Record
  <2>4. \A i \in Tree, s \in TreeStatus : [r EXCEPT !.trees[i] = s] \in Record
    BY DEF Record
  <2>5. [r EXCEPT !.meta.status = "Running", !.meta.stop = FALSE, !.messages = @ + 1] \in Record
    <3>1. r.messages \in Nat /\ r.meta \in Meta
      BY DEF Record
    <3>2. r.messages + 1 \in Nat
      BY <3>1
    <3>3. [r.meta EXCEPT !.status = "Running", !.stop = FALSE] \in Meta
      BY <3>1 DEF Meta
    <3> QED BY <3>2, <3>3 DEF Record
  <2>6. [r EXCEPT !.meta.status = "Finished", !.meta.stop = TRUE, !.trees = EndTrees(@)] \in Record
    BY <1>1 DEF Record, Meta
  <2> QED BY <2>1, <2>2, <2>3, <2>4, <2>5, <2>6
<1>4. \A e \in Engines :
        [Blank EXCEPT !.meta.status = "Running", !.meta.engine = e, !.messages = 1] \in Record
  BY DEF Blank, Record, Meta, Engines, TreeStatus
<1> QED BY <1>2, <1>3, <1>4

\* Writing, tearing and removing files leaves files.
LEMMA FilesType ==
  /\ NoFiles \in Files
  /\ \A files \in Files : \A F :
       Without(files, F) \in Files /\ \A r \in Record : With(files, F, r) \in Files
  /\ \A r \in Record : Image(r) \in Files
BY DEF Files, NoFiles, Without, With, Image, Record, TreeStatus

\* What Load makes of readable files, and what it has to make of them.
LEMMA RecoveredType ==
  /\ \A t \in Task, files \in Files : files.meta # <<>> => Recovered(t, files) \in Record
  /\ \A t \in Task, r \in Record : Restored(t, r) \in Record /\ Recovered(t, Image(r)) = Restored(t, r)
<1>1. ASSUME NEW trees \in [Tree -> TreeStatus]
      PROVE  EndTrees(trees) \in [Tree -> TreeStatus]
  BY DEF EndTrees, TreeStatus
<1>2. ASSUME NEW t \in Task, NEW m \in Meta
      PROVE  LegacyStatus(t, m) \in {"Running", "Finished"}
  BY DEF LegacyStatus, Meta
<1>3. ASSUME NEW t \in Task, NEW files \in Files, files.meta # <<>>
      PROVE  Recovered(t, files) \in Record
  <2>1. PICK m \in Meta : files.meta = <<m>>
    BY <1>3 DEF Files
  <2>2. files.meta[1] = m
    BY <2>1
  <2> QED BY <2>2, <1>1, <1>2 DEF Recovered, Record, Files, Meta
<1>4. ASSUME NEW t \in Task, NEW r \in Record
      PROVE  Restored(t, r) \in Record /\ Recovered(t, Image(r)) = Restored(t, r)
  <2>1. Image(r).meta[1] = r.meta /\ Image(r).messages = r.messages /\ Image(r).trees = r.trees
    BY DEF Image
  <2>2. r.meta \in Meta /\ EndTrees(r.trees) \in [Tree -> TreeStatus]
    BY <1>1 DEF Record
  <2> DEFINE m == [r.meta EXCEPT !.status = LegacyStatus(t, r.meta)]
  <2>3. m \in Meta
    BY <2>2, <1>2 DEF Meta
  <2>4. Restored(t, r) = [meta |-> m, messages |-> r.messages, trees |-> EndTrees(r.trees)]
    BY DEF Restored
  <2>5. Recovered(t, Image(r)) = [meta |-> m, messages |-> r.messages, trees |-> EndTrees(r.trees)]
    BY <2>1 DEF Recovered
  <2>6. r.messages \in Nat
    BY DEF Record
  <2> HIDE DEF m
  <2> QED BY <2>2, <2>3, <2>4, <2>5, <2>6 DEF Record
<1> QED BY <1>3, <1>4

\* A job that is cut short changes the files of its task only, and leaves files.
LEMMA CutType ==
  ASSUME Books, NEW d \in Cut
  PROVE  /\ d \in [Task -> Files]
         /\ \A t \in Task : t # job.task => d[t] = disk[t]
<1>1. CASE job.task = NoTask
  BY <1>1 DEF Cut, Books, TypeOK
<1>2. CASE job.task # NoTask
  <2>1. job.task \in Task
    BY <1>2 DEF Books, TypeOK, Jobs
  <2>2. PICK files \in CutFiles(disk[job.task], rec[job.task]) : d = [disk EXCEPT ![job.task] = files]
    BY <1>2 DEF Cut
  <2>3. disk[job.task] \in Files /\ rec[job.task] \in Record
    BY <2>1 DEF Books, TypeOK
  <2>4. files \in Files
    <3>1. PICK P \in SUBSET job.todo :
            files \in {With(disk[job.task], P, rec[job.task])}
                      \cup {Without(With(disk[job.task], P, rec[job.task]), {f}) : f \in Torn(P)}
      BY <2>2 DEF CutFiles
    <3>2. With(disk[job.task], P, rec[job.task]) \in Files
      BY <2>3, FilesType
    <3> QED BY <3>1, <3>2, FilesType
  <2> QED BY <2>1, <2>2, <2>4 DEF Books, TypeOK
<1> QED BY <1>1, <1>2

-----------------------------------------------------------------------------
(* Type correctness.                                                        *)

\* What a new job on a task is.
LEMMA PersistType ==
  ASSUME Books, NEW t \in Task, NEW r \in Record, NEW kind \in TaskJobs, Persist(kind, t, r)
  PROVE  /\ rec' \in [Task -> Record] /\ rec'[t] = r
         /\ \A u \in Task : u # t => rec'[u] = rec[u]
         /\ job' \in Jobs /\ job'.task = t /\ job'.kind = kind /\ job'.ok /\ job'.todo = FilesOf(r)
         /\ job' # NoJob
         /\ clean' = clean \ {t}
<1>1. rec' \in [Task -> Record] /\ rec'[t] = r /\ \A u \in Task : u # t => rec'[u] = rec[u]
  BY DEF Persist, Books, TypeOK
<1>2. job' = [kind |-> kind, task |-> t, todo |-> FilesOf(r), ok |-> TRUE]
  BY DEF Persist, NewJob
<1>3. FilesOf(r) \subseteq 1..SettingsFile
  BY FileNumbers
<1>4. job' \in Jobs
  BY <1>2, <1>3 DEF Jobs, TaskJobs
<1> QED BY <1>1, <1>2, <1>4 DEF Persist, NoJob, TaskJobs

\* The end of a job writes files of its task only.
LEMMA WrittenType ==
  ASSUME Books, NEW kinds, Written(kinds)
  PROVE  /\ disk' \in [Task -> Files]
         /\ \A t \in Task : t # job.task => disk'[t] = disk[t]
         /\ disk0' \in Engines \cup {"absent", "torn"}
         /\ job.task \in Task => disk'[job.task] = With(disk[job.task], job.todo, rec[job.task])
         /\ job.kind \in kinds
<1>1. CASE job.task = NoTask
  BY <1>1, TaskAssumption DEF Written, Books, TypeOK
<1>2. CASE job.task # NoTask
  <2>1. job.task \in Task
    BY <1>2 DEF Books, TypeOK, Jobs
  <2>2. With(disk[job.task], job.todo, rec[job.task]) \in Files
    BY <2>1, FilesType DEF Books, TypeOK
  <2> QED BY <1>2, <2>1, <2>2 DEF Written, Books, TypeOK
<1> QED BY <1>1, <1>2

\* The lock is free after a job.
LEMMA UnlockType ==
  ASSUME Books, Unlock
  PROVE  /\ job' = NoJob /\ job' \in Jobs
         /\ clean' \subseteq known
BY DEF Unlock, Books, TypeOK, JobTask, Jobs, NoJob

\* The books at the start.
LEMMA InitBooks == Init => Books
<1> SUFFICES ASSUME Init PROVE Books
  OBVIOUS
<1>1. disk \in [Task -> Files] /\ rec \in [Task -> Record]
  BY FilesType, RecordType DEF Init
<1>2. job \in Jobs
  BY DEF Init, Jobs, NoJob
<1>3. TypeOK
  BY <1>1, <1>2, TaskAssumption, BoundAssumption DEF Init, TypeOK, Engines
<1>4. Phases /\ JobTask
  BY TaskAssumption DEF Init, Phases, JobTask, NoJob, TaskJobs, Up
<1>5. Ids
  BY DEF Init, Ids
<1> QED BY <1>3, <1>4, <1>5 DEF Books

\* The ends of jobs keep the books.
LEMMA ReturnBooks == Books /\ Return => Books'
<1> SUFFICES ASSUME Books, Return PROVE Books'
  OBVIOUS
<1> USE DEF serverVars, taskVars, runVars, handlerVars, reported, reload
<1>1. ASSUME NEW kinds, Written(kinds), Unlock, NEW r \in SUBSET known,
             NEW e \in SUBSET (known \X Tree),
             running' = r, ending' = e, ~Up => r = {} /\ e = {},
             kinds \cap {"none", "first"} = {},
             UNCHANGED <<phase, settings, used, known, rec, resuming, drafts, removing, events,
                         deleted, owed, pending>>,
             stopped' \subseteq stopped \cup {job.task}, drifted' \subseteq Task,
             stopped' # stopped => job.task \in Task
      PROVE  Books'
  <2>1. TypeOK'
    BY <1>1, WrittenType, UnlockType DEF Books, TypeOK, Ids
  <2>2. Phases' /\ JobTask'
    BY <1>1, WrittenType, UnlockType, TaskAssumption DEF Books, Phases, JobTask, NoJob, TaskJobs, Up
  <2>3. Ids'
    BY <1>1, WrittenType DEF Books, Ids, JobTask, TypeOK
  <2> QED BY <2>1, <2>2, <2>3 DEF Books
<1>2. CASE UpdateReturns
  BY <1>1, <1>2 DEF UpdateReturns, Books, TypeOK, Phases
<1>3. CASE StartReturns
  <2>1. job.task \in known /\ Up
    BY <1>3 DEF StartReturns, Written, Books, TypeOK, JobTask, Phases, TaskJobs, Up, NoJob
  <2>2. AtWork(job.task) \subseteq known \X Tree
    BY <2>1 DEF AtWork
  <2>3. running' \subseteq known /\ ending' \subseteq known \X Tree
    BY <1>3, <2>1, <2>2 DEF StartReturns, StartRun, NoRun, Books, TypeOK
  <2> QED BY <1>1, <1>3, <2>1, <2>3 DEF StartReturns, Books, TypeOK
<1>4. CASE StopReturns
  <2>1. job.task \in Task /\ Up
    BY <1>4 DEF StopReturns, Written, Books, TypeOK, JobTask, Phases, TaskJobs, Up, NoJob
  <2>2. stopped' \subseteq stopped \cup {job.task}
    BY <1>4 DEF StopReturns
  <2> QED BY <1>1, <1>4, <2>1, <2>2 DEF StopReturns, Books, TypeOK
<1>5. CASE SettingsReturn
  BY <1>1, <1>5 DEF SettingsReturn, Behind, Books, TypeOK, Phases
<1>6. CASE FirstReturns
  <2>1. job.task = NoTask /\ phase = "settings"
    BY <1>6 DEF FirstReturns, Written, Books, TypeOK, JobTask, Phases, Jobs, NoJob
  <2>2. TypeOK'
    BY <1>6, <2>1, WrittenType, UnlockType DEF FirstReturns, Books, TypeOK
  <2>3. Phases' /\ JobTask'
    BY <1>6, <2>1, UnlockType, TaskAssumption DEF FirstReturns, Books, Phases, JobTask, NoJob, TaskJobs, Up
  <2>4. Ids'
    BY <1>6, <2>1, WrittenType, TaskAssumption DEF FirstReturns, Books, Ids, TypeOK
  <2> QED BY <2>2, <2>3, <2>4 DEF Books
<1>7. CASE ApplyNext
  <2>1. PICK t \in Behind :
          /\ rec' = [rec EXCEPT ![t].meta.engine = settings]
          /\ job' = NewJob("settings", t, FilesOf(rec[t]))
          /\ clean' = (clean \cup ({job.task} \cap Task)) \ {t}
    BY <1>7 DEF ApplyNext
  <2>2. t \in known /\ t \in Task /\ phase = "serve"
    BY <1>7, <2>1 DEF ApplyNext, Written, Behind, Books, TypeOK, Phases, NoJob
  <2>3. rec' \in [Task -> Record]
    <3>1. rec' = [rec EXCEPT ![t] = [rec[t] EXCEPT !.meta.engine = settings]]
      BY <2>1
    <3> QED BY <3>1, <2>2, RecordType DEF Books, TypeOK
  <2>4. job' \in Jobs /\ job'.task = t /\ job'.kind = "settings" /\ job'.todo \subseteq TaskFiles
    BY <2>1, <2>2, FileNumbers DEF NewJob, Jobs
  <2>5. clean' \subseteq known
    BY <2>1 DEF Books, TypeOK, JobTask
  <2>6. TypeOK'
    BY <1>7, <2>3, <2>4, <2>5, WrittenType DEF ApplyNext, Books, TypeOK
  <2>7. Phases' /\ JobTask'
    BY <1>7, <2>2, <2>4, TaskAssumption DEF ApplyNext, Books, Phases, JobTask, TaskJobs, Up
  <2>8. Ids'
    BY <1>7, WrittenType DEF ApplyNext, Books, Ids, JobTask, TypeOK
  <2> QED BY <2>6, <2>7, <2>8 DEF Books
<1> QED BY <1>2, <1>3, <1>4, <1>5, <1>6, <1>7 DEF Return

\* An error on the disk keeps the books.
LEMMA FailBooks == Books /\ WriteFails => Books'
<1> SUFFICES ASSUME Books, WriteFails PROVE Books'
  OBVIOUS
<1> USE DEF WriteFails, serverVars, taskVars, runVars, handlerVars, reported, reload
<1>1. disk' \in [Task -> Files] /\ \A t \in Task : t # job.task => disk'[t] = disk[t]
  BY CutType
<1>2. job' \in Jobs /\ job'.kind = job.kind /\ job'.task = job.task /\ job'.todo = {} /\ job' # NoJob
      /\ job # NoJob
  <2>1. job \in Jobs /\ job' = [job EXCEPT !.todo = {}, !.ok = FALSE] /\ job.todo # {}
    BY DEF Books, TypeOK
  <2>2. job' \in Jobs /\ job'.kind = job.kind /\ job'.task = job.task /\ job'.todo = {} /\ job'.ok = FALSE
    BY <2>1 DEF Jobs
  <2>3. NoJob.todo = {} /\ NoJob.ok = TRUE
    BY DEF NoJob
  <2> QED BY <2>1, <2>2, <2>3
<1>3. disk0' \in Engines \cup {"absent", "torn"} /\ events' \in 0..MaxEvents
  BY BoundAssumption DEF Cut0, Event, Books, TypeOK
<1>4. TypeOK'
  BY <1>1, <1>2, <1>3 DEF Books, TypeOK
<1>5. Phases' /\ JobTask'
  BY <1>2 DEF Books, Phases, JobTask, Up
<1>6. Ids'
  BY <1>1 DEF Books, Ids, JobTask, TypeOK
<1> QED BY <1>4, <1>5, <1>6 DEF Books

\* A new job on a task keeps the books: a handler or a run at work, or main.
LEMMA PersistBooks ==
  ASSUME Books, Idle, NEW t \in Task, NEW r \in Record, NEW kind \in TaskJobs, Persist(kind, t, r),
         UNCHANGED <<phase, settings, used, removing, disk, disk0, events, deleted, pending>>,
         t \in known', known' \subseteq known \cup {t}, t \in used \ removing,
         phase \in {"load", "resume", "serve"},
         known' # known /\ phase # "load" => \E d \in drafts : d.task = t /\ drafts' = drafts \ {d},
         known' = known \/ phase = "load" => drafts' = drafts,
         known \subseteq known',
         phase = "load" => kind = "load", phase = "resume" => kind \in {"update", "resume"},
         running' \subseteq running, ending' \subseteq known' \X Tree, resuming' \subseteq resuming,
         ~Up => ending' = ending,
         stopped' \subseteq stopped, drifted' \subseteq Task, owed' = owed
  PROVE  Books'
<1>1. job' \in Jobs /\ job'.task = t /\ job'.kind = kind /\ job'.todo \subseteq TaskFiles /\ job' # NoJob
  BY PersistType, FileNumbers
<1>2. rec' \in [Task -> Record] /\ clean' \subseteq known'
  BY PersistType DEF Books, TypeOK
<1>3. drafts' \subseteq drafts /\ removing \cap known' = {} /\ known' \subseteq used
  BY DEF Books, TypeOK
<1>4. TypeOK'
  BY <1>1, <1>2, <1>3 DEF Books, TypeOK
<1>5. Phases' /\ JobTask'
  BY <1>1, TaskAssumption DEF Books, Phases, JobTask, TaskJobs, Up
<1>6. Ids'
  <2>1. \A d \in drafts' : d.task \notin known'
    <3>1. CASE known' = known \/ phase = "load"
      BY <3>1 DEF Books, Ids, Phases
    <3>2. CASE ~(known' = known \/ phase = "load")
      <4>1. PICK d \in drafts : d.task = t /\ drafts' = drafts \ {d}
        BY <3>2
      <4> QED BY <4>1 DEF Books, Ids
    <3> QED BY <3>1, <3>2
  <2> QED BY <1>3, <2>1 DEF Books, Ids
<1> QED BY <1>4, <1>5, <1>6 DEF Books

\* What a run makes of the Trees of its task are Trees.
LEMMA TreesType ==
  ASSUME Books, NEW t \in Task
  PROVE  /\ \A trees \in {rec[t].trees} \cup TreeSteps(t) : trees \in [Tree -> TreeStatus]
         /\ AtWork(t) \subseteq {t} \X Tree
<1>1. rec[t].trees \in [Tree -> TreeStatus]
  BY DEF Books, TypeOK, Record
<1>2. \A i \in Tree, s \in TreeStatus : [rec[t].trees EXCEPT ![i] = s] \in [Tree -> TreeStatus]
  BY <1>1
<1> QED BY <1>1, <1>2 DEF TreeSteps, AtWork, TreeStatus

\* Handlers and runs that persist a task keep the books.
LEMMA WorkBooks ==
  ASSUME Books, NEW t \in Task,
         Continue(t) \/ StopTask(t) \/ RunStep(t) \/ LoadTask(t) \/ Resume(t)
  PROVE  Books'
<1> USE DEF serverVars, taskVars, runVars, handlerVars, diskVars, reported, reload, Free, TaskJobs
<1>r. rec[t] \in Record
  BY DEF Books, TypeOK
<1>1. CASE Continue(t)
  BY <1>1, <1>r, RecordType, PersistBooks DEF Continue, Books, TypeOK, Up
<1>2. CASE StopTask(t)
  <2>1. ending' \subseteq known \X Tree /\ running' \subseteq running
    BY <1>2, TreesType DEF StopTask, CancelRun, Books, TypeOK
  <2> QED BY <1>2, <1>r, <2>1, RecordType, PersistBooks DEF StopTask, Books, TypeOK, Up
<1>3. CASE RunUpdate(t)
  <2>1. PICK trees \in {rec[t].trees} \cup TreeSteps(t) :
          Persist("update", t, [rec[t] EXCEPT !.trees = trees])
    BY <1>3 DEF RunUpdate
  <2>2. [rec[t] EXCEPT !.trees = trees] \in Record
    BY <1>r, <2>1, TreesType, RecordType
  <2> QED BY <1>3, <2>1, <2>2, PersistBooks DEF RunUpdate, Books, TypeOK, Up
<1>4. CASE TreeEnds(t)
  <2>1. PICK i \in Tree, s \in {"Running", "Finished"} :
          /\ <<t, i>> \in ending
          /\ ending' = IF s = "Finished" THEN ending \ {<<t, i>>} ELSE ending
          /\ Persist("update", t, [rec[t] EXCEPT !.trees[i] = s])
    BY <1>4 DEF TreeEnds
  <2>2. [rec[t] EXCEPT !.trees[i] = s] \in Record
    BY <1>r, <2>1, RecordType DEF TreeStatus
  <2>3. t \in known /\ ending' \subseteq known \X Tree
    BY <2>1 DEF Books, TypeOK
  <2> QED BY <1>4, <2>1, <2>2, <2>3, PersistBooks DEF TreeEnds, Books, TypeOK, Up
<1>5. CASE FinishTask(t)
  BY <1>5, <1>r, RecordType, PersistBooks DEF FinishTask, Books, TypeOK, Up
<1>6. CASE LoadTask(t)
  <2>1. Recovered(t, disk[t]) \in Record
    BY <1>6, RecoveredType DEF LoadTask, Readable, Books, TypeOK
  <2>2. t \in used \ removing
    <3>1. disk[t].meta # <<>> /\ removing = {}
      BY <1>6 DEF LoadTask, Readable, Books, Phases
    <3>2. disk[t] # NoFiles
      BY <3>1 DEF NoFiles
    <3> QED BY <3>1, <3>2 DEF Books, Ids
  <2> QED BY <1>6, <2>1, <2>2, PersistBooks DEF LoadTask, Books, TypeOK, Up
<1>7. CASE Resume(t)
  BY <1>7, <1>r, RecordType, PersistBooks DEF Resume, Books, TypeOK, Up
<1> QED BY <1>1, <1>2, <1>3, <1>4, <1>5, <1>6, <1>7 DEF RunStep

\* A creation keeps the books.
LEMMA CreateBooks ==
  ASSUME Books
  PROVE  /\ \A t \in Task : ReadSettings(t) => Books'
         /\ \A d \in drafts : AddTask(d) => Books'
<1> USE DEF serverVars, taskVars, runVars, handlerVars, diskVars, reported, reload, Free
<1>1. ASSUME NEW t \in Task, ReadSettings(t) PROVE Books'
  <2>1. TypeOK'
    BY <1>1 DEF ReadSettings, Books, TypeOK
  <2>2. Phases' /\ JobTask'
    BY <1>1 DEF ReadSettings, Books, Phases, JobTask, Up
  <2>3. Ids'
    BY <1>1 DEF ReadSettings, Books, Ids, TypeOK
  <2> QED BY <2>1, <2>2, <2>3 DEF Books
<1>2. ASSUME NEW d \in drafts, AddTask(d) PROVE Books'
  <2>1. d.task \in Task /\ d.engine \in Engines /\ d.task \in used \ removing /\ d.task \notin known
    BY DEF Books, TypeOK, Ids
  <2>2. phase = "serve"
    BY DEF Books, Phases
  <2>3. [Blank EXCEPT !.meta.status = "Running", !.meta.engine = d.engine, !.messages = 1] \in Record
    BY <2>1, RecordType
  <2>4. drifted' \subseteq Task /\ known' = known \cup {d.task} /\ ending' \subseteq known' \X Tree
    BY <1>2, <2>1 DEF AddTask, Books, TypeOK
  <2> QED BY <1>2, <2>1, <2>2, <2>3, <2>4, PersistBooks DEF AddTask, TaskJobs, Up
<1> QED BY <1>1, <1>2

\* A deletion keeps the books.
LEMMA DeleteBooks ==
  ASSUME Books, NEW t \in Task, DeleteTask(t) \/ Removal(t)
  PROVE  Books'
<1> USE DEF serverVars, taskVars, runVars, handlerVars, diskVars, reported, reload, Free
<1>1. CASE DeleteTask(t)
  <2>1. rec' \in [Task -> Record]
    BY <1>1, RecordType DEF DeleteTask, Books, TypeOK
  <2>2. TypeOK'
    BY <1>1, <2>1 DEF DeleteTask, CancelRun, Books, TypeOK, Phases
  <2>3. Phases' /\ JobTask'
    BY <1>1, TaskAssumption DEF DeleteTask, CancelRun, Books, Phases, JobTask, Up, Idle, NoJob
  <2>4. Ids'
    BY <1>1 DEF DeleteTask, Books, Ids, TypeOK
  <2> QED BY <2>2, <2>3, <2>4 DEF Books
<1>2. CASE Removal(t)
  <2>1. /\ disk' \in [Task -> Files]
        /\ \A u \in Task : u # t => disk'[u] = disk[u]
        /\ t \in removing /\ removing' = removing \ {t} /\ Up
        /\ deleted' \subseteq deleted \cup {t}
        /\ events' \in 0..MaxEvents
        /\ UNCHANGED <<serverVars, taskVars, runVars, drafts, job, disk0, clean, stopped, reload>>
    BY <1>2, FilesType, BoundAssumption DEF Removal, DeleteReturns, DeleteFails, Event, Books, TypeOK
  <2>2. TypeOK'
    BY <2>1 DEF Books, TypeOK
  <2>3. Phases' /\ JobTask'
    BY <2>1 DEF Books, Phases, JobTask, Up
  <2>4. Ids'
    BY <2>1 DEF Books, Ids, TypeOK
  <2> QED BY <2>2, <2>3, <2>4 DEF Books
<1> QED BY <1>1, <1>2

\* A change of the settings, a start and the steps of main keep the books.
LEMMA BootBooks ==
  ASSUME Books, (\E e \in Engines : UpdateSettings(e)) \/ Start \/ Loaded \/ Serve
  PROVE  Books'
<1> USE DEF serverVars, taskVars, runVars, handlerVars, diskVars, reported, reload, Free
<1>1. ASSUME NEW e \in Engines, UpdateSettings(e) PROVE Books'
  <2>1. job' \in Jobs /\ job'.kind = "settings" /\ job'.task = NoTask /\ job'.todo = {SettingsFile}
    BY <1>1, FileNumbers DEF UpdateSettings, NewJob, Jobs, SettingsFile
  <2>2. TypeOK'
    BY <1>1, <2>1, BoundAssumption DEF UpdateSettings, Event, Books, TypeOK
  <2>3. Phases' /\ JobTask'
    BY <1>1, <2>1, TaskAssumption DEF UpdateSettings, Books, Phases, JobTask, TaskJobs, Up
  <2>4. Ids'
    BY <1>1 DEF UpdateSettings, Books, Ids
  <2> QED BY <2>2, <2>3, <2>4 DEF Books
<1>2. CASE Start
  <2>1. /\ job' \in Jobs /\ job'.task = NoTask /\ job'.todo \subseteq {SettingsFile}
        /\ phase' = "settings" => job'.kind = "first"
        /\ phase' = "load" => job' = NoJob
        /\ phase' \in {"settings", "load"} /\ settings' \in Engines
    <3>1. job = NoJob
      BY <1>2 DEF Start, Books, Phases
    <3>2. CASE disk0 = "absent"
      <4>1. job' = [kind |-> "first", task |-> NoTask, todo |-> {SettingsFile}, ok |-> TRUE]
            /\ phase' = "settings" /\ settings' = settings
        BY <1>2, <3>2 DEF Start, NewJob
      <4>2. job' \in Jobs
        BY <4>1, FileNumbers DEF Jobs, SettingsFile
      <4> QED BY <4>1, <4>2 DEF Books, TypeOK
    <3>3. CASE disk0 # "absent"
      <4>1. job' = NoJob /\ phase' = "load" /\ settings' = disk0 /\ disk0 \in Engines
        BY <1>2, <3>1, <3>3 DEF Start, Books, TypeOK
      <4> QED BY <3>1, <4>1 DEF NoJob, Books, TypeOK
    <3> QED BY <3>2, <3>3
  <2>2. TypeOK'
    BY <1>2, <2>1 DEF Start, Books, TypeOK
  <2>3. Phases' /\ JobTask'
    BY <1>2, <2>1, TaskAssumption DEF Start, Books, Phases, JobTask, TaskJobs, Up, NoJob
  <2>4. Ids'
    BY <1>2 DEF Start, Books, Ids
  <2> QED BY <2>2, <2>3, <2>4 DEF Books
<1>3. CASE Loaded \/ Serve
  <2>1. TypeOK'
    BY <1>3 DEF Loaded, Serve, Unfinished, Books, TypeOK
  <2>2. Phases' /\ JobTask'
    BY <1>3 DEF Loaded, Serve, Books, Phases, JobTask, Up, Idle, NoJob
  <2>3. Ids'
    BY <1>3 DEF Loaded, Serve, Books, Ids
  <2> QED BY <2>1, <2>2, <2>3 DEF Books
<1> QED BY <1>1, <1>2, <1>3

\* A crash keeps the books.
LEMMA CrashBooks == Books /\ Crash => Books'
<1> SUFFICES ASSUME Books, Crash PROVE Books'
  OBVIOUS
<1> USE DEF Crash, reported
<1>1. PICK d \in Cut, gone \in [removing -> SUBSET TaskFiles] :
        disk' = [t \in Task |-> IF t \in removing THEN Without(d[t], gone[t]) ELSE d[t]]
  OBVIOUS
<1>2. disk' \in [Task -> Files] /\ \A t \in Task \ (known \cup removing) : disk'[t] = disk[t]
  <2>1. d \in [Task -> Files] /\ \A t \in Task : t # job.task => d[t] = disk[t]
    BY CutType
  <2> QED BY <1>1, <2>1, FilesType DEF Books, JobTask
<1>3. rec' \in [Task -> Record] /\ job' \in Jobs
  BY RecordType DEF NoJob, Jobs
<1>4. \A t \in Task : owed'[t] = <<>> \/ owed'[t][1] \in Record
  <2> SUFFICES ASSUME NEW t \in Task PROVE owed'[t] = <<>> \/ owed'[t][1] \in Record
    OBVIOUS
  <2>1. Restored(t, rec[t]) \in Record
    BY RecoveredType DEF Books, TypeOK
  <2>2. CASE t \in clean
    BY <2>1, <2>2
  <2>3. CASE t \notin clean
    BY <2>3 DEF Books, TypeOK
  <2> QED BY <2>2, <2>3
<1>5. /\ disk0' \in Engines \cup {"absent", "torn"}
      /\ events' \in 0..MaxEvents
      /\ settings' \in Engines
      /\ drifted' \subseteq Task /\ pending' \subseteq Task
  BY BoundAssumption DEF Cut0, Event, Behind, Books, TypeOK, Engines
<1>6. TypeOK'
  BY <1>2, <1>3, <1>4, <1>5 DEF Books, TypeOK
<1>7. Phases' /\ JobTask'
  BY TaskAssumption DEF Phases, JobTask, NoJob, TaskJobs, Up
<1>8. Ids'
  BY <1>2 DEF Books, Ids, TypeOK
<1> QED BY <1>6, <1>7, <1>8 DEF Books

\* Whatever is torn or cut short, the map, the lock and the ids stay in order.
LEMMA BooksKept == Spec => []Books
<1>1. Books /\ [Next]_vars => Books'
  <2> SUFFICES ASSUME Books, [Next]_vars PROVE Books'
    OBVIOUS
  <2>1. CASE Next
    BY <2>1, ReturnBooks, FailBooks, WorkBooks, CreateBooks, DeleteBooks, BootBooks, CrashBooks
    DEF Next, User, BootStep
  <2>2. CASE UNCHANGED vars
    BY <2>2 DEF vars, serverVars, taskVars, runVars, handlerVars, diskVars, reported, reload,
       Books, TypeOK, Phases, JobTask, Ids, Up
  <2> QED BY <2>1, <2>2
<1> QED BY InitBooks, <1>1, PTL DEF Spec

\* The variables of the store keep their types, for any number of tasks, Trees,
\* messages, crashes and disk errors.
THEOREM TypeCorrect == Spec => []TypeOK
<1>1. Books => TypeOK
  BY DEF Books
<1> QED BY BooksKept, <1>1, PTL

-----------------------------------------------------------------------------
(* The files of a task.                                                     *)

\* A record that is written whole over files with no Tree it lacks is what the
\* files say.
LEMMA WithAll ==
  ASSUME NEW files \in Files, NEW r \in Record,
         \A i \in Tree : r.trees[i] = "none" => files.trees[i] = "none"
  PROVE  With(files, FilesOf(r), r) = Image(r)
<1>1. ForestFile \in FilesOf(r) /\ MessageFile \in FilesOf(r)
  BY DEF FilesOf
<1>2. \A i \in Tree : TreeFile(i) \in FilesOf(r) <=> r.trees[i] # "none"
  BY FileNumbers DEF FilesOf, TreeFiles
<1>3. [i \in Tree |-> IF TreeFile(i) \in FilesOf(r) THEN r.trees[i] ELSE files.trees[i]] = r.trees
  <2>1. r.trees \in [Tree -> TreeStatus]
    BY DEF Record
  <2> QED BY <1>2, <2>1
<1> QED BY <1>1, <1>3 DEF With, Image

\* A cut leaves no Tree on disk that was not there and is not in the record.
LEMMA CutTrees ==
  ASSUME Books, job.task \in Task, NEW d \in Cut, NEW i \in Tree,
         rec[job.task].trees[i] = "none", disk[job.task].trees[i] = "none"
  PROVE  d[job.task].trees[i] = "none"
<1>1. job.task # NoTask
  BY TaskAssumption
<1>2. PICK files \in CutFiles(disk[job.task], rec[job.task]) : d = [disk EXCEPT ![job.task] = files]
  BY <1>1 DEF Cut
<1>3. PICK P \in SUBSET job.todo :
        files \in {With(disk[job.task], P, rec[job.task])}
                  \cup {Without(With(disk[job.task], P, rec[job.task]), {f}) : f \in Torn(P)}
  BY <1>2 DEF CutFiles
<1>4. With(disk[job.task], P, rec[job.task]).trees[i] = "none"
  BY DEF With
<1>5. files.trees[i] = "none"
  BY <1>3, <1>4 DEF Without
<1> QED BY <1>2, <1>5 DEF Books, TypeOK

\* The files of a task whose last persist succeeded say what memory says: no
\* other step writes them, and a persist after a failed one leaves nothing over.
LEMMA SavedKept == Books /\ Books' /\ Saved /\ [Next]_vars => Saved'
<1> SUFFICES ASSUME Books, Books', Saved, [Next]_vars PROVE Saved'
  OBVIOUS
<1> USE DEF serverVars, taskVars, runVars, handlerVars, diskVars, reported, reload
\* A job that ends.
<1>1. ASSUME NEW kinds, Written(kinds)
      PROVE  /\ \A t \in known, i \in Tree : rec[t].trees[i] = "none" => disk'[t].trees[i] = "none"
             /\ \A t \in clean \cup (IF job.ok THEN {job.task} \cap Task ELSE {}) : disk'[t] = Image(rec[t])
  <2>1. ASSUME NEW t \in known, NEW i \in Tree, rec[t].trees[i] = "none"
        PROVE  disk'[t].trees[i] = "none"
    <3>1. disk[t].trees[i] = "none" /\ t \in Task
      BY <2>1 DEF Saved, NoLeftover, Books, TypeOK
    <3>2. CASE t = job.task
      <4>1. disk'[t] = With(disk[t], job.todo, rec[t])
        BY <1>1, <3>1, <3>2, WrittenType
      <4> QED BY <2>1, <3>1, <4>1 DEF With
    <3>3. CASE t # job.task
      BY <1>1, <3>1, <3>3, WrittenType
    <3> QED BY <3>2, <3>3
  <2>2. ASSUME NEW t \in clean PROVE disk'[t] = Image(rec[t])
    BY <1>1, WrittenType DEF Saved, JobFiles, CleanOnDisk, Books, TypeOK
  <2>3. ASSUME job.ok, job.task \in Task PROVE disk'[job.task] = Image(rec[job.task])
    <3>1. job.task \in known /\ job.todo = FilesOf(rec[job.task])
      BY <2>3 DEF Saved, JobFiles, Books, JobTask
    <3>2. disk[job.task] \in Files /\ rec[job.task] \in Record
      BY <2>3 DEF Books, TypeOK
    <3> QED BY <1>1, <2>3, <3>1, <3>2, WithAll, WrittenType DEF Saved, NoLeftover
  <2> QED BY <2>1, <2>2, <2>3
\* A new job on a task whose Trees the disk does not exceed.
<1>2. ASSUME NEW t \in Task, NEW r \in Record, NEW kind \in TaskJobs, Persist(kind, t, r),
             disk' = disk, known' \subseteq known \cup {t},
             \A i \in Tree : r.trees[i] = "none" => disk[t].trees[i] = "none"
      PROVE  Saved'
  <2>1. JobFiles'
    BY <1>2, PersistType DEF JobFiles
  <2>2. NoLeftover'
    BY <1>2, PersistType DEF Saved, NoLeftover, Books, TypeOK
  <2>3. CleanOnDisk'
    BY <1>2, PersistType DEF Saved, CleanOnDisk, Books, TypeOK
  <2> QED BY <2>1, <2>2, <2>3 DEF Saved
\* The record has no fewer Trees than before.
<1>3. ASSUME NEW t \in known, NEW r \in Record, NEW kind \in TaskJobs, Persist(kind, t, r),
             disk' = disk, known' = known,
             \A i \in Tree : r.trees[i] = "none" => rec[t].trees[i] = "none"
      PROVE  Saved'
  BY <1>2, <1>3 DEF Saved, NoLeftover, Books, TypeOK
<1>4. CASE Return
  <2>1. ASSUME NEW kinds, Written(kinds), Unlock, UNCHANGED <<rec, known>> PROVE Saved'
    <3>1. JobFiles'
      BY <2>1, UnlockType, TaskAssumption DEF JobFiles, NoJob
    <3>2. NoLeftover'
      BY <1>1, <2>1 DEF NoLeftover
    <3>3. CleanOnDisk'
      BY <1>1, <2>1 DEF Unlock, CleanOnDisk
    <3> QED BY <3>1, <3>2, <3>3 DEF Saved
  <2>2. CASE ApplyNext
    <3>1. PICK t \in Behind :
            /\ rec' = [rec EXCEPT ![t].meta.engine = settings]
            /\ job' = NewJob("settings", t, FilesOf(rec[t]))
            /\ clean' = (clean \cup ({job.task} \cap Task)) \ {t}
      BY <2>2 DEF ApplyNext
    <3>2. t \in Task /\ Written({"settings"}) /\ job.ok /\ known' = known
      BY <2>2, <3>1 DEF ApplyNext, Behind, Books, TypeOK
    <3>3. /\ rec'[t] = [rec[t] EXCEPT !.meta.engine = settings]
          /\ \A u \in Task : u # t => rec'[u] = rec[u]
          /\ \A u \in Task : rec'[u].trees = rec[u].trees
      BY <3>1, <3>2 DEF Books, TypeOK, Record
    <3>4. JobFiles'
      <4>1. FilesOf(rec'[t]) = FilesOf(rec[t])
        BY <3>2, <3>3 DEF FilesOf, TreeFiles
      <4> QED BY <3>1, <4>1 DEF JobFiles, NewJob
    <3>5. NoLeftover'
      BY <1>1, <3>2, <3>3 DEF NoLeftover, Books, TypeOK
    <3>6. CleanOnDisk'
      BY <1>1, <3>1, <3>2, <3>3 DEF CleanOnDisk, Books, TypeOK
    <3> QED BY <3>4, <3>5, <3>6 DEF Saved
  <2> QED BY <1>4, <2>1, <2>2 DEF Return, UpdateReturns, StartReturns, StopReturns, SettingsReturn,
                                  FirstReturns
<1>5. CASE WriteFails
  <2>1. /\ disk' \in Cut /\ job'.task = job.task /\ job'.ok = FALSE
        /\ UNCHANGED <<rec, known, clean>>
    BY <1>5 DEF WriteFails, Books, TypeOK, Jobs
  <2>2. \A t \in Task : t # job.task => disk'[t] = disk[t]
    BY <2>1, CutType
  <2>3. JobFiles'
    BY <2>1 DEF Saved, JobFiles
  <2>4. NoLeftover'
    <3> SUFFICES ASSUME NEW t \in known, NEW i \in Tree, rec[t].trees[i] = "none"
                 PROVE  disk'[t].trees[i] = "none"
      BY <2>1 DEF NoLeftover
    <3>1. disk[t].trees[i] = "none" /\ t \in Task
      BY DEF Saved, NoLeftover, Books, TypeOK
    <3> QED BY <2>1, <2>2, <3>1, CutTrees
  <2>5. CleanOnDisk'
    BY <2>1, <2>2 DEF Saved, JobFiles, CleanOnDisk, Books, TypeOK
  <2> QED BY <2>3, <2>4, <2>5 DEF Saved
<1>6. ASSUME NEW t \in Task, User(t) \/ RunStep(t) \/ LoadTask(t) \/ Resume(t) PROVE Saved'
  <2> USE DEF Free, TaskJobs
  <2>r. rec[t] \in Record /\ rec[t].trees \in [Tree -> TreeStatus]
    BY DEF Books, TypeOK, Record
  <2>1. CASE ReadSettings(t)
    BY <2>1 DEF ReadSettings, Saved, JobFiles, NoLeftover, CleanOnDisk
  <2>2. CASE Continue(t)
    <3>1. [rec[t] EXCEPT !.meta.status = "Running", !.meta.stop = FALSE, !.messages = @ + 1].trees
            = rec[t].trees
      BY <2>r DEF Record
    <3> QED BY <2>2, <2>r, <3>1, <1>3, RecordType DEF Continue
  <2>3. CASE StopTask(t)
    <3>1. \A i \in Tree : [rec[t] EXCEPT !.meta.status = "Finished", !.meta.stop = TRUE,
                                        !.trees = EndTrees(@)].trees[i] = "none"
                         => rec[t].trees[i] = "none"
      BY <2>r DEF Record, EndTrees
    <3> QED BY <2>3, <2>r, <3>1, <1>3, RecordType DEF StopTask
  <2>4. CASE DeleteTask(t)
    <3>1. JobFiles'
      BY <2>4, TaskAssumption DEF DeleteTask, Idle, NoJob, JobFiles
    <3>2. \A u \in Task : u # t => rec'[u] = rec[u]
      BY <2>4 DEF DeleteTask, Books, TypeOK
    <3>3. NoLeftover' /\ CleanOnDisk'
      BY <2>4, <3>2 DEF DeleteTask, Saved, NoLeftover, CleanOnDisk, Books, TypeOK
    <3> QED BY <3>1, <3>3 DEF Saved
  <2>5. CASE RunUpdate(t)
    <3>1. PICK trees \in {rec[t].trees} \cup TreeSteps(t) :
            Persist("update", t, [rec[t] EXCEPT !.trees = trees])
      BY <2>5 DEF RunUpdate
    <3> DEFINE r == [rec[t] EXCEPT !.trees = trees]
    <3>2. r \in Record
      BY <2>r, <3>1, TreesType, RecordType
    <3>3. \A i \in Tree : r.trees[i] = "none" => rec[t].trees[i] = "none"
      <4>1. r.trees = trees
        BY <2>r DEF Record
      <4> QED BY <2>r, <3>1, <4>1 DEF TreeSteps
    <3>4. t \in known /\ disk' = disk /\ known' = known /\ "update" \in TaskJobs
      BY <2>5 DEF RunUpdate, Books, TypeOK
    <3>5. Persist("update", t, r)
      BY <3>1
    <3> HIDE DEF r
    <3> QED BY <3>2, <3>3, <3>4, <3>5, <1>3
  <2>6. CASE TreeEnds(t)
    <3>1. PICK i \in Tree, s \in {"Running", "Finished"} :
            <<t, i>> \in ending /\ Persist("update", t, [rec[t] EXCEPT !.trees[i] = s])
      BY <2>6 DEF TreeEnds
    <3>2. [rec[t] EXCEPT !.trees[i] = s] \in Record
      BY <2>r, <3>1, RecordType DEF TreeStatus
    <3>3. \A j \in Tree : [rec[t] EXCEPT !.trees[i] = s].trees[j] = "none" => rec[t].trees[j] = "none"
      BY <2>r, <3>1 DEF Record
    <3>4. t \in known
      BY <3>1 DEF Books, TypeOK
    <3> QED BY <2>6, <3>1, <3>2, <3>3, <3>4, <1>3 DEF TreeEnds
  <2>7. CASE FinishTask(t)
    <3>1. [rec[t] EXCEPT !.meta.status = "Finished"].trees = rec[t].trees
      BY <2>r DEF Record
    <3> QED BY <2>7, <2>r, <3>1, <1>3, RecordType DEF FinishTask, Books, TypeOK
  <2>8. CASE LoadTask(t)
    <3>1. Recovered(t, disk[t]) \in Record
      BY <2>8, RecoveredType DEF LoadTask, Readable, Books, TypeOK
    <3>2. \A i \in Tree : Recovered(t, disk[t]).trees[i] = "none" => disk[t].trees[i] = "none"
      BY DEF Recovered, EndTrees
    <3> QED BY <2>8, <3>1, <3>2, <1>2 DEF LoadTask
  <2>9. CASE Resume(t)
    <3>1. [rec[t] EXCEPT !.meta.status = "Running"].trees = rec[t].trees
      BY <2>r DEF Record
    <3> QED BY <2>9, <2>r, <3>1, <1>3, RecordType DEF Resume, Books, TypeOK
  <2> QED BY <1>6, <2>1, <2>2, <2>3, <2>4, <2>5, <2>6, <2>7, <2>8, <2>9 DEF User, RunStep
<1>7. ASSUME NEW d \in drafts, AddTask(d) PROVE Saved'
  <2>1. d.task \in Task /\ d.engine \in Engines /\ disk[d.task] = NoFiles
    BY DEF Books, TypeOK, Ids
  <2>2. [Blank EXCEPT !.meta.status = "Running", !.meta.engine = d.engine, !.messages = 1] \in Record
    BY <2>1, RecordType
  <2> QED BY <1>7, <2>1, <2>2, <1>2 DEF AddTask, NoFiles, TaskJobs
<1>8. ASSUME NEW t \in Task, Removal(t) PROVE Saved'
  <2>1. /\ \A u \in Task : u # t => disk'[u] = disk[u]
        /\ t \notin known
        /\ UNCHANGED <<rec, known, job, clean>>
    BY <1>8 DEF Removal, DeleteReturns, DeleteFails, Books, TypeOK
  <2> QED BY <2>1 DEF Saved, JobFiles, NoLeftover, CleanOnDisk, Books, TypeOK
<1>9. CASE (\E e \in Engines : UpdateSettings(e)) \/ Start
  <2>1. job'.task = NoTask /\ UNCHANGED <<rec, known, disk, clean>>
    BY <1>9 DEF UpdateSettings, Start, NewJob, NoJob, Books, Phases
  <2> QED BY <2>1, TaskAssumption DEF Saved, JobFiles, NoLeftover, CleanOnDisk
<1>10. CASE Crash
  BY <1>10, TaskAssumption DEF Crash, NoJob, Saved, JobFiles, NoLeftover, CleanOnDisk
<1>11. CASE Loaded \/ Serve
  BY <1>11 DEF Loaded, Serve, Saved, JobFiles, NoLeftover, CleanOnDisk
<1>12. CASE UNCHANGED vars
  BY <1>12 DEF vars, Saved, JobFiles, NoLeftover, CleanOnDisk
<1> QED BY <1>4, <1>5, <1>6, <1>7, <1>8, <1>9, <1>10, <1>11, <1>12 DEF Next, BootStep

\* The files and what they are compared with, in every reachable state.
LEMMA SavedAlways == Spec => []Saved
<1>1. Init => Saved
  BY TaskAssumption DEF Init, Saved, JobFiles, NoLeftover, CleanOnDisk, NoJob
<1> QED BY <1>1, SavedKept, BooksKept, PTL DEF Spec

\* The files of a task whose last persist succeeded say what memory says, for
\* any number of tasks, Trees, crashes and disk errors.
THEOREM Clean == Spec => []CleanOnDisk
<1>1. Saved => CleanOnDisk
  BY DEF Saved
<1> QED BY SavedAlways, <1>1, PTL

-----------------------------------------------------------------------------
(* Trees that are Running.                                                  *)


\* No step leaves a Running Tree without a run or an ending that will close it.
LEMMA NoGhostKept == Books /\ Books' /\ NoGhostTrees /\ [Next]_vars => NoGhostTrees'
<1> SUFFICES ASSUME Books, Books', NoGhostTrees, [Next]_vars PROVE NoGhostTrees'
  OBVIOUS
<1> USE DEF serverVars, taskVars, runVars, handlerVars, diskVars, reported, reload
\* The Trees of every record stay as they are, and nobody stops work.
<1>1. ASSUME \A t \in known' : t \in known /\ rec'[t].trees = rec[t].trees,
             running \subseteq running',
             ending \subseteq ending'
      PROVE  NoGhostTrees'
  BY <1>1 DEF NoGhostTrees, AtWork
\* One record changes.
<1>2. ASSUME NEW t \in Task, NEW r \in Record, NEW kind \in TaskJobs, Persist(kind, t, r),
             known' \subseteq known \cup {t},
             \A u \in known : u # t =>
               (u \in running => u \in running') /\ \A i \in Tree : <<u, i>> \in ending => <<u, i>> \in ending',
             t \in running' \/ \A i \in Tree : r.trees[i] = "Running" => <<t, i>> \in ending'
      PROVE  NoGhostTrees'
  <2> SUFFICES ASSUME NEW u \in known', u \notin running',
                      NEW i \in Tree, rec'[u].trees[i] = "Running"
               PROVE  <<u, i>> \in ending'
    BY DEF NoGhostTrees, AtWork
  <2>1. CASE u = t
    BY <1>2, <2>1, PersistType
  <2>2. CASE u # t
    <3>1. u \in known /\ u \in Task /\ rec'[u] = rec[u]
      BY <1>2, <2>2, PersistType DEF Books, TypeOK
    <3>2. u \notin running
      BY <1>2, <2>2, <3>1
    <3>3. <<u, i>> \in ending
      BY <3>1, <3>2 DEF NoGhostTrees, AtWork
    <3> QED BY <1>2, <2>2, <3>1, <3>3
  <2> QED BY <2>1, <2>2
<1>3. CASE Return
  <2>1. CASE ApplyNext
    <3>1. PICK t \in Behind : rec' = [rec EXCEPT ![t].meta.engine = settings]
      BY <2>1 DEF ApplyNext
    <3>2. \A u \in Task : rec'[u].trees = rec[u].trees
      BY <3>1 DEF Behind, Books, TypeOK, Record
    <3> QED BY <1>1, <2>1, <3>2 DEF ApplyNext, Books, TypeOK
  <2>2. CASE StartReturns
    BY <1>1, <2>2 DEF StartReturns, StartRun, NoRun
  <2>3. CASE UpdateReturns \/ StopReturns \/ SettingsReturn \/ FirstReturns
    BY <1>1, <2>3 DEF UpdateReturns, StopReturns, SettingsReturn, FirstReturns
  <2> QED BY <1>3, <2>1, <2>2, <2>3 DEF Return
<1>4. ASSUME NEW t \in Task, User(t) \/ RunStep(t) \/ LoadTask(t) \/ Resume(t) PROVE NoGhostTrees'
  <2> USE DEF TaskJobs
  <2>r. rec[t] \in Record /\ rec[t].trees \in [Tree -> TreeStatus]
    BY DEF Books, TypeOK, Record
  <2>n. ASSUME NEW r \in Record, NEW kind \in TaskJobs, Persist(kind, t, r), r.trees = rec[t].trees,
               UNCHANGED <<known, running, ending>>, t \in known
        PROVE  NoGhostTrees'
    <3>1. t \in running \/ \A i \in Tree : r.trees[i] = "Running" => <<t, i>> \in ending
      BY <2>n DEF NoGhostTrees, AtWork
    <3> QED BY <1>2, <2>n, <3>1
  <2>1. CASE ReadSettings(t)
    BY <1>1, <2>1 DEF ReadSettings
  <2>2. CASE Continue(t)
    <3> DEFINE r == [rec[t] EXCEPT !.meta.status = "Running", !.meta.stop = FALSE, !.messages = @ + 1]
    <3>1. r \in Record /\ r.trees = rec[t].trees
      BY <2>r, RecordType DEF Record
    <3>2. Persist("continue", t, r) /\ t \in known /\ UNCHANGED <<known, running, ending>>
      BY <2>2 DEF Continue
    <3> HIDE DEF r
    <3> QED BY <2>n, <3>1, <3>2
  <2>3. CASE StopTask(t)
    <3> DEFINE r == [rec[t] EXCEPT !.meta.status = "Finished", !.meta.stop = TRUE, !.trees = EndTrees(@)]
    <3>1. r \in Record /\ \A i \in Tree : r.trees[i] # "Running"
      BY <2>r, RecordType DEF Record, EndTrees
    <3>2. Persist("stop", t, r) /\ known' = known /\ running' = running \ {t} /\ ending \subseteq ending'
      BY <2>3 DEF StopTask, CancelRun
    <3> HIDE DEF r
    <3> QED BY <1>2, <3>1, <3>2
  <2>4. CASE DeleteTask(t)
    BY <2>4 DEF DeleteTask, CancelRun, NoGhostTrees, AtWork, Books, TypeOK
  <2>5. CASE RunUpdate(t)
    <3>1. PICK trees \in {rec[t].trees} \cup TreeSteps(t) :
            Persist("update", t, [rec[t] EXCEPT !.trees = trees])
      BY <2>5 DEF RunUpdate
    <3> DEFINE r == [rec[t] EXCEPT !.trees = trees]
    <3>2. r \in Record
      BY <2>r, <3>1, TreesType, RecordType
    <3>3. Persist("update", t, r) /\ known' = known /\ t \in running' /\ UNCHANGED <<running, ending>>
      BY <2>5, <3>1 DEF RunUpdate
    <3> HIDE DEF r
    <3> QED BY <1>2, <3>2, <3>3
  <2>6. CASE TreeEnds(t)
    <3>1. PICK i \in Tree, s \in {"Running", "Finished"} :
            /\ <<t, i>> \in ending /\ Persist("update", t, [rec[t] EXCEPT !.trees[i] = s])
            /\ ending' = IF s = "Finished" THEN ending \ {<<t, i>>} ELSE ending
      BY <2>6 DEF TreeEnds
    <3> DEFINE r == [rec[t] EXCEPT !.trees[i] = s]
    <3>2. /\ r \in Record
          /\ \A j \in Tree : r.trees[j] = IF i = j THEN s ELSE rec[t].trees[j]
      <4>1. r \in Record
        BY <2>r, <3>1, RecordType DEF TreeStatus
      <4>2. r.trees = [rec[t].trees EXCEPT ![i] = s]
        BY <2>r DEF Record
      <4> QED BY <2>r, <4>1, <4>2
    <3>3. Persist("update", t, r) /\ UNCHANGED <<known, running>> /\ t \in known
      BY <2>6, <3>1 DEF TreeEnds, Books, TypeOK
    <3>4. \A u \in known, j \in Tree : u # t /\ <<u, j>> \in ending => <<u, j>> \in ending'
      BY <3>1
    <3>5. t \in running' \/ \A j \in Tree : r.trees[j] = "Running" => <<t, j>> \in ending'
      <4> SUFFICES ASSUME t \notin running, NEW j \in Tree, r.trees[j] = "Running"
                   PROVE  <<t, j>> \in ending'
        BY <3>3
      <4>1. CASE j = i
        BY <3>1, <3>2, <4>1
      <4>2. CASE j # i
        <5>1. <<t, j>> \in ending
          BY <3>2, <3>3, <4>2 DEF NoGhostTrees, AtWork
        <5> QED BY <3>1, <4>2, <5>1
      <4> QED BY <4>1, <4>2
    <3> HIDE DEF r
    <3> QED BY <1>2, <3>2, <3>3, <3>4, <3>5
  <2>7. CASE FinishTask(t)
    <3> DEFINE r == [rec[t] EXCEPT !.meta.status = "Finished"]
    <3>1. r \in Record /\ r.trees = rec[t].trees
      BY <2>r, RecordType DEF Record
    <3>2. Persist("update", t, r) /\ UNCHANGED <<known, ending>> /\ running' = running \ {t}
      BY <2>7 DEF FinishTask
    <3>3. \A i \in Tree : r.trees[i] = "Running" => <<t, i>> \in ending'
      BY <2>7, <3>1, <3>2 DEF FinishTask, AtWork
    <3> HIDE DEF r
    <3> QED BY <1>2, <3>1, <3>2, <3>3
  <2>8. CASE LoadTask(t)
    <3>1. Recovered(t, disk[t]) \in Record
      BY <2>8, RecoveredType DEF LoadTask, Readable, Books, TypeOK
    <3>2. \A i \in Tree : Recovered(t, disk[t]).trees[i] # "Running"
      BY DEF Recovered, EndTrees
    <3> QED BY <2>8, <3>1, <3>2, <1>2 DEF LoadTask
  <2>9. CASE Resume(t)
    <3> DEFINE r == [rec[t] EXCEPT !.meta.status = "Running"]
    <3>1. r \in Record /\ r.trees = rec[t].trees
      BY <2>r, RecordType DEF Record
    <3>2. Persist("resume", t, r) /\ t \in known /\ UNCHANGED <<known, running, ending>>
      BY <2>9 DEF Resume, Books, TypeOK
    <3> HIDE DEF r
    <3> QED BY <2>n, <3>1, <3>2
  <2> QED BY <1>4, <2>1, <2>2, <2>3, <2>4, <2>5, <2>6, <2>7, <2>8, <2>9 DEF User, RunStep
<1>5. ASSUME NEW d \in drafts, AddTask(d) PROVE NoGhostTrees'
  <2> DEFINE r == [Blank EXCEPT !.meta.status = "Running", !.meta.engine = d.engine, !.messages = 1]
  <2>1. d.task \in Task /\ d.engine \in Engines
    BY DEF Books, TypeOK
  <2>2. r \in Record /\ \A i \in Tree : r.trees[i] = "none"
    BY <2>1, RecordType DEF Blank
  <2>3. /\ Persist("create", d.task, r) /\ "create" \in TaskJobs /\ known' = known \cup {d.task}
        /\ UNCHANGED <<running, ending>>
    BY <1>5 DEF AddTask, TaskJobs
  <2> HIDE DEF r
  <2> QED BY <1>2, <2>1, <2>2, <2>3
<1>6. ASSUME NEW t \in Task, Removal(t) PROVE NoGhostTrees'
  BY <1>1, <1>6 DEF Removal, DeleteReturns, DeleteFails
<1>7. CASE WriteFails \/ (\E e \in Engines : UpdateSettings(e)) \/ Start \/ Loaded \/ Serve
  BY <1>1, <1>7 DEF WriteFails, UpdateSettings, Start, Loaded, Serve
<1>8. CASE Crash
  BY <1>8 DEF Crash, NoGhostTrees
<1>9. CASE UNCHANGED vars
  BY <1>1, <1>9 DEF vars
<1> QED BY <1>3, <1>4, <1>5, <1>6, <1>7, <1>8, <1>9 DEF Next, BootStep

\* A Tree is Running only where a run or the end of a cancelled run will close
\* it, for any number of tasks, Trees, crashes and disk errors.
THEOREM GhostFree == Spec => []NoGhostTrees
<1>1. Init => NoGhostTrees
  BY DEF Init, NoGhostTrees
<1> QED BY <1>1, NoGhostKept, BooksKept, PTL DEF Spec

-----------------------------------------------------------------------------
(* Stops.                                                                   *)

\* A stop that was reported done is in memory and on disk, and the task neither
\* runs nor waits for its resumption.
StopRecorded ==
  /\ job.kind = "stop" =>
       job.task \notin running /\ rec[job.task].meta.stop = TRUE /\ phase = "serve"
  /\ job.kind \in {"create", "continue", "resume"} => job.task \notin stopped
  /\ stopped \cap (running \cup resuming) = {}
  /\ \A t \in stopped : /\ t \in known => rec[t].meta.stop = TRUE
                        /\ disk[t].meta # <<>> => disk[t].meta[1].stop = TRUE

\* A forest.json that was cut is gone, as it was, or new.
LEMMA CutMeta ==
  ASSUME Books, NEW d \in Cut, NEW t \in Task
  PROVE  \/ d[t].meta \in {<<>>, disk[t].meta}
         \/ t = job.task /\ d[t].meta = <<rec[t].meta>>
<1>1. CASE t # job.task
  BY <1>1, CutType
<1>2. CASE t = job.task
  <2>1. PICK files \in CutFiles(disk[t], rec[t]) : d = [disk EXCEPT ![t] = files]
    BY <1>2, TaskAssumption DEF Cut
  <2>2. PICK P \in SUBSET job.todo :
          files \in {With(disk[t], P, rec[t])} \cup {Without(With(disk[t], P, rec[t]), {f}) : f \in Torn(P)}
    BY <2>1 DEF CutFiles
  <2>3. files.meta \in {<<>>, disk[t].meta, <<rec[t].meta>>}
    BY <2>2 DEF With, Without
  <2> QED BY <1>2, <2>1, <2>3 DEF Books, TypeOK
<1> QED BY <1>1, <1>2

\* No step takes a stop back, but the user's next message.
LEMMA StopKept == Books /\ Books' /\ Saved /\ StopRecorded /\ [Next]_vars => StopRecorded'
<1> SUFFICES ASSUME Books, Books', Saved, StopRecorded, [Next]_vars PROVE StopRecorded'
  OBVIOUS
<1> USE DEF serverVars, taskVars, runVars, handlerVars, diskVars, reported, reload
\* A job that ends writes the stop of a stopped task.
<1>1. ASSUME NEW kinds, Written(kinds)
      PROVE  /\ \A t \in stopped : disk'[t].meta # <<>> => disk'[t].meta[1].stop = TRUE
             /\ job.ok /\ job.task \in Task => disk'[job.task].meta = <<rec[job.task].meta>>
  <2>0. ASSUME job.task \in Task
        PROVE  disk'[job.task].meta = IF ForestFile \in job.todo THEN <<rec[job.task].meta>>
                                      ELSE disk[job.task].meta
    <3>1. disk'[job.task] = With(disk[job.task], job.todo, rec[job.task])
      BY <1>1, <2>0, WrittenType
    <3> QED BY <3>1 DEF With
  <2>1. ASSUME job.task \in Task
        PROVE  disk'[job.task].meta \in {disk[job.task].meta, <<rec[job.task].meta>>}
    BY <2>0, <2>1
  <2>2. ASSUME NEW t \in stopped, disk'[t].meta # <<>> PROVE disk'[t].meta[1].stop = TRUE
    <3>1. t \in Task
      BY DEF Books, TypeOK
    <3>2. CASE t # job.task
      BY <1>1, <2>2, <3>1, <3>2, WrittenType DEF StopRecorded
    <3>3. CASE t = job.task
      <4>1. t \in known
        BY <3>1, <3>3 DEF Books, JobTask
      <4> QED BY <2>1, <2>2, <3>1, <3>3, <4>1 DEF StopRecorded
    <3> QED BY <3>2, <3>3
  <2>3. ASSUME job.ok, job.task \in Task PROVE disk'[job.task].meta = <<rec[job.task].meta>>
    <3>1. ForestFile \in job.todo
      BY <2>3 DEF Saved, JobFiles, FilesOf
    <3> QED BY <2>0, <2>3, <3>1
  <2> QED BY <2>2, <2>3
\* A new job leaves a stopped task stopped.
<1>2. ASSUME NEW t \in Task, NEW r \in Record, NEW kind \in TaskJobs, Persist(kind, t, r),
             disk' = disk, known' \subseteq known \cup {t}, running' \subseteq running,
             resuming' \subseteq resuming, stopped' \subseteq stopped,
             t \in stopped' => r.meta.stop = TRUE,
             kind = "stop" => t \notin running' /\ r.meta.stop = TRUE /\ phase' = "serve",
             kind \in {"create", "continue", "resume"} => t \notin stopped'
      PROVE  StopRecorded'
  <2>1. \A u \in stopped' : u \in known' => rec'[u].meta.stop = TRUE
    <3> SUFFICES ASSUME NEW u \in stopped', u \in known' PROVE rec'[u].meta.stop = TRUE
      OBVIOUS
    <3>1. CASE u = t
      BY <1>2, <3>1, PersistType
    <3>2. CASE u # t
      BY <1>2, <3>2, PersistType DEF StopRecorded, Books, TypeOK
    <3> QED BY <3>1, <3>2
  <2>2. \A u \in stopped' : disk'[u].meta # <<>> => disk'[u].meta[1].stop = TRUE
    BY <1>2 DEF StopRecorded
  <2>3. stopped' \cap (running' \cup resuming') = {}
    BY <1>2 DEF StopRecorded
  <2> QED BY <1>2, <2>1, <2>2, <2>3, PersistType DEF StopRecorded
\* ... in particular when the record keeps its stop.
<1>3. ASSUME NEW t \in known, NEW r \in Record, NEW kind \in {"update", "load"}, Persist(kind, t, r),
             r.meta.stop = rec[t].meta.stop, disk' = disk, known' = known,
             running' \subseteq running, UNCHANGED <<resuming, stopped>>
      PROVE  StopRecorded'
  <2>1. t \in Task /\ kind \in TaskJobs /\ kind \notin {"stop", "create", "continue", "resume"}
    BY <1>3 DEF Books, TypeOK, TaskJobs
  <2>2. t \in stopped' => r.meta.stop = TRUE
    BY <1>3 DEF StopRecorded
  <2> QED BY <1>2, <1>3, <2>1, <2>2
<1>4. CASE Return
  <2>1. ASSUME NEW kinds, Written(kinds), Unlock, UNCHANGED <<rec, known, stopped, running, resuming>>
        PROVE  StopRecorded'
    BY <1>1, <2>1 DEF Unlock, NoJob, StopRecorded
  <2>2. CASE ApplyNext
    <3>1. PICK t \in Behind :
            /\ rec' = [rec EXCEPT ![t].meta.engine = settings]
            /\ job' = NewJob("settings", t, FilesOf(rec[t]))
      BY <2>2 DEF ApplyNext
    <3>2. \A u \in Task : rec'[u].meta.stop = rec[u].meta.stop
      BY <3>1 DEF Behind, Books, TypeOK, Record, Meta
    <3>3. Written({"settings"}) /\ UNCHANGED <<known, stopped, running, resuming>>
      BY <2>2 DEF ApplyNext
    <3>4. job'.kind = "settings"
      BY <3>1 DEF NewJob
    <3>5. \A u \in stopped : u \in known => rec'[u].meta.stop = TRUE
      BY <3>2 DEF StopRecorded, Books, TypeOK
    <3> QED BY <1>1, <3>3, <3>4, <3>5 DEF StopRecorded
  <2>3. CASE StartReturns
    <3>1. Written({"create", "continue", "resume"}) /\ Unlock
          /\ UNCHANGED <<rec, known, stopped, resuming>>
          /\ running' \subseteq running \cup {job.task}
      BY <2>3 DEF StartReturns, StartRun, NoRun
    <3>2. job.task \notin stopped
      BY <3>1, WrittenType DEF StopRecorded
    <3> QED BY <1>1, <3>1, <3>2 DEF Unlock, NoJob, StopRecorded
  <2>4. CASE StopReturns
    <3>1. /\ Written({"stop"}) /\ Unlock /\ UNCHANGED <<rec, known, running, resuming>>
          /\ stopped' = IF job.ok THEN stopped \cup {job.task} ELSE stopped
      BY <2>4 DEF StopReturns
    <3>2. CASE job.ok
      <4>1. job.kind = "stop" /\ job.task \in Task
        BY <3>1, WrittenType DEF Books, JobTask, TaskJobs
      <4>2. rec[job.task].meta.stop = TRUE /\ job.task \notin running /\ resuming = {}
        BY <4>1 DEF StopRecorded, Books, Phases
      <4>3. disk'[job.task].meta = <<rec[job.task].meta>>
        BY <1>1, <3>1, <3>2, <4>1
      <4>4. stopped' = stopped \cup {job.task} /\ job' = NoJob
        BY <3>1, <3>2 DEF Unlock
      <4>5. stopped' \cap (running' \cup resuming') = {}
        BY <3>1, <4>2, <4>4 DEF StopRecorded
      <4>6. \A t \in stopped' : t \in known' => rec'[t].meta.stop = TRUE
        BY <3>1, <4>2, <4>4 DEF StopRecorded
      <4>7. \A t \in stopped' : disk'[t].meta # <<>> => disk'[t].meta[1].stop = TRUE
        <5>1. \A t \in stopped : disk'[t].meta # <<>> => disk'[t].meta[1].stop = TRUE
          BY <1>1, <3>1
        <5>2. disk'[job.task].meta[1].stop = TRUE
          BY <4>2, <4>3
        <5> QED BY <4>4, <5>1, <5>2
      <4> QED BY <4>4, <4>5, <4>6, <4>7 DEF NoJob, StopRecorded
    <3>3. CASE ~job.ok
      BY <2>1, <3>1, <3>3
    <3> QED BY <3>2, <3>3
  <2>5. CASE UpdateReturns \/ SettingsReturn \/ FirstReturns
    BY <2>1, <2>5 DEF UpdateReturns, SettingsReturn, FirstReturns
  <2> QED BY <1>4, <2>2, <2>3, <2>4, <2>5 DEF Return
<1>5. CASE WriteFails
  <2>1. /\ disk' \in Cut /\ job'.kind = job.kind /\ job'.task = job.task
        /\ UNCHANGED <<rec, known, running, resuming, stopped, phase>>
    BY <1>5 DEF WriteFails, Books, TypeOK, Jobs
  <2>2. ASSUME NEW t \in stopped, disk'[t].meta # <<>> PROVE disk'[t].meta[1].stop = TRUE
    <3>1. t \in Task /\ (t = job.task => t \in known)
      BY DEF Books, TypeOK, JobTask
    <3> QED BY <2>1, <2>2, <3>1, CutMeta DEF StopRecorded
  <2> QED BY <2>1, <2>2 DEF StopRecorded
<1>6. ASSUME NEW t \in Task, User(t) \/ RunStep(t) \/ LoadTask(t) \/ Resume(t) PROVE StopRecorded'
  <2> USE DEF TaskJobs
  <2>r. rec[t] \in Record /\ rec[t].trees \in [Tree -> TreeStatus]
    BY DEF Books, TypeOK, Record
  <2>1. CASE ReadSettings(t)
    BY <2>1 DEF ReadSettings, StopRecorded
  <2>2. CASE Continue(t)
    <3> DEFINE r == [rec[t] EXCEPT !.meta.status = "Running", !.meta.stop = FALSE, !.messages = @ + 1]
    <3>1. r \in Record
      BY <2>r, RecordType
    <3>2. Persist("continue", t, r) /\ stopped' = stopped \ {t}
          /\ UNCHANGED <<disk, known, running, resuming>>
      BY <2>2 DEF Continue
    <3> HIDE DEF r
    <3> QED BY <1>2, <3>1, <3>2
  <2>3. CASE StopTask(t)
    <3> DEFINE r == [rec[t] EXCEPT !.meta.status = "Finished", !.meta.stop = TRUE, !.trees = EndTrees(@)]
    <3>1. r \in Record /\ r.meta.stop = TRUE
      <4>1. r.meta = [rec[t].meta EXCEPT !.status = "Finished", !.stop = TRUE]
        BY <2>r DEF Record
      <4>2. r \in Record
        BY <2>r, RecordType
      <4>3. rec[t].meta \in Meta
        BY <2>r DEF Record
      <4> QED BY <4>1, <4>2, <4>3 DEF Meta
    <3>2. Persist("stop", t, r) /\ running' = running \ {t} /\ phase' = "serve"
          /\ UNCHANGED <<disk, known, resuming, stopped>>
      BY <2>3 DEF StopTask, CancelRun
    <3> HIDE DEF r
    <3> QED BY <1>2, <3>1, <3>2
  <2>4. CASE DeleteTask(t)
    BY <2>4 DEF DeleteTask, CancelRun, Free, Idle, NoJob, StopRecorded, Books, TypeOK
  <2>5. CASE RunUpdate(t)
    <3>1. PICK trees \in {rec[t].trees} \cup TreeSteps(t) :
            Persist("update", t, [rec[t] EXCEPT !.trees = trees])
      BY <2>5 DEF RunUpdate
    <3> DEFINE r == [rec[t] EXCEPT !.trees = trees]
    <3>2. r \in Record /\ r.meta = rec[t].meta
      BY <2>r, <3>1, TreesType, RecordType DEF Record
    <3>3. Persist("update", t, r) /\ t \in known /\ UNCHANGED <<disk, known, running, resuming, stopped>>
      BY <2>5, <3>1 DEF RunUpdate, Books, TypeOK
    <3> HIDE DEF r
    <3> QED BY <1>3, <3>2, <3>3
  <2>6. CASE TreeEnds(t)
    <3>1. PICK i \in Tree, s \in {"Running", "Finished"} :
            <<t, i>> \in ending /\ Persist("update", t, [rec[t] EXCEPT !.trees[i] = s])
      BY <2>6 DEF TreeEnds
    <3> DEFINE r == [rec[t] EXCEPT !.trees[i] = s]
    <3>2. r \in Record
      BY <2>r, <3>1, RecordType DEF TreeStatus
    <3>3. r.meta = rec[t].meta
      BY <2>r DEF Record
    <3>4. Persist("update", t, r) /\ t \in known /\ UNCHANGED <<disk, known, running, resuming, stopped>>
      BY <2>6, <3>1 DEF TreeEnds, Books, TypeOK
    <3> HIDE DEF r
    <3> QED BY <1>3, <3>2, <3>3, <3>4
  <2>7. CASE FinishTask(t)
    <3> DEFINE r == [rec[t] EXCEPT !.meta.status = "Finished"]
    <3>1. r \in Record /\ r.meta.stop = rec[t].meta.stop
      <4>1. r.meta = [rec[t].meta EXCEPT !.status = "Finished"]
        BY <2>r DEF Record
      <4>2. r \in Record
        BY <2>r, RecordType
      <4>3. rec[t].meta \in Meta
        BY <2>r DEF Record
      <4> QED BY <4>1, <4>2, <4>3 DEF Meta
    <3>2. Persist("update", t, r) /\ t \in known /\ running' \subseteq running
          /\ UNCHANGED <<disk, known, resuming, stopped>>
      BY <2>7 DEF FinishTask, Books, TypeOK
    <3> HIDE DEF r
    <3> QED BY <1>3, <3>1, <3>2
  <2>8. CASE LoadTask(t)
    <3> DEFINE r == Recovered(t, disk[t])
    <3>1. disk[t].meta # <<>> /\ disk[t] \in Files /\ r \in Record
      BY <2>8, RecoveredType DEF LoadTask, Readable, Books, TypeOK
    <3>2. r.meta.stop = disk[t].meta[1].stop
      BY <3>1 DEF Recovered, Files, Meta
    <3>3. Persist("load", t, r) /\ known' = known \cup {t}
          /\ UNCHANGED <<disk, running, resuming, stopped>>
      BY <2>8 DEF LoadTask
    <3>4. t \in stopped => r.meta.stop = TRUE
      BY <3>1, <3>2 DEF StopRecorded
    <3> HIDE DEF r
    <3> QED BY <1>2, <3>1, <3>3, <3>4
  <2>9. CASE Resume(t)
    <3> DEFINE r == [rec[t] EXCEPT !.meta.status = "Running"]
    <3>1. r \in Record
      BY <2>r, RecordType
    <3>2. Persist("resume", t, r) /\ t \notin stopped /\ resuming' \subseteq resuming
          /\ UNCHANGED <<disk, known, running, stopped>>
      BY <2>9 DEF Resume, StopRecorded
    <3> HIDE DEF r
    <3> QED BY <1>2, <3>1, <3>2
  <2> QED BY <1>6, <2>1, <2>2, <2>3, <2>4, <2>5, <2>6, <2>7, <2>8, <2>9 DEF User, RunStep
<1>7. ASSUME NEW d \in drafts, AddTask(d) PROVE StopRecorded'
  <2> DEFINE r == [Blank EXCEPT !.meta.status = "Running", !.meta.engine = d.engine, !.messages = 1]
  <2>1. d.task \in Task /\ d.engine \in Engines /\ d.task \notin stopped
    BY DEF Books, TypeOK, Ids
  <2>2. r \in Record
    BY <2>1, RecordType
  <2>3. /\ Persist("create", d.task, r) /\ "create" \in TaskJobs /\ known' = known \cup {d.task}
        /\ UNCHANGED <<disk, running, resuming, stopped>>
    BY <1>7 DEF AddTask, TaskJobs
  <2> HIDE DEF r
  <2> QED BY <1>2, <2>1, <2>2, <2>3
<1>8. ASSUME NEW t \in Task, Removal(t) PROVE StopRecorded'
  <2>1. /\ \A u \in Task : disk'[u].meta \in {<<>>, disk[u].meta}
        /\ UNCHANGED <<rec, known, job, running, resuming, stopped, phase>>
    BY <1>8 DEF Removal, DeleteReturns, DeleteFails, Without, NoFiles, Books, TypeOK
  <2> QED BY <2>1 DEF StopRecorded, Books, TypeOK
<1>9. CASE (\E e \in Engines : UpdateSettings(e)) \/ Start
  <2>1. job'.kind \in {"settings", "first", "none"}
        /\ UNCHANGED <<rec, known, disk, running, resuming, stopped>>
    BY <1>9 DEF UpdateSettings, Start, NewJob, Books, Phases, NoJob
  <2> QED BY <2>1 DEF StopRecorded
<1>10. CASE Crash
  <2>1. PICK d \in Cut, gone \in [removing -> SUBSET TaskFiles] :
          disk' = [t \in Task |-> IF t \in removing THEN Without(d[t], gone[t]) ELSE d[t]]
    BY <1>10 DEF Crash
  <2>2. \A t \in Task : disk'[t].meta \in {<<>>, d[t].meta}
    BY <2>1 DEF Without
  <2>3. ASSUME NEW t \in stopped, disk'[t].meta # <<>> PROVE disk'[t].meta[1].stop = TRUE
    <3>1. t \in Task /\ (t = job.task => t \in known)
      BY DEF Books, TypeOK, JobTask
    <3>2. disk'[t].meta = d[t].meta
      BY <2>2, <2>3, <3>1
    <3> QED BY <2>3, <3>1, <3>2, CutMeta DEF StopRecorded
  <2>4. /\ job' = NoJob /\ known' = {} /\ running' = {} /\ resuming' = {}
        /\ stopped' = stopped
    BY <1>10 DEF Crash
  <2> QED BY <2>3, <2>4 DEF StopRecorded, NoJob
<1>11. CASE Loaded \/ Serve
  <2>1. CASE Loaded
    <3>1. stopped \cap Unfinished = {}
      BY DEF StopRecorded, Unfinished
    <3> QED BY <2>1, <3>1 DEF Loaded, Idle, NoJob, StopRecorded
  <2>2. CASE Serve
    BY <2>2 DEF Serve, Idle, NoJob, StopRecorded
  <2> QED BY <1>11, <2>1, <2>2
<1>12. CASE UNCHANGED vars
  BY <1>12 DEF vars, StopRecorded
<1> QED BY <1>4, <1>5, <1>6, <1>7, <1>8, <1>9, <1>10, <1>11, <1>12 DEF Next, BootStep

\* A stop that was reported done holds across crashes and disk faults until the
\* user withdraws it, for any number of tasks, crashes and disk errors.
THEOREM StopLasts == Spec => []StopOutlivesCrash
<1>1. Init => StopRecorded
  BY DEF Init, StopRecorded, NoJob
<1>2. StopRecorded => StopOutlivesCrash
  BY DEF StopRecorded, StopOutlivesCrash
<1> QED BY <1>1, <1>2, StopKept, BooksKept, SavedAlways, PTL DEF Spec

-----------------------------------------------------------------------------
(* Deletions and the reload.                                                *)

\* Only the files of a task of the map, or of one that is being removed, change.
LEMMA OtherFiles ==
  ASSUME Books, [Next]_vars, NEW t \in Task, t \notin known \cup removing
  PROVE  disk'[t] = disk[t]
<1> USE DEF serverVars, taskVars, runVars, handlerVars, diskVars, reported, reload
<1>0. job.task \in Task => job.task # t
  BY DEF Books, JobTask
<1>1. ASSUME NEW kinds, Written(kinds) PROVE disk'[t] = disk[t]
  BY <1>0, <1>1, WrittenType
<1>2. CASE Return
  BY <1>1, <1>2 DEF Return, UpdateReturns, StartReturns, StopReturns, ApplyNext, SettingsReturn,
                    FirstReturns
<1>3. CASE WriteFails
  BY <1>0, <1>3, CutType DEF WriteFails
<1>4. CASE \E u \in Task : User(u) \/ RunStep(u)
  BY <1>4 DEF User, ReadSettings, Continue, StopTask, DeleteTask, RunStep, RunUpdate, TreeEnds, FinishTask
<1>5. CASE \E u \in Task : Removal(u)
  BY <1>5 DEF Removal, DeleteReturns, DeleteFails, Books, TypeOK
<1>6. CASE (\E d \in drafts : AddTask(d)) \/ (\E e \in Engines : UpdateSettings(e)) \/ Start \/ BootStep
  BY <1>6 DEF AddTask, UpdateSettings, Start, BootStep, Loaded, Serve, LoadTask, Resume
<1>7. CASE Crash
  <2>1. PICK d \in Cut, gone \in [removing -> SUBSET TaskFiles] :
          disk' = [u \in Task |-> IF u \in removing THEN Without(d[u], gone[u]) ELSE d[u]]
    BY <1>7 DEF Crash
  <2> QED BY <1>0, <2>1, CutType
<1>8. CASE UNCHANGED vars
  BY <1>8 DEF vars
<1> QED BY <1>2, <1>3, <1>4, <1>5, <1>6, <1>7, <1>8 DEF Next

\* A task whose deletion was reported done is neither in the map nor on disk.
DeletedOffDisk == \A t \in deleted : t \notin known \cup removing /\ disk[t].meta = <<>>

\* A deleted id is never written, read or handed out again.
LEMMA DeletedKept == Books /\ Books' /\ DeletedOffDisk /\ [Next]_vars => DeletedOffDisk'
<1> SUFFICES ASSUME Books, Books', DeletedOffDisk, [Next]_vars, NEW t \in deleted'
             PROVE  t \notin known' \cup removing' /\ disk'[t].meta = <<>>
  BY DEF DeletedOffDisk
<1> USE DEF serverVars, taskVars, runVars, handlerVars, diskVars, reported, reload
<1>t. t \in Task
  BY DEF Books, TypeOK
<1>1. CASE t \notin deleted
  <2>1. DeleteReturns(t)
    BY <1>1 DEF Next, Return, UpdateReturns, StartReturns, StopReturns, ApplyNext, SettingsReturn,
                FirstReturns, WriteFails, User, ReadSettings, Continue, StopTask, DeleteTask,
                RunStep, RunUpdate, TreeEnds, FinishTask, Removal, DeleteReturns, DeleteFails,
                AddTask, UpdateSettings, Crash, Start, BootStep, Loaded, Serve, LoadTask, Resume, vars
  <2> QED BY <1>t, <2>1 DEF DeleteReturns, NoFiles, Books, TypeOK
<1>2. CASE t \in deleted
  <2>1. t \notin known \cup removing /\ disk'[t].meta = <<>>
    BY <1>2, <1>t, OtherFiles DEF DeletedOffDisk
  <2>2. \A d \in drafts : d.task # t
    BY <1>2 DEF Books, Ids
  <2>3. ~LoadTask(t)
    BY <1>2 DEF LoadTask, Readable, DeletedOffDisk
  <2>4. t \notin known' /\ t \notin removing'
    BY <2>1, <2>2, <2>3
    DEF Next, Return, UpdateReturns, StartReturns, StopReturns, ApplyNext, SettingsReturn,
        FirstReturns, WriteFails, User, ReadSettings, Continue, StopTask, DeleteTask,
        RunStep, RunUpdate, TreeEnds, FinishTask, Removal, DeleteReturns, DeleteFails,
        AddTask, UpdateSettings, Crash, Start, BootStep, Loaded, Serve, LoadTask, Resume, vars
  <2> QED BY <2>1, <2>4
<1> QED BY <1>1, <1>2

\* A task whose deletion was reported done never comes back, for any number of
\* tasks, crashes and disk errors.
THEOREM DeletedForGood == Spec => []DeletedStaysGone
<1>1. Init => DeletedOffDisk
  BY DEF Init, DeletedOffDisk
<1>2. DeletedOffDisk => DeletedStaysGone
  BY DEF DeletedOffDisk, DeletedStaysGone, Readable
<1> QED BY <1>1, <1>2, DeletedKept, BooksKept, PTL DEF Spec

\* What a reload has to restore of a task is in its files, and once it is loaded
\* in its record.
Owed ==
  /\ phase \in {"resume", "serve"} => \A t \in Task : owed[t] = <<>>
  /\ \A t \in Task : owed[t] # <<>> =>
       IF t \in known THEN owed[t] = <<rec[t]>>
       ELSE disk[t].meta # <<>> /\ owed[t] = <<Recovered(t, disk[t])>>

\* A clean task is owed by its files at a crash; nobody touches them until it is
\* loaded, nor its record until all are.
LEMMA OwedKept == Books /\ Books' /\ Saved /\ Owed /\ [Next]_vars => Owed'
<1> SUFFICES ASSUME Books, Books', Saved, Owed, [Next]_vars PROVE Owed'
  OBVIOUS
<1> USE DEF serverVars, taskVars, runVars, handlerVars, diskVars, reported, reload
<1>1. CASE Crash
  <2>1. PICK d \in Cut, gone \in [removing -> SUBSET TaskFiles] :
          disk' = [t \in Task |-> IF t \in removing THEN Without(d[t], gone[t]) ELSE d[t]]
    BY <1>1 DEF Crash
  <2>2. /\ phase' = "down" /\ known' = {}
        /\ owed' = [t \in Task |-> IF t \in clean THEN <<Restored(t, rec[t])>>
                                   ELSE IF t \in known \cup removing THEN <<>> ELSE owed[t]]
    BY <1>1 DEF Crash
  <2> SUFFICES ASSUME NEW t \in Task, owed'[t] # <<>>
               PROVE  disk'[t].meta # <<>> /\ owed'[t] = <<Recovered(t, disk'[t])>>
    BY <2>2 DEF Owed
  <2>3. CASE t \in clean
    <3>1. t \notin removing /\ t # job.task
      BY <2>3 DEF Books, TypeOK, Saved, JobFiles
    <3>2. disk'[t] = Image(rec[t])
      BY <2>1, <2>3, <3>1, CutType DEF Saved, CleanOnDisk
    <3>3. Restored(t, rec[t]) = Recovered(t, Image(rec[t]))
      BY DEF Restored, Recovered, Image
    <3> QED BY <2>2, <2>3, <3>2, <3>3 DEF Image
  <2>4. CASE t \notin clean
    <3>1. t \notin known \cup removing /\ owed'[t] = owed[t]
      BY <2>2, <2>4
    <3> QED BY <3>1, OtherFiles DEF Owed
  <2> QED BY <2>3, <2>4
\* At work nothing is owed.
<1>2. CASE Up /\ ~Crash
  <2>1. owed' = owed
    BY <1>2 DEF Up, Next, Return, UpdateReturns, StartReturns, StopReturns, ApplyNext, SettingsReturn,
                FirstReturns, WriteFails, User, ReadSettings, Continue, StopTask, DeleteTask,
                RunStep, RunUpdate, TreeEnds, FinishTask, Removal, DeleteReturns, DeleteFails,
                AddTask, UpdateSettings, Start, BootStep, Loaded, Serve, LoadTask, Resume, vars
  <2> QED BY <1>2, <2>1 DEF Owed, Up
<1>3. CASE ~Up /\ ~Crash
  <2>1. CASE Loaded
    BY <2>1 DEF Loaded, Owed
  <2>2. ASSUME NEW u \in Task, LoadTask(u) PROVE Owed'
    <3>1. /\ u \notin known /\ disk[u].meta # <<>> /\ known' = known \cup {u}
          /\ Persist("load", u, Recovered(u, disk[u]))
          /\ UNCHANGED <<disk, owed, phase>>
      BY <2>2 DEF LoadTask, Readable
    <3>2. \A t \in Task : rec'[t] = IF t = u THEN Recovered(u, disk[u]) ELSE rec[t]
      BY <3>1 DEF Persist, Books, TypeOK
    <3> QED BY <2>2, <3>1, <3>2 DEF Owed
  <2>3. CASE UpdateReturns \/ FirstReturns \/ WriteFails \/ Start \/ UNCHANGED vars
    <3>1. UNCHANGED <<rec, known, owed>> /\ phase' \notin {"resume", "serve"}
      BY <1>3, <2>3 DEF UpdateReturns, FirstReturns, WriteFails, Start, Up, vars, Books, TypeOK
    <3>2. removing = {}
      BY <1>3 DEF Books, Phases, Up
    <3> QED BY <3>1, <3>2, OtherFiles DEF Owed
  <2>4. Loaded \/ (\E u \in Task : LoadTask(u)) \/ UpdateReturns \/ FirstReturns \/ WriteFails
        \/ Start \/ UNCHANGED vars
    <3>1. job.kind \in {"none", "first", "load"} /\ running = {} /\ ending = {} /\ drafts = {}
          /\ removing = {} /\ resuming = {}
      BY <1>3 DEF Books, TypeOK, Phases, Up, NoJob
    <3>2. ~StartReturns /\ ~StopReturns /\ ~ApplyNext /\ ~SettingsReturn
      BY <3>1 DEF StartReturns, StopReturns, ApplyNext, SettingsReturn, Written
    <3>3. \A u \in Task : ~User(u) /\ ~RunStep(u) /\ ~Removal(u) /\ ~Resume(u)
      BY <1>3, <3>1 DEF User, ReadSettings, Continue, StopTask, DeleteTask, RunStep, RunUpdate,
                        TreeEnds, FinishTask, Removal, DeleteReturns, DeleteFails, Resume, Free, Up
    <3>4. ~Serve /\ \A e \in Engines : ~UpdateSettings(e)
      BY <1>3 DEF Serve, UpdateSettings, Free, Up
    <3> QED BY <1>3, <3>1, <3>2, <3>3, <3>4 DEF Next, Return, BootStep
  <2> QED BY <2>1, <2>2, <2>3, <2>4
<1> QED BY <1>1, <1>2, <1>3

\* A restart gives back every task that was not being written at the crash, for
\* any number of tasks, crashes and disk errors.
THEOREM ReloadComplete == Spec => ReloadRestores
<1>1. Init => Owed
  BY DEF Init, Owed
<1>2. Spec => []Owed
  BY <1>1, OwedKept, BooksKept, SavedAlways, PTL DEF Spec
<1>3. Owed /\ Loaded => \A t \in Task : owed[t] # <<>> => t \in known /\ <<rec[t]>> = owed[t]
  BY DEF Owed, Loaded, Readable
<1> QED BY <1>2, <1>3, PTL DEF Spec, ReloadRestores

-----------------------------------------------------------------------------
(* The tasks that are resumed.                                              *)

\* Until the server serves, an unfinished task runs, is on the list of
\* ResumeUnfinished, or is being set Running.
Resumable ==
  phase = "resume" =>
    \A t \in Unfinished : t \in running \cup resuming \/ (job.kind = "resume" /\ job.task = t)

\* A task leaves the list only to be started, with or without a disk error.
LEMMA ResumableKept == Books /\ Books' /\ Resumable /\ [Next]_vars => Resumable'
<1> SUFFICES ASSUME Books, Books', Resumable, [Next]_vars, phase' = "resume",
                    NEW t \in Unfinished'
             PROVE  t \in running' \cup resuming' \/ (job'.kind = "resume" /\ job'.task = t)
  BY DEF Resumable
<1> USE DEF serverVars, taskVars, runVars, handlerVars, diskVars, reported, reload
<1>t. t \in Task /\ t \in known' /\ rec'[t].meta.status = "Running" /\ ~rec'[t].meta.stop
  BY DEF Unfinished, Books, TypeOK
<1>1. CASE Loaded
  BY <1>1 DEF Loaded, Unfinished
<1>2. CASE ~Loaded
  <2>0. phase = "resume"
    BY <1>2 DEF Next, Return, UpdateReturns, StartReturns, StopReturns, ApplyNext, SettingsReturn,
                FirstReturns, WriteFails, User, ReadSettings, Continue, StopTask, DeleteTask,
                RunStep, RunUpdate, TreeEnds, FinishTask, Removal, DeleteReturns, DeleteFails,
                AddTask, UpdateSettings, Crash, Start, BootStep, Serve, LoadTask, Resume, vars
  <2>1. /\ drafts = {} /\ removing = {}
        /\ job.kind \in {"none", "load", "update", "resume"}
    BY <2>0 DEF Books, Phases
  \* The task stays unfinished and nothing of it changes hands.
  <2>2. ASSUME UNCHANGED <<known, rec, resuming>>, running \subseteq running',
               job.kind = "resume" => job' = job \/ (job'.kind = "resume" /\ job'.task = job.task)
                                      \/ job.task \in running'
        PROVE  t \in running' \cup resuming' \/ (job'.kind = "resume" /\ job'.task = t)
    BY <2>0, <2>2 DEF Resumable, Unfinished
  <2>3. CASE Return
    <3>1. ~StopReturns /\ ~ApplyNext /\ ~SettingsReturn /\ ~FirstReturns
      BY <2>1 DEF StopReturns, ApplyNext, SettingsReturn, FirstReturns, Written
    <3>2. CASE UpdateReturns
      BY <2>2, <3>2, WrittenType DEF UpdateReturns
    <3>3. CASE StartReturns
      BY <2>2, <3>3, WrittenType DEF StartReturns, StartRun, NoRun
    <3> QED BY <2>3, <3>1, <3>2, <3>3 DEF Return
  <2>4. CASE WriteFails
    <3>1. job'.kind = job.kind /\ job'.task = job.task
      BY <2>4 DEF WriteFails, Books, TypeOK, Jobs
    <3> QED BY <2>2, <2>4, <3>1 DEF WriteFails
  \* One record changes while nobody holds the lock.
  <2>5. ASSUME NEW u \in Task, NEW r \in Record, NEW kind \in TaskJobs, Persist(kind, u, r),
               Idle, known' = known,
               u # t => UNCHANGED resuming \/ resuming' = resuming \ {u},
               u # t => UNCHANGED running \/ running' = running \ {u},
               u = t => r.meta.status = "Finished" \/ kind = "resume"
                        \/ (r.meta = rec[t].meta /\ UNCHANGED <<running, resuming>>)
        PROVE  t \in running' \cup resuming' \/ (job'.kind = "resume" /\ job'.task = t)
    <3>1. job.kind = "none"
      BY <2>5 DEF Idle, NoJob
    <3>2. CASE u = t
      BY <1>t, <2>0, <2>5, <3>1, <3>2, PersistType DEF Resumable, Unfinished
    <3>3. CASE u # t
      <4>1. rec'[t] = rec[t] /\ t \in Unfinished
        BY <1>t, <2>5, <3>3, PersistType DEF Unfinished
      <4> QED BY <2>0, <2>5, <3>1, <3>3, <4>1 DEF Resumable
    <3> QED BY <3>2, <3>3
  <2>6. ASSUME NEW u \in Task, RunStep(u) \/ Resume(u)
        PROVE  t \in running' \cup resuming' \/ (job'.kind = "resume" /\ job'.task = t)
    <3> USE DEF TaskJobs, Free
    <3>r. rec[u] \in Record
      BY DEF Books, TypeOK
    <3>1. CASE RunUpdate(u)
      <4>1. PICK trees \in {rec[u].trees} \cup TreeSteps(u) :
              Persist("update", u, [rec[u] EXCEPT !.trees = trees])
        BY <3>1 DEF RunUpdate
      <4> DEFINE r == [rec[u] EXCEPT !.trees = trees]
      <4>2. r \in Record /\ r.meta = rec[u].meta
        BY <3>r, <4>1, TreesType, RecordType DEF Record
      <4>3. Persist("update", u, r) /\ Idle /\ UNCHANGED <<known, running, resuming>>
        BY <3>1, <4>1 DEF RunUpdate
      <4> HIDE DEF r
      <4> QED BY <2>5, <4>2, <4>3
    <3>2. CASE TreeEnds(u)
      <4>1. PICK i \in Tree, s \in {"Running", "Finished"} :
              Persist("update", u, [rec[u] EXCEPT !.trees[i] = s])
        BY <3>2 DEF TreeEnds
      <4> DEFINE r == [rec[u] EXCEPT !.trees[i] = s]
      <4>2. r \in Record
        BY <3>r, <4>1, RecordType DEF TreeStatus
      <4>3. r.meta = rec[u].meta
        BY <3>r DEF Record
      <4>4. Persist("update", u, r) /\ Idle /\ UNCHANGED <<known, running, resuming>>
        BY <3>2, <4>1 DEF TreeEnds
      <4> HIDE DEF r
      <4> QED BY <2>5, <4>2, <4>3, <4>4
    <3>3. CASE FinishTask(u)
      <4> DEFINE r == [rec[u] EXCEPT !.meta.status = "Finished"]
      <4>1. r \in Record
        BY <3>r, RecordType
      <4>2. r.meta.status = "Finished"
        BY <3>r DEF Record, Meta
      <4>3. Persist("update", u, r) /\ Idle /\ UNCHANGED <<known, resuming>> /\ running' = running \ {u}
        BY <3>3 DEF FinishTask
      <4> HIDE DEF r
      <4> QED BY <2>5, <4>1, <4>2, <4>3
    <3>4. CASE Resume(u)
      <4> DEFINE r == [rec[u] EXCEPT !.meta.status = "Running"]
      <4>1. r \in Record
        BY <3>r, RecordType
      <4>2. /\ Persist("resume", u, r) /\ Idle /\ UNCHANGED <<known, running>>
            /\ resuming' = resuming \ {u}
        BY <3>4 DEF Resume
      <4> HIDE DEF r
      <4> QED BY <2>5, <4>1, <4>2
    <3> QED BY <2>6, <3>1, <3>2, <3>3, <3>4 DEF RunStep
  <2>7. \/ Return \/ WriteFails \/ UNCHANGED vars
        \/ \E u \in Task : RunStep(u) \/ Resume(u)
    <3>1. \A u \in Task : ~User(u) /\ ~Removal(u) /\ ~LoadTask(u)
      BY <2>0, <2>1 DEF User, ReadSettings, Continue, StopTask, DeleteTask, Removal, DeleteReturns,
                        DeleteFails, LoadTask
    <3>2. ~Serve /\ ~Start /\ ~Crash /\ \A e \in Engines : ~UpdateSettings(e)
      BY <2>0 DEF Serve, Start, Crash, UpdateSettings
    <3> QED BY <1>2, <2>1, <3>1, <3>2 DEF Next, BootStep
  <2>8. CASE UNCHANGED vars
    BY <2>2, <2>8 DEF vars
  <2> QED BY <2>3, <2>4, <2>6, <2>7, <2>8
<1> QED BY <1>1, <1>2

\* When the server comes to serve, every unfinished task it loaded has a run, for
\* any number of tasks, crashes and disk errors.
THEOREM UnfinishedResumed == Spec => ResumesUnfinished
<1>1. Init => Resumable
  BY DEF Init, Resumable
<1>2. Spec => []Resumable
  BY <1>1, ResumableKept, BooksKept, PTL DEF Spec
<1>3. Resumable /\ Serve => Unfinished \subseteq running
  BY DEF Resumable, Serve, Idle, NoJob
<1> QED BY <1>2, <1>3, PTL DEF Spec, ResumesUnfinished

-----------------------------------------------------------------------------
(* The engine of the tasks and of the settings.                             *)

\* The engine the settings have, or will have once they are loaded.
Engine == IF phase \in {"down", "settings"} /\ disk0 \in Engines THEN disk0 ELSE settings

\* Before the server serves, memory and settings.json agree.
SettingsLoaded ==
  /\ phase \in {"down", "settings"} => settings = "codex"
  /\ phase \in {"load", "resume"} => disk0 = settings
  /\ phase = "settings" => disk0 \in {"absent", "torn", "codex"}
  /\ job.kind = "first" => \/ job.ok = TRUE /\ job.todo = {SettingsFile} /\ disk0 = "absent"
                           \/ job.ok = FALSE /\ job.todo = {}

\* A task in the map or on disk that has another engine has drifted.
Drift ==
  /\ SettingsLoaded
  /\ job.kind # "settings" => Behind \subseteq drifted
  /\ phase \in {"down", "settings", "load"} /\ disk0 # "torn" =>
       \A t \in Task \ (drifted \cup known) :
         disk[t].meta # <<>> => disk[t].meta[1].engine = Engine

\* The settings change in the file with memory, until the server serves.
LEMMA SettingsKept == Books /\ Books' /\ SettingsLoaded /\ [Next]_vars => SettingsLoaded'
<1> SUFFICES ASSUME Books, Books', SettingsLoaded, [Next]_vars PROVE SettingsLoaded'
  OBVIOUS
<1> USE DEF serverVars, taskVars, runVars, handlerVars, diskVars, reported, reload
<1>0. ASSUME UNCHANGED <<phase, settings, disk0>>, job'.kind = "first" => job' = job
      PROVE  SettingsLoaded'
  BY <1>0 DEF SettingsLoaded
<1>n. NoJob.kind = "none"
  BY DEF NoJob
<1>1. CASE Return
  <2>1. ASSUME NEW kinds, Written(kinds), kinds \cap {"none", "first"} = {},
               UNCHANGED <<phase, settings>>, job'.kind # "first"
        PROVE  SettingsLoaded'
    <3>1. CASE job.task = NoTask
      <4>1. job.kind = "settings"
        <5>1. job.kind # "first" /\ job.kind \notin TaskJobs
          BY <2>1, <3>1, TaskAssumption, WrittenType DEF Books, JobTask
        <5>2. job.kind # "none"
          BY <2>1, WrittenType
        <5> QED BY <5>1, <5>2 DEF Books, TypeOK, Jobs, TaskJobs
      <4>2. phase = "serve"
        BY <4>1 DEF Books, Phases, TypeOK, NoJob
      <4> QED BY <2>1, <4>2 DEF SettingsLoaded
    <3>2. CASE job.task # NoTask
      BY <1>0, <2>1, <3>2 DEF Written
    <3> QED BY <3>1, <3>2
  <2>2. CASE ApplyNext
    BY <2>1, <2>2 DEF ApplyNext, NewJob
  <2>3. CASE FirstReturns
    <3>1. job.kind = "first" /\ job.task = NoTask /\ phase = "settings"
      BY <2>3, WrittenType, TaskAssumption DEF FirstReturns, Books, JobTask, TypeOK, Jobs, Phases, NoJob
    <3>2. disk0' = IF job.todo = {} THEN disk0 ELSE settings
      BY <2>3, <3>1 DEF FirstReturns, Written
    <3> QED BY <1>n, <2>3, <3>1, <3>2 DEF FirstReturns, Unlock, SettingsLoaded
  <2>4. CASE UpdateReturns \/ StartReturns \/ StopReturns \/ SettingsReturn
    BY <1>n, <2>1, <2>4 DEF UpdateReturns, StartReturns, StopReturns, SettingsReturn, Unlock
  <2> QED BY <1>1, <2>2, <2>3, <2>4 DEF Return
<1>2. CASE WriteFails
  <2>1. /\ disk0' \in Cut0 /\ UNCHANGED <<phase, settings>>
        /\ job'.kind = job.kind /\ job'.ok = FALSE /\ job'.todo = {}
    BY <1>2 DEF WriteFails, Books, TypeOK, Jobs
  <2>2. disk0' \in {disk0, "torn", settings}
    BY <2>1 DEF Cut0
  <2>3. phase \in {"load", "resume"} => disk0' = disk0
    <3>1. ASSUME phase \in {"load", "resume"} PROVE job.kind \in TaskJobs \/ job = NoJob
      BY <3>1 DEF Books, Phases, JobTask, TaskJobs
    <3>2. job.kind \in TaskJobs => job.todo # {SettingsFile}
      BY FileNumbers DEF Books, JobTask
    <3> QED BY <2>1, <3>1, <3>2 DEF Cut0, NoJob
  <2> QED BY <2>1, <2>2, <2>3 DEF SettingsLoaded
<1>3. ASSUME NEW t \in Task, User(t) \/ RunStep(t) \/ LoadTask(t) \/ Resume(t) \/ Removal(t)
      PROVE  SettingsLoaded'
  <2>1. ASSUME NEW r, NEW kind \in TaskJobs, Persist(kind, t, r), UNCHANGED <<phase, settings, disk0>>
        PROVE  SettingsLoaded'
    BY <1>0, <2>1 DEF Persist, NewJob, TaskJobs
  <2>2. CASE ReadSettings(t) \/ DeleteTask(t) \/ Removal(t)
    BY <1>0, <2>2 DEF ReadSettings, DeleteTask, Removal, DeleteReturns, DeleteFails
  <2>3. CASE Continue(t) \/ StopTask(t) \/ LoadTask(t) \/ Resume(t) \/ FinishTask(t)
    BY <2>1, <2>3 DEF Continue, StopTask, LoadTask, Resume, FinishTask, TaskJobs
  <2>4. CASE RunUpdate(t) \/ TreeEnds(t)
    BY <2>1, <2>4 DEF RunUpdate, TreeEnds, TaskJobs
  <2> QED BY <1>3, <2>2, <2>3, <2>4 DEF User, RunStep
<1>4. ASSUME NEW d \in drafts, AddTask(d) PROVE SettingsLoaded'
  BY <1>0, <1>4 DEF AddTask, Persist, NewJob
<1>5. CASE \E e \in Engines : UpdateSettings(e)
  BY <1>5 DEF UpdateSettings, NewJob, SettingsLoaded
<1>6. CASE Start
  BY <1>6 DEF Start, NewJob, SettingsLoaded, Books, TypeOK, Phases, NoJob
<1>7. CASE Loaded \/ Serve \/ Crash \/ UNCHANGED vars
  BY <1>7, <1>n DEF Loaded, Serve, Crash, vars, Idle, SettingsLoaded
<1> QED BY <1>1, <1>2, <1>3, <1>4, <1>5, <1>6, <1>7 DEF Next, BootStep

\* The engine of a task changes with the settings, or is known to have drifted.
LEMMA DriftKept == Books /\ Books' /\ Saved /\ Drift /\ [Next]_vars => Drift'
<1> SUFFICES ASSUME Books, Books', Saved, Drift, [Next]_vars PROVE Drift'
  OBVIOUS
<1> USE DEF serverVars, taskVars, runVars, handlerVars, diskVars, reported, reload
<1>s. SettingsLoaded /\ SettingsLoaded'
  BY SettingsKept DEF Drift
<1>k. ASSUME NEW kinds, Written(kinds), kinds \subseteq TaskJobs PROVE disk0' = disk0 /\ job.kind # "settings"
  <2>1. job.task # NoTask
    BY <1>k, WrittenType, TaskAssumption DEF Books, JobTask
  <2> QED BY <1>k, <2>1, WrittenType DEF Written, TaskJobs
\* The tasks of the map keep their engine, or a task of the server at work does not.
<1>1. ASSUME phase' = phase, settings' = settings, drifted \subseteq drifted',
             phase = "serve" \/ known' = known,
             phase = "serve" \/ disk0' = disk0 \/ (phase = "settings" /\ disk0 = "absent"),
             job'.kind # "settings" => Behind' \subseteq drifted'
      PROVE  Drift'
  <2>1. ASSUME phase \in {"down", "settings", "load"}, disk0' # "torn",
               NEW t \in Task \ (drifted' \cup known'), disk'[t].meta # <<>>
        PROVE  disk'[t].meta[1].engine = Engine'
    <3>1. t \notin known \cup removing /\ t \notin drifted /\ disk'[t] = disk[t]
      BY <1>1, <2>1, OtherFiles DEF Books, Phases
    <3>2. disk0 # "torn" /\ Engine' = Engine
      BY <1>1, <1>s, <2>1 DEF SettingsLoaded, Engine, Engines
    <3> QED BY <2>1, <3>1, <3>2 DEF Drift
  <2> QED BY <1>1, <1>s, <2>1 DEF Drift
<1>2. ASSUME UNCHANGED <<phase, settings, disk0>>, drifted \subseteq drifted',
             job.kind # "settings", known' \subseteq known,
             phase = "serve" \/ known' = known,
             \A t \in known : rec'[t].meta.engine = rec[t].meta.engine \/ t \notin known'
      PROVE  Drift'
  <2>1. Behind' \subseteq Behind
    BY <1>2 DEF Behind
  <2> QED BY <1>1, <1>2, <2>1 DEF Drift
<1>3. CASE Return
  <2>1. CASE UpdateReturns \/ StartReturns \/ StopReturns
    <3>1. disk0' = disk0 /\ job.kind # "settings"
      BY <1>k, <2>1 DEF UpdateReturns, StartReturns, StopReturns, TaskJobs
    <3> QED BY <1>2, <2>1, <3>1 DEF UpdateReturns, StartReturns, StopReturns
  <2>2. CASE ApplyNext
    <3>1. job'.kind = "settings" /\ UNCHANGED <<phase, settings, drifted, known>>
      BY <2>2 DEF ApplyNext, NewJob
    <3>2. phase = "serve"
      BY <2>2 DEF ApplyNext, Written, Books, Phases, TypeOK, NoJob
    <3> QED BY <1>1, <3>1, <3>2
  <2>3. CASE SettingsReturn
    <3>1. /\ Behind' = Behind /\ UNCHANGED <<phase, settings, known>>
          /\ drifted' = IF job.ok THEN {} ELSE drifted \cup Behind
          /\ job.ok => Behind = {}
      BY <2>3 DEF SettingsReturn, Behind
    <3>2. phase = "serve"
      BY <2>3 DEF SettingsReturn, Written, Books, Phases, TypeOK, NoJob
    <3>3. CASE job.ok
      BY <1>s, <3>1, <3>2, <3>3 DEF Drift
    <3>4. CASE ~job.ok
      BY <1>1, <3>1, <3>2, <3>4
    <3> QED BY <3>3, <3>4
  <2>4. CASE FirstReturns
    <3>1. /\ job.kind = "first" /\ job.task = NoTask /\ phase = "settings" /\ known = {} /\ removing = {}
          /\ settings = "codex"
      BY <2>4, <1>s, WrittenType, TaskAssumption
      DEF FirstReturns, Books, JobTask, TypeOK, Jobs, Phases, NoJob, SettingsLoaded
    <3>2. /\ UNCHANGED <<settings, known, rec, drifted>> /\ phase' = IF job.ok THEN "load" ELSE "down"
          /\ disk0' = (IF job.todo = {} THEN disk0 ELSE settings)
          /\ \A t \in Task : disk'[t] = disk[t]
      BY <2>4, <3>1, OtherFiles DEF FirstReturns, Written
    <3>3. disk0' # "torn" => disk0 # "torn" /\ Engine' = Engine
      BY <1>s, <3>1, <3>2 DEF SettingsLoaded, Engine, Engines
    <3> QED BY <1>s, <3>1, <3>2, <3>3 DEF Drift, Behind
  <2> QED BY <1>3, <2>1, <2>2, <2>3, <2>4 DEF Return
<1>4. CASE WriteFails
  <2>1. /\ job'.kind = job.kind /\ disk0' \in Cut0 /\ job.todo # {}
        /\ UNCHANGED <<phase, settings, known, rec, drifted>>
    BY <1>4 DEF WriteFails, Books, TypeOK, Jobs
  <2>2. phase = "serve" \/ disk0' = disk0 \/ (phase = "settings" /\ disk0 = "absent")
    <3>1. CASE job.kind = "first"
      BY <1>s, <2>1, <3>1 DEF SettingsLoaded, Books, TypeOK, Phases, NoJob
    <3>2. CASE job.kind \in TaskJobs
      <4>1. job.todo # {SettingsFile}
        BY <3>2, FileNumbers DEF Books, JobTask
      <4> QED BY <2>1, <4>1 DEF Cut0
    <3>3. CASE job.kind = "settings"
      BY <3>3 DEF Books, TypeOK, Phases, NoJob
    <3>4. job.kind # "none"
      BY <2>1 DEF Books, JobTask, NoJob
    <3> QED BY <3>1, <3>2, <3>3, <3>4 DEF Books, TypeOK, Jobs, TaskJobs
  <2>3. Behind' = Behind
    BY <2>1 DEF Behind
  <2> QED BY <1>1, <2>1, <2>2, <2>3 DEF Drift
<1>5. ASSUME NEW t \in Task, User(t) \/ RunStep(t) \/ Resume(t) PROVE Drift'
  <2>r. rec[t] \in Record /\ rec \in [Task -> Record] /\ known \subseteq Task
    BY DEF Books, TypeOK
  <2>i. job.kind # "settings"
    BY <1>5 DEF User, ReadSettings, Continue, StopTask, DeleteTask, RunStep, RunUpdate, TreeEnds,
                FinishTask, Resume, Free, Idle, NoJob
  \* A record changes, its engine does not.
  <2>1. ASSUME NEW r, NEW kind, Persist(kind, t, r), r.meta.engine = rec[t].meta.engine,
               UNCHANGED <<phase, settings, disk0, known, drifted>>
        PROVE  Drift'
    <3>1. \A u \in known : rec'[u].meta.engine = rec[u].meta.engine
      BY <2>r, <2>1 DEF Persist
    <3> QED BY <1>2, <2>i, <2>1, <3>1
  <2>2. CASE ReadSettings(t)
    BY <1>2, <2>2, <2>i DEF ReadSettings
  <2>3. CASE DeleteTask(t)
    BY <1>2, <2>3, <2>i, <2>r DEF DeleteTask
  <2>4. CASE Continue(t)
    <3> DEFINE r == [rec[t] EXCEPT !.meta.status = "Running", !.meta.stop = FALSE, !.messages = @ + 1]
    <3>1. r.meta = [rec[t].meta EXCEPT !.status = "Running", !.stop = FALSE]
      BY <2>r DEF Record
    <3>2. r.meta.engine = rec[t].meta.engine
      BY <2>r, <3>1 DEF Record, Meta
    <3>3. Persist("continue", t, r) /\ UNCHANGED <<phase, settings, disk0, known, drifted>>
      BY <2>4 DEF Continue
    <3> HIDE DEF r
    <3> QED BY <2>1, <3>2, <3>3
  <2>5. CASE StopTask(t)
    <3> DEFINE r == [rec[t] EXCEPT !.meta.status = "Finished", !.meta.stop = TRUE, !.trees = EndTrees(@)]
    <3>1. r.meta = [rec[t].meta EXCEPT !.status = "Finished", !.stop = TRUE]
      BY <2>r DEF Record
    <3>2. r.meta.engine = rec[t].meta.engine
      BY <2>r, <3>1 DEF Record, Meta
    <3>3. Persist("stop", t, r) /\ UNCHANGED <<phase, settings, disk0, known, drifted>>
      BY <2>5 DEF StopTask
    <3> HIDE DEF r
    <3> QED BY <2>1, <3>2, <3>3
  <2>6. CASE RunUpdate(t)
    <3>1. PICK trees \in {rec[t].trees} \cup TreeSteps(t) :
            Persist("update", t, [rec[t] EXCEPT !.trees = trees])
      BY <2>6 DEF RunUpdate
    <3>2. [rec[t] EXCEPT !.trees = trees].meta = rec[t].meta
      BY <2>r DEF Record
    <3> QED BY <2>1, <2>6, <3>1, <3>2 DEF RunUpdate
  <2>7. CASE TreeEnds(t)
    <3>1. PICK i \in Tree, s \in {"Running", "Finished"} :
            Persist("update", t, [rec[t] EXCEPT !.trees[i] = s])
      BY <2>7 DEF TreeEnds
    <3>2. [rec[t] EXCEPT !.trees[i] = s].meta = rec[t].meta
      BY <2>r DEF Record
    <3> QED BY <2>1, <2>7, <3>1, <3>2 DEF TreeEnds
  <2>8. CASE FinishTask(t) \/ Resume(t)
    <3>1. ASSUME NEW s \in {"Running", "Finished"}
          PROVE  [rec[t] EXCEPT !.meta.status = s].meta.engine = rec[t].meta.engine
      <4>1. [rec[t] EXCEPT !.meta.status = s].meta = [rec[t].meta EXCEPT !.status = s]
        BY <2>r DEF Record
      <4> QED BY <2>r, <4>1 DEF Record, Meta
    <3> QED BY <2>1, <2>8, <3>1 DEF FinishTask, Resume
  <2> QED BY <1>5, <2>2, <2>3, <2>4, <2>5, <2>6, <2>7, <2>8 DEF User, RunStep
<1>6. ASSUME NEW d \in drafts, AddTask(d) PROVE Drift'
  <2> DEFINE r == [Blank EXCEPT !.meta.status = "Running", !.meta.engine = d.engine, !.messages = 1]
  <2>1. d.task \in Task /\ phase = "serve" /\ job.kind = "none" /\ d.task \notin known
    BY <1>6 DEF AddTask, Free, Idle, NoJob, Books, TypeOK, Phases, Ids
  <2>2. r.meta.engine = d.engine
    BY DEF Blank
  <2>3. /\ Persist("create", d.task, r) /\ known' = known \cup {d.task}
        /\ UNCHANGED <<phase, settings, disk0>>
        /\ drifted' = IF d.engine = settings THEN drifted ELSE drifted \cup {d.task}
    BY <1>6 DEF AddTask
  <2> HIDE DEF r
  <2>4. \A u \in known' : u # d.task => u \in known /\ rec'[u] = rec[u]
    BY <2>1, <2>3 DEF Persist, Books, TypeOK
  <2>5. rec'[d.task] = r
    BY <2>1, <2>3 DEF Persist, Books, TypeOK
  <2>6. Behind' \subseteq drifted'
    BY <2>1, <2>2, <2>3, <2>4, <2>5 DEF Behind, Drift
  <2> QED BY <1>1, <2>1, <2>3, <2>6
<1>7. ASSUME NEW t \in Task, LoadTask(t) PROVE Drift'
  <2>1. /\ phase = "load" /\ job.kind = "none" /\ t \notin known /\ disk[t].meta # <<>> /\ disk[t] \in Files
        /\ known' = known \cup {t}
        /\ rec' = [rec EXCEPT ![t] = Recovered(t, disk[t])]
        /\ UNCHANGED <<phase, settings, disk, disk0, drifted>>
    BY <1>7 DEF LoadTask, Idle, NoJob, Readable, Persist, Books, TypeOK
  <2>2. Recovered(t, disk[t]).meta.engine = disk[t].meta[1].engine
    BY <2>1 DEF Recovered, Files, Meta
  <2>3. disk0 # "torn" /\ Engine = settings
    BY <1>s, <2>1 DEF SettingsLoaded, Engine, Books, TypeOK, Engines
  <2>4. t \in drifted \/ disk[t].meta[1].engine = settings
    BY <2>1, <2>3 DEF Drift
  <2>5. rec'[t].meta.engine = disk[t].meta[1].engine /\ \A u \in known : rec'[u] = rec[u]
    BY <2>1, <2>2 DEF Books, TypeOK
  <2>6. Behind' \subseteq drifted'
    BY <2>1, <2>4, <2>5 DEF Behind, Drift
  <2>7. Engine' = Engine
    BY <2>1 DEF Engine
  <2> QED BY <1>s, <2>1, <2>6, <2>7 DEF Drift
<1>8. ASSUME NEW t \in Task, Removal(t) PROVE Drift'
  <2>1. phase = "serve" /\ UNCHANGED <<phase, settings, disk0, known, rec, drifted, job>>
    BY <1>8 DEF Removal, DeleteReturns, DeleteFails, Books, Phases
  <2>2. Behind' = Behind
    BY <2>1 DEF Behind
  <2> QED BY <1>1, <2>1, <2>2 DEF Drift
<1>9. CASE \E e \in Engines : UpdateSettings(e)
  BY <1>9, <1>s DEF UpdateSettings, NewJob, Drift
<1>10. CASE Start
  <2>1. known = {} /\ settings = "codex"
    BY <1>10, <1>s DEF Start, Books, Phases, SettingsLoaded
  <2>2. Engine' = Engine /\ disk0 # "torn" /\ phase = "down"
    BY <1>10, <2>1 DEF Start, Engine, Engines, Books, TypeOK
  <2>3. UNCHANGED <<known, disk, disk0, drifted>> /\ phase' \in {"settings", "load"}
    BY <1>10 DEF Start
  <2>4. Behind' = {}
    BY <2>1, <2>3 DEF Behind
  <2> QED BY <1>s, <2>1, <2>2, <2>3, <2>4 DEF Drift
<1>11. CASE Loaded \/ Serve
  BY <1>11, <1>s DEF Loaded, Serve, Drift, Behind
<1>12. CASE Crash
  <2>1. PICK d \in Cut, gone \in [removing -> SUBSET TaskFiles] :
          disk' = [t \in Task |-> IF t \in removing THEN Without(d[t], gone[t]) ELSE d[t]]
    BY <1>12 DEF Crash
  <2>2. /\ phase' = "down" /\ settings' = "codex" /\ known' = {}
        /\ drifted' = IF disk0' # settings THEN Task ELSE drifted \cup Behind \cup (Task \ clean)
    BY <1>12 DEF Crash
  <2>3. Behind' = {}
    BY <2>2 DEF Behind
  <2>4. ASSUME NEW t \in Task \ drifted', disk'[t].meta # <<>>
        PROVE  disk'[t].meta[1].engine = Engine'
    <3>1. disk0' = settings /\ t \in clean /\ t \notin Behind
      BY <2>2, <2>4
    <3>2. t \in known /\ t \notin removing /\ t # job.task
      BY <3>1 DEF Books, TypeOK, Saved, JobFiles
    <3>3. disk'[t] = Image(rec[t])
      BY <2>1, <3>1, <3>2, CutType DEF Saved, CleanOnDisk
    <3>4. Engine' = settings
      BY <2>2, <3>1 DEF Engine, Books, TypeOK
    <3> QED BY <3>1, <3>2, <3>3, <3>4 DEF Image, Behind
  <2> QED BY <1>s, <2>2, <2>3, <2>4 DEF Drift
<1>13. CASE UNCHANGED vars
  BY <1>13, <1>s DEF vars, Drift, Behind, Engine
<1> QED BY <1>3, <1>4, <1>5, <1>6, <1>7, <1>8, <1>9, <1>10, <1>11, <1>12, <1>13 DEF Next, BootStep

\* Tasks leave the engine of the settings only through a creation that read the
\* settings too early, a disk fault or a crash, for any number of them.
THEOREM EnginesFollow == Spec => []EnginesFollowSettings
<1>1. Init => Drift
  <2> SUFFICES ASSUME Init PROVE Drift
    OBVIOUS
  <2>1. SettingsLoaded
    BY DEF Init, SettingsLoaded, NoJob
  <2>2. Engine = "codex" /\ Behind = {}
    BY DEF Init, Engine, Behind, Engines
  <2>3. \A t \in Task : disk[t].meta # <<>> => disk[t].meta[1].engine = "codex"
    BY DEF Init, Image, Blank, NoFiles
  <2> QED BY <2>1, <2>2, <2>3 DEF Drift
<1>2. Drift => EnginesFollowSettings
  BY DEF Drift, EnginesFollowSettings, Free, Idle, NoJob
<1> QED BY <1>1, <1>2, DriftKept, BooksKept, SavedAlways, PTL DEF Spec
=============================================================================
