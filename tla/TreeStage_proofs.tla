--------------------------- MODULE TreeStage_proofs ---------------------------
(***************************************************************************)
(* Theorems about TreeStage for any number of Trees and of slots.           *)
(***************************************************************************)
EXTENDS TreeStage, FiniteSetTheorems, TLAPS

-----------------------------------------------------------------------------
(* Type correctness.                                                        *)

LEMMA Indices ==
  /\ Planned \subseteq Tree /\ Validation \in Tree /\ Validation \notin Planned
  /\ \A i \in Tree : i \in Planned \/ i = Validation
  /\ NTrees \in Nat /\ Validation \in Nat /\ Tree \subseteq Nat
BY TreeAssumption DEF Planned, Tree, Validation

\* A record that UpdateTree or AddTree writes is a Tree record.
LEMMA RecordType ==
  ASSUME tree \in [Tree -> TreeRecord], NEW i \in Tree
  PROVE  /\ \A f \in TreeRecord : UpdateTree(i, f) => tree' \in [Tree -> TreeRecord]
         /\ AddTree(i) => tree' \in [Tree -> TreeRecord]
         /\ [tree[i] EXCEPT !.status = "Running"] \in TreeRecord
         /\ [status |-> "Finished", fruit |-> i \in fruitPath] \in TreeRecord
<1>1. /\ [tree[i] EXCEPT !.status = "Running"] \in TreeRecord
      /\ [status |-> "Finished", fruit |-> i \in fruitPath] \in TreeRecord
  BY DEF TreeRecord
<1>2. \A f \in TreeRecord : UpdateTree(i, f) => tree' \in [Tree -> TreeRecord]
  BY DEF UpdateTree
<1>3. AddTree(i) => tree' \in [Tree -> TreeRecord]
  BY <1>1 DEF AddTree
<1> QED BY <1>1, <1>2, <1>3

\* Every variable keeps its type.  That next never passes the plan needs the
\* guard that Loop checked one step before Spawn.
Typed == TypeOK /\ (stage = "add" => next \in Planned)

LEMMA TypedHolds == Spec => []Typed
<1>1. Init => Typed
  <2> SUFFICES ASSUME Init PROVE Typed
    OBVIOUS
  <2> USE DEF Init
  <2>1. tree \in [Tree -> TreeRecord]
    BY DEF TreeRecord, NoTree
  <2>2. next \in 1 .. Validation
    BY Indices DEF Validation
  <2>3. gor \in [Tree -> TreePC]
    BY DEF TreePC
  <2> QED BY <2>1, <2>2, <2>3 DEF Typed, TypeOK, StagePC, HandlerPC
<1>2. Typed /\ [Next]_vars => Typed'
  <2> SUFFICES ASSUME Typed, [Next]_vars PROVE Typed'
    OBVIOUS
  <2> USE DEF Typed, TypeOK, taskVars, runVars, handlerVars, reportVars
  <2>1. CASE StageStep
    <3>1. CASE Loop
      BY <3>1, Indices DEF Loop, StagePC, Planned, Validation
    <3>2. CASE Spawn
      <4>1. next \in Tree /\ next + 1 \in 1 .. Validation
        BY <3>2, Indices DEF Spawn, Planned, Validation
      <4>2. tree' \in [Tree -> TreeRecord]
        BY <3>2, <4>1, RecordType DEF Spawn
      <4> QED BY <3>2, <4>1, <4>2 DEF Spawn, AddTree, Goto, StagePC, TreePC
    <3>3. CASE Wait \/ EndStage
      BY <3>3 DEF Wait, EndStage, StagePC
    <3>4. CASE Validate
      <4>1. CASE present
        <5>1. tree' \in [Tree -> TreeRecord]
          BY <3>4, <4>1, Indices, RecordType DEF Validate
        <5> QED BY <3>4, <4>1, <5>1, Indices DEF Validate, AddTree, Goto, StagePC, TreePC, Working
      <4>2. CASE ~present
        BY <3>4, <4>2 DEF Validate, StagePC
      <4> QED BY <4>1, <4>2
    <3> QED BY <2>1, <3>1, <3>2, <3>3, <3>4 DEF StageStep
  <2>2. ASSUME NEW i \in Tree, TreeStep(i) \/ CliOutput(i) \/ CliReturns(i) PROVE Typed'
    <3>1. gor' \in [Tree -> TreePC]
      BY <2>2 DEF TreeStep, Acquire, Find, Mark, Launch, CliKilled, WriteFruit, Update,
         Progress, FindEarly, UpdateEarly, CliOutput, CliReturns, Release, Goto, TreePC, Working, Early
    <3>2. tree' \in [Tree -> TreeRecord]
      BY <2>2, RecordType DEF TreeStep, Acquire, Find, Mark, Launch, CliKilled, WriteFruit,
         Update, Progress, FindEarly, UpdateEarly, Finish, CliOutput, CliReturns
    <3>3. /\ UNCHANGED <<present, stopRequested, ctxDone, runVars, handlerVars>>
          /\ dir' \in BOOLEAN
          /\ slots' \subseteq Tree
      BY <2>2 DEF TreeStep, Acquire, Find, Mark, Launch, CliKilled, WriteFruit, FruitWritten, FruitFails,
         Update, Progress, FindEarly, UpdateEarly, Finish, CliOutput, CliReturns, Release, UpdateTree,
         WriteFile
    <3>4. fruitPath' \subseteq Tree /\ report' \in [Tree -> {"none", "whole", "failed"}]
      BY <2>2 DEF TreeStep, Acquire, Find, Mark, Launch, CliKilled, WriteFruit, FruitWritten, FruitFails,
         Write, Update, Progress, FindEarly, UpdateEarly, Finish, CliOutput, CliReturns
    <3> QED BY <3>1, <3>2, <3>3, <3>4
  <2>3. CASE Cancel \/ Supersede
    BY <2>3 DEF Cancel, Supersede, HandlerPC
  <2>4. CASE HandlerStep
    <3>1. CASE StopUpdate
      <4>1. tree' \in [Tree -> TreeRecord]
        BY <3>1 DEF StopUpdate, TreeRecord
      <4> QED BY <3>1, <4>1 DEF StopUpdate, HandlerPC
    <3>2. CASE StopSnapshot
      <4>1. report' \in [Tree -> {"none", "whole", "failed"}]
        BY <3>2 DEF StopSnapshot, Write
      <4>2. paths' \subseteq Tree /\ dir' \in BOOLEAN
        BY <3>2 DEF StopSnapshot
      <4> QED BY <3>2, <4>1, <4>2 DEF StopSnapshot, HandlerPC
    <3>3. CASE DeleteStore
      <4>1. tree' \in [Tree -> TreeRecord] /\ report' \in [Tree -> {"none", "whole", "failed"}]
        BY <3>3 DEF DeleteStore, NoTree, TreeRecord
      <4> QED BY <3>3, <4>1 DEF DeleteStore, HandlerPC
    <3>4. CASE SupersedeCancel \/ DeleteFiles
      BY <3>4 DEF SupersedeCancel, DeleteFiles, HandlerPC
    <3> QED BY <2>4, <3>1, <3>2, <3>3, <3>4 DEF HandlerStep
  <2>5. CASE UNCHANGED vars
    BY <2>5 DEF vars
  <2> QED BY <2>1, <2>2, <2>3, <2>4, <2>5 DEF Next
<1> QED BY <1>1, <1>2, PTL DEF Spec

\* Type correctness, for any plan and any number of slots.
THEOREM TypeCorrect == Spec => []TypeOK
<1>1. Typed => TypeOK
  BY DEF Typed
<1> QED BY <1>1, TypedHolds, PTL

-----------------------------------------------------------------------------
(* Slots, and the order of the stage.                                       *)

Idle == {"none", "done"}

\* A slot is held exactly while runTree runs, and there are never more than
\* the semaphore has.
SlotsHeld ==
  /\ slots = {i \in Planned : gor[i] \in Working}
  /\ Cardinality(slots) <= MaxConcurrent

\* The Trees are started in order; validation starts when all have ended.
InOrder ==
  /\ \A i \in Planned : gor[i] # "none" <=> i < next
  /\ stage \in {"validate", "validating", "done"} => \A i \in Planned : gor[i] \in Idle
  /\ stage \in {"loop", "add", "wait", "validate"} => gor[Validation] = "none"
  /\ stage = "done" => gor[Validation] \in Idle
  /\ gor[Validation] \notin {"acquire"} \cup Early

\* A stage that was not cancelled has started every Tree of its plan.  A stop
\* cancels before it asks to stop, so a stop withdrawn by a later message
\* cannot cut a plan short that goes on to validation.
Complete ==
  /\ stopRequested => ctxDone
  /\ handler = "stopUpdate" => ctxDone
  /\ handler = "stopSnapshot" => ctxDone
  /\ stage = "wait" => next > NTrees \/ ctxDone
  /\ stage \in {"validate", "validating"} => next > NTrees
  /\ gor[Validation] # "none" => next > NTrees

\* While the task exists, a Tree has a record from the moment its goroutine
\* exists; that goroutine has written a report and holds its path, or a write of
\* it has failed, and it leaves the Tree settled.
Recorded ==
  present => \A i \in Tree :
    /\ tree[i].status # "none" <=> gor[i] # "none"
    /\ gor[i] \in {"update", "earlyUpdate"} =>
         report[i] = "failed" \/ (i \in fruitPath /\ report[i] = "whole")
    /\ gor[i] \in {"progress", "done"} => Settled(i)

LEMMA InitInv == Init => SlotsHeld /\ InOrder /\ Complete /\ Recorded
<1> SUFFICES ASSUME Init PROVE SlotsHeld /\ InOrder /\ Complete /\ Recorded
  OBVIOUS
<1> USE Indices DEF Init
<1>1. slots = {i \in Planned : gor[i] \in Working}
  BY DEF Working
<1>2. Cardinality(slots) <= MaxConcurrent
  BY FS_EmptySet, TreeAssumption
<1>3. InOrder
  BY DEF InOrder, Early, Planned, Validation
<1>4. Complete /\ Recorded
  BY DEF Complete, Recorded, NoTree
<1> QED BY <1>1, <1>2, <1>3, <1>4 DEF SlotsHeld

\* A step of the goroutine of a Tree moves that goroutine only, and only a
\* goroutine that was started and has not ended.
LEMMA TreeMoves ==
  ASSUME Typed, NEW i \in Tree, TreeStep(i) \/ CliOutput(i) \/ CliReturns(i)
  PROVE  /\ gor[i] \notin Idle
         /\ \E l \in TreePC \ {"none", "acquire"} : gor' = [gor EXCEPT ![i] = l]
         /\ UNCHANGED <<present, stopRequested, ctxDone, stage, next, handler, paths>>
<1> USE DEF Typed, TypeOK, taskVars, runVars, handlerVars
<1>1. gor[i] \notin Idle
  BY DEF TreeStep, Acquire, Find, Mark, Launch, CliKilled, WriteFruit, Update,
     Progress, FindEarly, UpdateEarly, CliOutput, CliReturns, Idle
<1>2. \E l \in TreePC \ {"none", "acquire"} : gor' = [gor EXCEPT ![i] = l]
  <2>1. CASE CliOutput(i)
    <3>1. gor[i] \in TreePC \ {"none", "acquire"} /\ gor' = [gor EXCEPT ![i] = gor[i]]
      BY <2>1 DEF CliOutput, TreePC, Working
    <3> QED BY <3>1
  <2>2. CASE ~CliOutput(i)
    BY <2>2 DEF TreeStep, Acquire, Find, Mark, Launch, CliKilled, WriteFruit, Update,
       Progress, FindEarly, UpdateEarly, CliReturns, Release, Goto, TreePC, Working, Early
  <2> QED BY <2>1, <2>2
<1>3. UNCHANGED <<present, stopRequested, ctxDone, stage, next, handler, paths>>
  BY DEF TreeStep, Acquire, Find, Mark, Launch, CliKilled, WriteFruit, Update,
     Finish, Progress, FindEarly, UpdateEarly, CliOutput, CliReturns, UpdateTree
<1> QED BY <1>1, <1>2, <1>3

\* A step of the HTTP handler leaves the goroutines of the run alone.
LEMMA HandlerMoves ==
  ASSUME Typed, Cancel \/ Supersede \/ HandlerStep
  PROVE  UNCHANGED <<stage, next, gor, slots>>
BY DEF Cancel, Supersede, HandlerStep, StopSnapshot, StopUpdate, SupersedeCancel, DeleteStore,
   DeleteFiles, taskVars, runVars, handlerVars

\* The semaphore.
LEMMA SlotsStep ==
  ASSUME Typed, SlotsHeld, InOrder, [Next]_vars
  PROVE  SlotsHeld'
<1> USE DEF Typed, TypeOK
<1>0. IsFiniteSet(slots) /\ Cardinality(slots) \in Nat
  <2>1. IsFiniteSet(Tree)
    BY Indices, FS_Interval DEF Tree
  <2> QED BY <2>1, FS_Subset, FS_CardinalityType
<1>1. CASE StageStep
  <2>1. UNCHANGED slots
    BY <1>1 DEF StageStep, Loop, Spawn, Wait, Validate, EndStage
  <2>2. \A i \in Planned : gor'[i] \in Working <=> gor[i] \in Working
    <3>1. CASE Spawn
      <4>1. gor[next] = "none" /\ gor' = [gor EXCEPT ![next] = "acquire"] /\ next \in Planned
        BY <3>1 DEF Spawn, Goto, InOrder, Planned
      <4> QED BY <4>1, Indices DEF Working
    <3>2. CASE Validate
      BY <3>2, Indices DEF Validate, Goto
    <3>3. CASE Loop \/ Wait \/ EndStage
      BY <3>3 DEF Loop, Wait, EndStage
    <3> QED BY <1>1, <3>1, <3>2, <3>3 DEF StageStep
  <2> QED BY <2>1, <2>2 DEF SlotsHeld
<1>2. ASSUME NEW i \in Tree, TreeStep(i) \/ CliOutput(i) \/ CliReturns(i) PROVE SlotsHeld'
  <2>1. CASE Acquire(i)
    <3>1. i \in Planned
      BY <2>1, Indices DEF Acquire, InOrder
    <3>2. CASE slots' = slots \cup {i} /\ Goto(i, "find") /\ Cardinality(slots) < MaxConcurrent
      <4>1. Cardinality(slots \cup {i})
              = IF i \in slots THEN Cardinality(slots) ELSE Cardinality(slots) + 1
        BY <1>0, FS_AddElement
      <4>2. Cardinality(slots') <= MaxConcurrent
        BY <3>2, <4>1, <1>0, TreeAssumption
      <4>3. slots' = {j \in Planned : gor'[j] \in Working}
        BY <3>1, <3>2, Indices DEF SlotsHeld, Goto, Working
      <4> QED BY <4>2, <4>3 DEF SlotsHeld
    <3>3. CASE slots' = slots /\ Goto(i, "early") /\ gor[i] = "acquire"
      BY <3>1, <3>3, Indices DEF SlotsHeld, Goto, Working
    <3> QED BY <2>1, <3>2, <3>3 DEF Acquire
  <2>2. CASE (Find(i) \/ Progress(i)) /\ Release(i)
    <3>1. slots' = {j \in Planned : gor'[j] \in Working}
      BY <2>2, Indices DEF SlotsHeld, Release, Goto, Working
    <3>2. Cardinality(slots') <= Cardinality(slots) /\ Cardinality(slots') \in Nat
      BY <2>2, <1>0, FS_Subset, FS_CardinalityType DEF Release
    <3> QED BY <3>1, <3>2, <1>0, TreeAssumption DEF SlotsHeld
  <2>3. CASE ~Acquire(i) /\ ~((Find(i) \/ Progress(i)) /\ Release(i))
    <3>1. UNCHANGED slots
      BY <1>2, <2>3 DEF TreeStep, Find, Mark, Launch, CliKilled, WriteFruit, Update,
         Progress, FindEarly, UpdateEarly, CliOutput, CliReturns
    <3>2. gor'[i] \in Working <=> gor[i] \in Working
      BY <1>2, <2>3 DEF TreeStep, Find, Mark, Launch, CliKilled, WriteFruit, Update,
         Progress, FindEarly, UpdateEarly, CliOutput, CliReturns, Goto, Working
    <3>3. \A j \in Planned : gor'[j] \in Working <=> gor[j] \in Working
      BY <1>2, <3>2, TreeMoves, Indices
    <3> QED BY <3>1, <3>3 DEF SlotsHeld
  <2> QED BY <2>1, <2>2, <2>3
<1>3. CASE Cancel \/ Supersede \/ HandlerStep
  BY <1>3, HandlerMoves DEF SlotsHeld
<1>4. CASE UNCHANGED vars
  BY <1>4 DEF vars, SlotsHeld
<1> QED BY <1>1, <1>2, <1>3, <1>4 DEF Next

\* The order of the stage.
LEMMA OrderStep ==
  ASSUME Typed, SlotsHeld, InOrder, [Next]_vars
  PROVE  InOrder'
<1> USE DEF Typed, TypeOK
<1>1. CASE StageStep
  <2>1. CASE Loop
    BY <2>1 DEF Loop, InOrder
  <2>2. CASE Spawn
    <3>1. /\ gor' = [gor EXCEPT ![next] = "acquire"] /\ next \in Planned
          /\ next' = next + 1 /\ stage' = "loop" /\ stage = "add"
      BY <2>2 DEF Spawn, Goto
    <3>2. \A i \in Planned : gor'[i] # "none" <=> i < next'
      BY <3>1, Indices DEF InOrder, Planned
    <3> QED BY <3>1, <3>2, Indices DEF InOrder
  <2>3. CASE Wait
    BY <2>3 DEF Wait, InOrder, Idle
  <2>4. CASE Validate
    <3>1. CASE present
      <4>1. /\ gor' = [gor EXCEPT ![Validation] = "find"] /\ stage' = "validating"
            /\ next' = next /\ stage = "validate"
        BY <2>4, <3>1 DEF Validate, Goto
      <4> QED BY <4>1, Indices DEF InOrder, Early
    <3>2. CASE ~present
      BY <2>4, <3>2 DEF Validate, InOrder, Idle, taskVars
    <3> QED BY <3>1, <3>2
  <2>5. CASE EndStage
    BY <2>5 DEF EndStage, InOrder, Idle
  <2> QED BY <1>1, <2>1, <2>2, <2>3, <2>4, <2>5 DEF StageStep
<1>2. ASSUME NEW i \in Tree, TreeStep(i) \/ CliOutput(i) \/ CliReturns(i) PROVE InOrder'
  <2>1. PICK l \in TreePC \ {"none", "acquire"} : gor' = [gor EXCEPT ![i] = l]
    BY <1>2, TreeMoves
  <2>2. gor[i] \notin Idle /\ UNCHANGED <<stage, next>>
    BY <1>2, TreeMoves
  <2>3. i = Validation => l \notin {"acquire"} \cup Early
    <3>1. gor'[i] \in Early => gor[i] \in {"acquire"} \cup Early
      BY <1>2 DEF TreeStep, Acquire, Find, Mark, Launch, CliKilled, WriteFruit, Update,
         Progress, FindEarly, UpdateEarly, CliOutput, CliReturns, Release, Goto, Early
    <3> QED BY <2>1, <3>1 DEF InOrder
  <2>4. CASE i \in Planned
    BY <2>1, <2>2, <2>4, Indices DEF InOrder, Idle
  <2>5. CASE i = Validation
    BY <2>1, <2>2, <2>3, <2>5, Indices DEF InOrder, Idle
  <2> QED BY <2>4, <2>5, Indices
<1>3. CASE Cancel \/ Supersede \/ HandlerStep
  BY <1>3, HandlerMoves DEF InOrder
<1>4. CASE UNCHANGED vars
  BY <1>4 DEF vars, InOrder
<1> QED BY <1>1, <1>2, <1>3, <1>4 DEF Next

\* No plan is cut short silently.
LEMMA CompleteStep ==
  ASSUME Typed, InOrder, Complete, [Next]_vars
  PROVE  Complete'
<1> USE DEF Typed, TypeOK, taskVars, runVars, handlerVars
<1>1. CASE StageStep
  <2>1. CASE Loop
    BY <2>1, Indices DEF Loop, Complete, Stopping, Planned, Validation
  <2>2. CASE Spawn
    <3>1. gor'[Validation] = gor[Validation] /\ gor[Validation] = "none"
      BY <2>2, Indices DEF Spawn, Goto, InOrder
    <3> QED BY <2>2, <3>1 DEF Spawn, AddTree, Complete
  <2>3. CASE Wait
    BY <2>3 DEF Wait, Complete, Stopping
  <2>4. CASE Validate
    BY <2>4 DEF Validate, AddTree, Complete
  <2>5. CASE EndStage
    BY <2>5 DEF EndStage, Complete
  <2> QED BY <1>1, <2>1, <2>2, <2>3, <2>4, <2>5 DEF StageStep
<1>2. ASSUME NEW i \in Tree, TreeStep(i) \/ CliOutput(i) \/ CliReturns(i) PROVE Complete'
  <2>1. gor'[Validation] # "none" => gor[Validation] # "none"
    BY <1>2, TreeMoves, Indices DEF Idle
  <2> QED BY <1>2, <2>1, TreeMoves DEF Complete
<1>3. CASE Cancel \/ Supersede \/ HandlerStep
  BY <1>3 DEF Cancel, Supersede, HandlerStep, StopSnapshot, StopUpdate, SupersedeCancel,
     DeleteStore, DeleteFiles, Complete
<1>4. CASE UNCHANGED vars
  BY <1>4 DEF vars, Complete
<1> QED BY <1>1, <1>2, <1>3, <1>4 DEF Next

\* Records and reports.  StopTask may finish a Tree that has no report yet;
\* the goroutine of that Tree still writes one before it ends.
LEMMA RecordStep ==
  ASSUME Typed, InOrder, Recorded, [Next]_vars
  PROVE  Recorded'
<1> USE DEF Typed, TypeOK, taskVars, runVars, handlerVars, reportVars
<1>1. CASE StageStep
  <2>1. CASE Loop \/ Wait \/ EndStage
    BY <2>1 DEF Loop, Wait, EndStage, Recorded, Settled
  <2>2. CASE Spawn
    <3>1. /\ next \in Tree
          /\ gor' = [gor EXCEPT ![next] = "acquire"]
          /\ UNCHANGED <<present, fruitPath, report>>
          /\ present => tree' = [tree EXCEPT ![next] = [tree[next] EXCEPT !.status = "Running"]]
      BY <2>2, Indices DEF Spawn, Goto, AddTree
    <3>2. tree[next] \in TreeRecord
      BY <3>1
    <3>3. [tree[next] EXCEPT !.status = "Running"].status = "Running"
      BY <3>2 DEF TreeRecord
    <3> QED BY <3>1, <3>3 DEF Recorded, Settled
  <2>3. CASE Validate /\ present
    <3>1. /\ gor' = [gor EXCEPT ![Validation] = "find"]
          /\ UNCHANGED <<present, fruitPath, report>>
          /\ tree' = [tree EXCEPT ![Validation] = [tree[Validation] EXCEPT !.status = "Running"]]
      BY <2>3 DEF Validate, Goto, AddTree
    <3>2. tree[Validation] \in TreeRecord
      BY Indices
    <3>3. [tree[Validation] EXCEPT !.status = "Running"].status = "Running"
      BY <3>2 DEF TreeRecord
    <3> QED BY <3>1, <3>3, Indices DEF Recorded, Settled
  <2>4. CASE Validate /\ ~present
    BY <2>4 DEF Validate, Recorded
  <2> QED BY <1>1, <2>1, <2>2, <2>3, <2>4 DEF StageStep
<1>2. ASSUME NEW i \in Tree, TreeStep(i) \/ CliOutput(i) \/ CliReturns(i) PROVE Recorded'
  <2> SUFFICES ASSUME present PROVE Recorded'
    BY <1>2, TreeMoves DEF Recorded
  <2>1. PICK l \in TreePC \ {"none", "acquire"} : gor' = [gor EXCEPT ![i] = l]
    BY <1>2, TreeMoves
  <2>2. gor[i] \notin Idle /\ present' = present
    BY <1>2, TreeMoves
  <2>3. tree[i].status # "none"
    BY <2>2 DEF Recorded, Idle
  <2>4. CASE Update(i) \/ UpdateEarly(i)
    <3>1. /\ tree' = [tree EXCEPT ![i] = [status |-> "Finished", fruit |-> i \in fruitPath]]
          /\ fruitPath' = fruitPath \ {i} /\ report' = report
          /\ gor[i] \in {"update", "earlyUpdate"} /\ gor'[i] \in {"progress", "done"}
      BY <2>3, <2>4 DEF Update, UpdateEarly, Finish, UpdateTree, Goto
    <3>2. tree'[i].status = "Finished" /\ tree'[i].fruit = (i \in fruitPath)
      BY <3>1
    <3>3. Settled(i)'
      BY <2>2, <3>1, <3>2 DEF Recorded, Settled
    <3> QED BY <2>1, <2>2, <3>1, <3>2, <3>3 DEF Recorded, Settled, Idle
  <2>5. CASE Mark(i)
    <3>1. /\ tree' = [tree EXCEPT ![i] = [tree[i] EXCEPT !.status = "Running"]]
          /\ gor' = [gor EXCEPT ![i] = "goal"]
          /\ UNCHANGED <<fruitPath, report>>
      BY <2>3, <2>5 DEF Mark, UpdateTree, Goto
    <3>2. [tree[i] EXCEPT !.status = "Running"].status = "Running"
      BY DEF TreeRecord
    <3> QED BY <2>2, <3>1, <3>2 DEF Recorded, Settled, Idle
  <2>6. CASE WriteFruit(i)
    <3>1. /\ UNCHANGED tree
          /\ gor'[i] \in {"update", "earlyUpdate"}
          /\ \A j \in Tree \ {i} : report'[j] = report[j] /\ (j \in fruitPath' <=> j \in fruitPath)
          /\ report'[i] = "failed" \/ (i \in fruitPath' /\ report'[i] = "whole")
      BY <2>6 DEF WriteFruit, FruitWritten, FruitFails, Write, Goto
    <3> QED BY <2>1, <2>2, <3>1 DEF Recorded, Settled, Idle
  <2>7. CASE ~(Update(i) \/ UpdateEarly(i) \/ Mark(i) \/ WriteFruit(i))
    <3>1. UNCHANGED <<tree, fruitPath, report>>
      BY <1>2, <2>7 DEF TreeStep, Acquire, Find, Launch, CliKilled, Progress, FindEarly, CliOutput,
         CliReturns
    <3>2. /\ gor'[i] \in {"progress", "done"} => gor[i] = "progress"
          /\ gor'[i] \notin {"update", "earlyUpdate"}
      BY <1>2, <2>3, <2>7 DEF TreeStep, Acquire, Find, Launch, CliKilled, Progress, FindEarly,
         CliOutput, CliReturns, Release, Goto
    <3> QED BY <2>1, <2>2, <3>1, <3>2 DEF Recorded, Settled, Idle
  <2> QED BY <2>4, <2>5, <2>6, <2>7
<1>3. CASE Cancel \/ Supersede \/ HandlerStep
  <2>1. UNCHANGED gor
    BY <1>3, HandlerMoves
  <2>2. CASE StopUpdate
    <3>1. \A i \in Tree : /\ tree[i].status # "none" <=> tree'[i].status # "none"
                          /\ tree[i].status = "Finished" => tree'[i] = tree[i]
      <4> TAKE i \in Tree
      <4>1. CASE tree[i].status = "Running"
        <5>1. tree'[i] = [status |-> "Finished", fruit |-> tree[i].fruit \/ i \in paths]
          BY <2>2, <4>1 DEF StopUpdate
        <5>2. tree'[i].status = "Finished"
          BY <5>1
        <5> QED BY <4>1, <5>2
      <4>2. CASE tree[i].status # "Running"
        <5>1. tree'[i] = tree[i]
          BY <2>2, <4>2 DEF StopUpdate
        <5> QED BY <5>1
      <4> QED BY <4>1, <4>2
    <3>2. UNCHANGED <<present, fruitPath, report>>
      BY <2>2 DEF StopUpdate
    <3> QED BY <2>1, <3>1, <3>2 DEF Recorded, Settled
  <2>3. CASE StopSnapshot
    <3>1. /\ UNCHANGED <<present, tree, fruitPath>>
          /\ present => \A i \in Tree :
               /\ report[i] # "none" => report'[i] \in {report[i], "failed"}
               /\ tree[i].status = "Finished" => report'[i] = report[i]
      BY <2>3 DEF StopSnapshot, Write
    <3> QED BY <2>1, <3>1 DEF Recorded, Settled
  <2>4. CASE ~StopUpdate /\ ~StopSnapshot
    BY <1>3, <2>1, <2>4 DEF Cancel, Supersede, HandlerStep, SupersedeCancel,
       DeleteStore, DeleteFiles, Recorded, Settled
  <2> QED BY <2>2, <2>3, <2>4
<1>4. CASE UNCHANGED vars
  BY <1>4 DEF vars, Recorded, Settled
<1> QED BY <1>1, <1>2, <1>3, <1>4 DEF Next

LEMMA StageInvHolds == Spec => [](SlotsHeld /\ InOrder /\ Complete /\ Recorded)
<1>1. /\ Typed /\ SlotsHeld /\ InOrder /\ Complete /\ Recorded
      /\ [Next]_vars
      => SlotsHeld' /\ InOrder' /\ Complete' /\ Recorded'
  BY SlotsStep, OrderStep, CompleteStep, RecordStep
<1> QED BY InitInv, <1>1, TypedHolds, PTL DEF Spec

\* At most MaxConcurrent Trees of a stage work at a time: the planned ones by
\* the semaphore, the validation Tree because it runs alone.
THEOREM Concurrency == Spec => []ConcurrencyBounded
<1>1. Typed /\ SlotsHeld /\ InOrder => ConcurrencyBounded
  <2> SUFFICES ASSUME Typed, SlotsHeld, InOrder PROVE ConcurrencyBounded
    OBVIOUS
  <2> DEFINE Busy == {i \in Tree : gor[i] \in Working}
  <2>1. CASE gor[Validation] \notin Working
    <3>1. Busy = slots
      BY <2>1, Indices DEF SlotsHeld
    <3> QED BY <3>1 DEF SlotsHeld, ConcurrencyBounded
  <2>2. CASE gor[Validation] \in Working
    <3>1. stage = "validating"
      BY <2>2 DEF InOrder, Typed, TypeOK, StagePC, Working, Idle
    <3>2. \A i \in Planned : gor[i] \notin Working
      BY <3>1 DEF InOrder, Idle, Working
    <3>3. Busy = {Validation}
      BY <2>2, <3>2, Indices
    <3>4. Cardinality(Busy) = 1
      BY <3>3, FS_Singleton
    <3> QED BY <3>4, TreeAssumption DEF ConcurrencyBounded
  <2> QED BY <2>1, <2>2
<1> QED BY <1>1, TypedHolds, StageInvHolds, PTL

\* The validation Tree sees a settled stage, whichever reports the disk refused.
THEOREM ValidationSettled == Spec => []ValidationIsLast
<1>1. Typed /\ InOrder /\ Complete /\ Recorded => ValidationIsLast
  <2> SUFFICES ASSUME Typed, InOrder, Complete, Recorded, gor[Validation] # "none",
                      NEW i \in Planned
               PROVE  gor[i] \in Idle /\ (present => Settled(i))
    BY DEF ValidationIsLast, Idle
  <2>1. gor[i] \in Idle
    BY DEF InOrder, Typed, TypeOK, StagePC
  <2>2. i < next
    BY Indices DEF Complete, Planned, Typed, TypeOK
  <2>3. gor[i] = "done"
    BY <2>1, <2>2 DEF InOrder, Idle
  <2> QED BY <2>3, Indices DEF Recorded, Idle
<1> QED BY <1>1, TypedHolds, StageInvHolds, PTL

\* A stage that has ended leaves each of its Trees settled, and no slot taken.
THEOREM StageSettled == Spec => []StageLeavesReports
<1>1. Typed /\ SlotsHeld /\ InOrder /\ Recorded => StageLeavesReports
  <2> SUFFICES ASSUME Typed, SlotsHeld, InOrder, Recorded, stage = "done", present
               PROVE  /\ slots = {}
                      /\ \A i \in Tree : tree[i].status # "none" => Settled(i)
    BY DEF StageLeavesReports
  <2>1. \A i \in Tree : gor[i] \in Idle
    BY Indices DEF InOrder
  <2>2. slots = {}
    BY <2>1, Indices DEF SlotsHeld, Idle, Working
  <2>3. \A i \in Tree : tree[i].status # "none" => Settled(i)
    BY <2>1 DEF Recorded, Idle
  <2> QED BY <2>2, <2>3
<1> QED BY <1>1, TypedHolds, StageInvHolds, PTL
=============================================================================
