---------------------------- MODULE Relay_proofs ----------------------------
(***************************************************************************)
(* Theorems about Relay, for any number of users, slots, keys and faults.    *)
(***************************************************************************)
EXTENDS Relay, TLAPS

\* The record of the user the tool works for.
Mine == [user |-> me, slot |-> job[1].slot, key |-> job[1].key]

\* A user is in instances.json once.
UniqueUsers == \A i, k \in instances : i.user = k.user => i = k

\* What instances.json says of the user the tool works for.
MyInstance ==
  /\ step \in {"mkdir", "conf", "provision", "save", "undoDir", "undoProvision", "undoConf",
               "rmConf", "rmDir", "rmProvision", "rmReload"}
       => \A i \in instances : i.user # me
  /\ step \in {"reload", "rmSave"} => Mine \in instances
  /\ step = "undo" => \A i \in instances : i.user = me => i = Mine

\* How far its files have come, when nothing was left behind before.
MyDir ==
  /\ step \in {"conf", "provision", "save", "reload", "undo", "undoDir", "rmSave", "rmConf",
               "rmDir"} => me \in dirs
  /\ step \in {"mkdir", "undoProvision", "undoConf", "rmProvision", "rmReload"} => me \notin dirs

MySite ==
  /\ step \in {"provision", "save", "reload", "undo", "undoDir", "undoProvision", "undoConf",
               "rmSave", "rmConf"}
       => /\ [user |-> me, slot |-> job[1].slot] \in conf
          /\ \A c \in conf : c.user = me => c.slot = job[1].slot
  /\ step \in {"mkdir", "conf", "rmDir", "rmProvision", "rmReload"}
       => \A c \in conf : c.user # me

MyProvisions ==
  /\ step \in {"mkdir", "conf", "provision", "undoConf", "rmReload"}
       => \A p \in provisions : p.user # me
  /\ step \in {"save", "reload"} \cup RemoveStep => job[1].made
  /\ step \in {"save", "reload", "undo", "undoDir", "undoProvision"} \cup RemoveStep
       => \A p \in provisions : p.user = me => job[1].made /\ p.key = job[1].key

\* A user is known with everything or not at all.
Settled(u) ==
  /\ u \in dirs <=> \E i \in instances : i.user = u
  /\ \A c \in conf : c.user = u => \E i \in instances : i.user = u /\ i.slot = c.slot
  /\ \A i \in instances : i.user = u => [user |-> u, slot |-> i.slot] \in conf
  /\ \A p \in provisions : p.user = u => \E i \in instances : i.user = u /\ p.key = i.key

Others == \A u \in User \ littered : step = "idle" \/ u # me => Settled(u)

\* The slot the tool is about to write is nobody else's.
Reserved ==
  step \in {"mkdir", "conf"} =>
    \A c \in conf \cup loaded :
      c.slot = job[1].slot /\ c.user \notin littered => c.user = me

Books == UniqueUsers /\ MyInstance /\ (step # "idle" /\ me \notin littered => MyDir /\ MySite /\ MyProvisions)

IInv == TypeOK /\ Books /\ Others /\ Reserved /\ OwnSlot

-----------------------------------------------------------------------------
(* Type correctness.                                                        *)

LEMMA InitTypes == Init => TypeOK
BY FaultAssumption DEF Init, TypeOK

LEMMA FaultType == ASSUME TypeOK, Fault PROVE faults' \in 0..MaxFaults
BY FaultAssumption DEF TypeOK, Fault

Job == [user : User, slot : Slot, key : Key, made : BOOLEAN]

\* The job of a tool that works.
LEMMA JobType ==
  ASSUME TypeOK, step # "idle"
  PROVE  /\ job = <<job[1]>> /\ job[1] \in Job
         /\ me \in User /\ job[1].slot \in Slot /\ job[1].key \in Key /\ job[1].made \in BOOLEAN
BY DEF TypeOK, Job, me

LEMMA TypeKept == TypeOK /\ [Next]_vars => TypeOK'
<1> SUFFICES ASSUME TypeOK, [Next]_vars PROVE TypeOK'
  OBVIOUS
<1> USE DEF TypeOK, AddStep, UndoStep, RemoveStep
<1>1. ASSUME NEW u \in User, NEW s \in Slot, NEW k \in Key, AddUser(u, s, k) PROVE TypeOK'
  BY <1>1 DEF AddUser, fileVars, nginxVars
<1>2. CASE MakeDir
  BY <1>2, JobType DEF MakeDir, End, GoTo, nginxVars
<1>3. CASE WriteConf
  BY <1>3, JobType DEF WriteConf, GoTo, SitesWithout, Site, nginxVars
<1>4. CASE WriteProvision
  <2>1. Fresh \subseteq provisions /\ Own \in Provision
    BY <1>4, JobType DEF WriteProvision, Fresh, Own, Provision
  <2>2. \/ step' = "idle" /\ job' = <<>>
        \/ step' = "save" /\ job' = <<[job[1] EXCEPT !.made = TRUE]>>
    <3>1. CASE Taken(job[1].key)
      BY <1>4, <3>1 DEF WriteProvision, End
    <3>2. CASE ~Taken(job[1].key)
      BY <1>4, <3>2 DEF WriteProvision
    <3> QED
      BY <3>1, <3>2
  <2>3. step # "idle" /\ [job[1] EXCEPT !.made = TRUE] \in Job
    BY <1>4, JobType DEF WriteProvision, Job
  <2> QED
    BY <1>4, <2>1, <2>2, <2>3, JobType DEF WriteProvision, Job, nginxVars
<1>5. CASE ProvisionFails
  BY <1>5, JobType, FaultType DEF ProvisionFails, GoTo, Fresh, Own, Provision, nginxVars
<1>6. CASE SaveState
  BY <1>6, JobType DEF SaveState, GoTo, Instance, nginxVars
<1>7. CASE Reload
  BY <1>7 DEF Reload, End, fileVars
<1>8. CASE ReloadRefused
  BY <1>8 DEF ReloadRefused, GoTo, fileVars, nginxVars
<1>9. CASE Raise
  BY <1>9, FaultType DEF Raise, GoTo, fileVars, nginxVars
<1>10. CASE Interrupt
  BY <1>10, JobType, FaultType DEF Interrupt, End, fileVars, nginxVars
<1>11. ASSUME NEW i \in instances, RemoveUser(i) PROVE TypeOK'
  BY <1>11 DEF RemoveUser, Instance, fileVars, nginxVars
<1>12. CASE DropInstance
  BY <1>12 DEF DropInstance, GoTo, After, nginxVars
<1>13. CASE RemoveDir
  BY <1>13 DEF RemoveDir, GoTo, After, nginxVars
<1>14. CASE RemoveProvision
  BY <1>14 DEF RemoveProvision, GoTo, After, nginxVars
<1>15. CASE RemoveConf
  BY <1>15 DEF RemoveConf, GoTo, After, SitesWithout, nginxVars
<1>16. CASE LeaveFiles
  BY <1>16, JobType, FaultType DEF LeaveFiles, GoTo, After, fileVars, nginxVars
<1>17. CASE GcProvisions
  BY <1>17 DEF GcProvisions, Fresh, nginxVars, toolVars
<1>18. ASSUME NEW p \in provisions, Age(p) PROVE TypeOK'
  BY <1>18 DEF Age, Provision, nginxVars, toolVars
<1>19. CASE NginxStops
  BY <1>19, FaultType DEF NginxStops, fileVars, toolVars
<1>20. CASE NginxLoads
  BY <1>20 DEF NginxLoads, fileVars, toolVars
<1>21. CASE UNCHANGED vars
  BY <1>21 DEF vars, fileVars, nginxVars, toolVars
<1> QED
  BY <1>1, <1>2, <1>3, <1>4, <1>5, <1>6, <1>7, <1>8, <1>9, <1>10, <1>11, <1>12, <1>13, <1>14,
     <1>15, <1>16, <1>17, <1>18, <1>19, <1>20, <1>21 DEF Next

\* Type correctness of Relay (gardener-relay.py): every file holds only what the
\* tool writes there, and the tool has a job exactly while it works.
THEOREM TypeCorrect == Spec => []TypeOK
BY InitTypes, TypeKept, PTL DEF Spec
-----------------------------------------------------------------------------
(* The books of the tool.                                                   *)

LEMMA InitBooks == Init => IInv
BY InitTypes DEF Init, IInv, Books, UniqueUsers, MyInstance, Others, Settled, Reserved, OwnSlot

\* What an action that does not name them leaves alone.
LEMMA Kept ==
  ASSUME [Next]_vars
  PROVE  /\ ~SaveState /\ ~DropInstance => UNCHANGED instances
         /\ ~MakeDir /\ ~RemoveDir => UNCHANGED dirs
         /\ ~WriteConf /\ ~RemoveConf => UNCHANGED conf
         /\ ~WriteProvision /\ ~ProvisionFails /\ ~RemoveProvision /\ ~GcProvisions
              => UNCHANGED provisions
         /\ littered \subseteq littered'
<1> USE DEF fileVars, nginxVars, toolVars
<1>1. CASE \E u \in User, s \in Slot, k \in Key : AddUser(u, s, k)
  BY <1>1 DEF AddUser
<1>2. CASE \E i \in instances : RemoveUser(i)
  BY <1>2 DEF RemoveUser
<1>3. CASE \E p \in provisions : Age(p)
  BY <1>3 DEF Age
<1>4. CASE MakeDir \/ WriteConf \/ SaveState \/ DropInstance \/ RemoveDir \/ RemoveProvision \/ RemoveConf
  BY <1>4 DEF MakeDir, WriteConf, SaveState, DropInstance, RemoveDir, RemoveProvision, RemoveConf
<1>5. CASE WriteProvision \/ ProvisionFails
  BY <1>5 DEF WriteProvision, ProvisionFails
<1>6. CASE Reload \/ ReloadRefused \/ Raise \/ Interrupt \/ LeaveFiles
  BY <1>6 DEF Reload, ReloadRefused, Raise, Interrupt, LeaveFiles
<1>7. CASE GcProvisions \/ NginxStops \/ NginxLoads \/ UNCHANGED vars
  BY <1>7 DEF GcProvisions, NginxStops, NginxLoads, vars
<1> QED
  BY <1>1, <1>2, <1>3, <1>4, <1>5, <1>6, <1>7 DEF Next

\* Who the tool works for changes only when it begins or ends.
LEMMA SameJob ==
  ASSUME TypeOK, [Next]_vars, step # "idle", step' # "idle"
  PROVE  /\ me' = me /\ job'[1].slot = job[1].slot /\ job'[1].key = job[1].key
         /\ ~WriteProvision => job' = job
<1> USE DEF toolVars, me
<1>1. CASE \E u \in User, s \in Slot, k \in Key : AddUser(u, s, k)
  BY <1>1 DEF AddUser
<1>2. CASE \E i \in instances : RemoveUser(i)
  BY <1>2 DEF RemoveUser
<1>3. CASE \E p \in provisions : Age(p)
  BY <1>3 DEF Age
<1>4. CASE MakeDir \/ WriteConf \/ SaveState \/ DropInstance \/ RemoveDir \/ RemoveProvision \/ RemoveConf
  BY <1>4 DEF MakeDir, WriteConf, SaveState, DropInstance, RemoveDir, RemoveProvision, RemoveConf,
              GoTo, End
<1>5. CASE WriteProvision
  <2>1. job' = <<[job[1] EXCEPT !.made = TRUE]>>
    BY <1>5 DEF WriteProvision, End
  <2> QED
    BY <1>5, <2>1, JobType DEF Job
<1>6. CASE ProvisionFails \/ Reload \/ ReloadRefused \/ Raise \/ Interrupt \/ LeaveFiles
  BY <1>6 DEF ProvisionFails, Reload, ReloadRefused, Raise, Interrupt, LeaveFiles, GoTo, End
<1>7. CASE GcProvisions \/ NginxStops \/ NginxLoads \/ UNCHANGED vars
  BY <1>7 DEF GcProvisions, NginxStops, NginxLoads, vars
<1> QED
  BY <1>1, <1>2, <1>3, <1>4, <1>5, <1>6, <1>7 DEF Next

LEMMA UsersKept == IInv /\ [Next]_vars => UniqueUsers'
<1> SUFFICES ASSUME IInv, [Next]_vars PROVE UniqueUsers'
  OBVIOUS
<1> USE DEF IInv, Books, UniqueUsers
<1>1. CASE SaveState
  BY <1>1 DEF SaveState, MyInstance
<1>2. CASE DropInstance
  BY <1>2 DEF DropInstance
<1> QED
  BY <1>1, <1>2, Kept

\* The order of the steps of a call.
LEMMA StepOrder ==
  ASSUME [Next]_vars
  PROVE  \/ step' = step
         \/ step' = "idle"
         \/ step = "idle" /\ step' = "mkdir" /\ \E u \in User, s \in Slot, k \in Key : AddUser(u, s, k)
         \/ step = "idle" /\ step' = "rmSave" /\ \E i \in instances : RemoveUser(i)
         \/ step = "mkdir" /\ step' = "conf" /\ MakeDir
         \/ step = "conf" /\ step' = "provision" /\ WriteConf
         \/ step = "provision" /\ step' = "save" /\ WriteProvision
         \/ step = "provision" /\ step' = "undo" /\ ProvisionFails
         \/ step = "save" /\ step' = "reload" /\ SaveState
         \/ step \in {"save", "reload"} /\ step' = "undo" /\ (Raise \/ ReloadRefused)
         \/ step = "undo" /\ step' = "undoDir" /\ DropInstance
         \/ step = "undoDir" /\ step' = "undoProvision" /\ (RemoveDir \/ LeaveFiles)
         \/ step = "undoProvision" /\ step' = "undoConf" /\ (RemoveProvision \/ LeaveFiles)
         \/ step = "rmSave" /\ step' = "rmConf" /\ DropInstance
         \/ step = "rmConf" /\ step' = "rmDir" /\ RemoveConf
         \/ step = "rmDir" /\ step' = "rmProvision" /\ (RemoveDir \/ LeaveFiles)
         \/ step = "rmProvision" /\ step' = "rmReload" /\ (RemoveProvision \/ LeaveFiles)
<1> USE DEF toolVars
<1>1. CASE \E u \in User, s \in Slot, k \in Key : AddUser(u, s, k)
  BY <1>1 DEF AddUser
<1>2. CASE \E i \in instances : RemoveUser(i)
  BY <1>2 DEF RemoveUser
<1>3. CASE \E p \in provisions : Age(p)
  BY <1>3 DEF Age
<1>4. CASE MakeDir \/ WriteConf \/ SaveState
  BY <1>4 DEF MakeDir, WriteConf, SaveState, GoTo, End
<1>5. CASE DropInstance \/ RemoveDir \/ RemoveProvision \/ RemoveConf \/ LeaveFiles
  BY <1>5 DEF DropInstance, RemoveDir, RemoveProvision, RemoveConf, LeaveFiles, GoTo, After
<1>6. CASE WriteProvision \/ ProvisionFails
  BY <1>6 DEF WriteProvision, ProvisionFails, GoTo, End
<1>7. CASE Reload \/ ReloadRefused \/ Raise \/ Interrupt
  BY <1>7 DEF Reload, ReloadRefused, Raise, Interrupt, GoTo, End
<1>8. CASE GcProvisions \/ NginxStops \/ NginxLoads \/ UNCHANGED vars
  BY <1>8 DEF GcProvisions, NginxStops, NginxLoads, vars
<1> QED
  BY <1>1, <1>2, <1>3, <1>4, <1>5, <1>6, <1>7, <1>8 DEF Next

\* A step that is none of the tool's leaves the files of its user alone.
LEMMA Waits ==
  ASSUME [Next]_vars, step # "idle", step' = step
  PROVE  UNCHANGED <<instances, dirs, conf, provisions, job, littered>>
<1> USE DEF fileVars, nginxVars, toolVars
<1>1. CASE (\E u \in User, s \in Slot, k \in Key : AddUser(u, s, k)) \/ \E i \in instances : RemoveUser(i)
  BY <1>1 DEF AddUser, RemoveUser
<1>2. CASE \E p \in provisions : Age(p)
  BY <1>2 DEF Age
<1>3. CASE MakeDir \/ WriteConf \/ SaveState
  BY <1>3 DEF MakeDir, WriteConf, SaveState, GoTo, End
<1>4. CASE DropInstance \/ RemoveDir \/ RemoveProvision \/ RemoveConf \/ LeaveFiles
  BY <1>4 DEF DropInstance, RemoveDir, RemoveProvision, RemoveConf, LeaveFiles, GoTo, After
<1>5. CASE WriteProvision \/ ProvisionFails
  BY <1>5 DEF WriteProvision, ProvisionFails, GoTo, End
<1>6. CASE Reload \/ ReloadRefused \/ Raise \/ Interrupt
  BY <1>6 DEF Reload, ReloadRefused, Raise, Interrupt, GoTo, End
<1>7. CASE GcProvisions \/ NginxStops \/ NginxLoads \/ UNCHANGED vars
  BY <1>7 DEF GcProvisions, NginxStops, NginxLoads, vars
<1> QED
  BY <1>1, <1>2, <1>3, <1>4, <1>5, <1>6, <1>7 DEF Next

\* What instances.json says of the tool's user follows the steps.
LEMMA InstanceKept == IInv /\ [Next]_vars => MyInstance'
<1> SUFFICES ASSUME IInv, [Next]_vars, step' # "idle" PROVE MyInstance'
  BY DEF MyInstance
<1> USE DEF IInv, Books, MyInstance, Mine
<1>1. CASE step' = step
  BY <1>1, Waits DEF me
<1>2. CASE \E u \in User, s \in Slot, k \in Key : AddUser(u, s, k)
  BY <1>2 DEF AddUser, fileVars, me
<1>3. ASSUME NEW i \in instances, RemoveUser(i) PROVE MyInstance'
  BY <1>3 DEF RemoveUser, fileVars, me, TypeOK, Instance
<1>4. CASE step # "idle" /\ step' # step /\ ~SaveState /\ ~DropInstance
  <2>1. UNCHANGED instances /\ me' = me /\ job'[1].slot = job[1].slot /\ job'[1].key = job[1].key
    BY <1>4, Kept, SameJob
  <2>2. Mine' = Mine
    BY <2>1
  <2>3. CASE step = "reload" /\ step' = "undo"
    BY <2>1, <2>2, <2>3 DEF UniqueUsers
  <2>4. CASE ~(step = "reload" /\ step' = "undo")
    <3>1. /\ step' \notin {"reload", "rmSave"}
          /\ step \notin {"idle", "reload", "rmSave", "undo"}
      BY <1>4, <2>4, StepOrder
    <3>2. \A i \in instances : i.user # me
      BY <3>1 DEF TypeOK, AddStep, UndoStep, RemoveStep
    <3> QED
      BY <2>1, <2>2, <3>1, <3>2
  <2> QED
    BY <2>3, <2>4
<1>5. CASE SaveState
  BY <1>5 DEF SaveState, GoTo, me
<1>6. CASE DropInstance
  BY <1>6 DEF DropInstance, GoTo, After, me
<1> QED
  BY <1>1, <1>2, <1>3, <1>4, <1>5, <1>6, StepOrder

\* The directory of the tool's user follows the steps.
LEMMA DirKept == IInv /\ [Next]_vars => (step # "idle" /\ me \notin littered => MyDir)'
<1> SUFFICES ASSUME IInv, [Next]_vars, step' # "idle", me' \notin littered' PROVE MyDir'
  OBVIOUS
<1> USE DEF MyDir
<1>1. CASE step' = step
  BY <1>1, Waits, Kept DEF me, IInv, Books
<1>2. ASSUME NEW u \in User, NEW s \in Slot, NEW k \in Key, AddUser(u, s, k) PROVE MyDir'
  <2>1. me' = u /\ UNCHANGED <<dirs, littered>> /\ step = "idle" /\ step' = "mkdir"
    BY <1>2 DEF AddUser, fileVars, me
  <2>2. Settled(u) /\ \A i \in instances : i.user # u
    BY <1>2, <2>1 DEF AddUser, IInv, Others
  <2> QED
    BY <2>1, <2>2 DEF Settled
<1>3. ASSUME NEW i \in instances, RemoveUser(i) PROVE MyDir'
  <2>1. me' = i.user /\ UNCHANGED <<dirs, littered>> /\ step = "idle" /\ step' = "rmSave"
    BY <1>3 DEF RemoveUser, fileVars, me
  <2>2. Settled(i.user)
    BY <1>3, <2>1 DEF IInv, Others, TypeOK, Instance
  <2> QED
    BY <2>1, <2>2 DEF Settled
<1>4. CASE step # "idle" /\ step' # step
  <2>1. me' = me /\ me \notin littered /\ MyDir
    BY <1>4, SameJob, Kept DEF IInv, Books
  <2>2. CASE MakeDir
    BY <1>4, <2>1, <2>2 DEF MakeDir, GoTo, End
  <2>3. CASE RemoveDir
    BY <1>4, <2>1, <2>3 DEF RemoveDir, GoTo, After
  <2>4. CASE LeaveFiles
    BY <1>4, <2>1, <2>4 DEF LeaveFiles
  <2>5. CASE ~MakeDir /\ ~RemoveDir /\ ~LeaveFiles
    BY <1>4, <2>1, <2>5, Kept, StepOrder
  <2> QED
    BY <2>2, <2>3, <2>4, <2>5
<1> QED
  BY <1>1, <1>2, <1>3, <1>4, StepOrder

\* So does its site.
LEMMA SiteKept == IInv /\ [Next]_vars => (step # "idle" /\ me \notin littered => MySite)'
<1> SUFFICES ASSUME IInv, [Next]_vars, step' # "idle", me' \notin littered' PROVE MySite'
  OBVIOUS
<1> USE DEF MySite
<1>1. CASE step' = step
  BY <1>1, Waits, Kept DEF me, IInv, Books
<1>2. ASSUME NEW u \in User, NEW s \in Slot, NEW k \in Key, AddUser(u, s, k) PROVE MySite'
  <2>1. me' = u /\ UNCHANGED <<conf, littered>> /\ step = "idle" /\ step' = "mkdir"
    BY <1>2 DEF AddUser, fileVars, me
  <2>2. Settled(u) /\ \A i \in instances : i.user # u
    BY <1>2, <2>1 DEF AddUser, IInv, Others
  <2> QED
    BY <2>1, <2>2 DEF Settled
<1>3. ASSUME NEW i \in instances, RemoveUser(i) PROVE MySite'
  <2>1. /\ me' = i.user /\ job'[1].slot = i.slot
        /\ UNCHANGED <<conf, littered>> /\ step = "idle" /\ step' = "rmSave"
    BY <1>3 DEF RemoveUser, fileVars, me
  <2>2. Settled(i.user)
    BY <1>3, <2>1 DEF IInv, Others, TypeOK, Instance
  <2> QED
    BY <1>3, <2>1, <2>2 DEF Settled, IInv, Books, UniqueUsers
<1>4. CASE step # "idle" /\ step' # step
  <2>1. me' = me /\ job'[1].slot = job[1].slot /\ me \notin littered /\ MySite
    BY <1>4, SameJob, Kept DEF IInv, Books
  <2>2. CASE WriteConf
    BY <1>4, <2>1, <2>2 DEF WriteConf, SitesWithout, GoTo
  <2>3. CASE RemoveConf
    BY <1>4, <2>1, <2>3 DEF RemoveConf, SitesWithout, GoTo, After
  <2>4. CASE ~WriteConf /\ ~RemoveConf
    BY <1>4, <2>1, <2>4, Kept, StepOrder
  <2> QED
    BY <2>2, <2>3, <2>4
<1> QED
  BY <1>1, <1>2, <1>3, <1>4, StepOrder

\* And its provision.
LEMMA ProvisionKept == IInv /\ [Next]_vars => (step # "idle" /\ me \notin littered => MyProvisions)'
<1> SUFFICES ASSUME IInv, [Next]_vars, step' # "idle", me' \notin littered' PROVE MyProvisions'
  OBVIOUS
<1> USE DEF MyProvisions, RemoveStep
<1>1. CASE step' = step
  BY <1>1, Waits, Kept DEF me, IInv, Books
<1>2. ASSUME NEW u \in User, NEW s \in Slot, NEW k \in Key, AddUser(u, s, k) PROVE MyProvisions'
  <2>1. me' = u /\ UNCHANGED <<provisions, littered>> /\ step = "idle" /\ step' = "mkdir"
    BY <1>2 DEF AddUser, fileVars, me
  <2>2. Settled(u) /\ \A i \in instances : i.user # u
    BY <1>2, <2>1 DEF AddUser, IInv, Others
  <2> QED
    BY <2>1, <2>2 DEF Settled
<1>3. ASSUME NEW i \in instances, RemoveUser(i) PROVE MyProvisions'
  <2>1. /\ me' = i.user /\ job'[1].key = i.key /\ job'[1].made
        /\ UNCHANGED <<provisions, littered>> /\ step = "idle" /\ step' = "rmSave"
    BY <1>3 DEF RemoveUser, fileVars, me
  <2>2. Settled(i.user)
    BY <1>3, <2>1 DEF IInv, Others, TypeOK, Instance
  <2> QED
    BY <1>3, <2>1, <2>2 DEF Settled, IInv, Books, UniqueUsers
<1>4. CASE step # "idle" /\ step' # step
  <2>1. /\ me' = me /\ job'[1].key = job[1].key /\ me \notin littered /\ MyProvisions
        /\ ~WriteProvision => job' = job
    BY <1>4, SameJob, Kept DEF IInv, Books
  <2>2. CASE WriteProvision
    <3>1. ~Taken(job[1].key) /\ provisions' = Fresh \cup {Own} /\ step' = "save"
          /\ job' = <<[job[1] EXCEPT !.made = TRUE]>>
      BY <2>1, <2>2 DEF WriteProvision, End
    <3>2. job'[1].made
      BY <1>4, <3>1, JobType DEF Job, IInv
    <3> QED
      BY <2>1, <2>2, <3>1, <3>2 DEF WriteProvision, Fresh, Own
  <2>3. CASE ProvisionFails
    BY <1>4, <2>1, <2>3 DEF ProvisionFails, GoTo, Fresh
  <2>4. CASE RemoveProvision
    BY <1>4, <2>1, <2>4 DEF RemoveProvision, GoTo, After
  <2>5. CASE LeaveFiles
    BY <1>4, <2>1, <2>5 DEF LeaveFiles
  <2>6. CASE GcProvisions
    BY <1>4, <2>6 DEF GcProvisions
  <2>7. CASE ~WriteProvision /\ ~ProvisionFails /\ ~RemoveProvision /\ ~LeaveFiles /\ ~GcProvisions
    BY <1>4, <2>1, <2>7, Kept, StepOrder
  <2> QED
    BY <2>2, <2>3, <2>4, <2>5, <2>6, <2>7
<1> QED
  BY <1>1, <1>2, <1>3, <1>4, StepOrder
LEMMA BooksKept == IInv /\ [Next]_vars => Books'
<1> SUFFICES ASSUME IInv, [Next]_vars PROVE Books'
  OBVIOUS
<1> QED
  BY UsersKept, InstanceKept, DirKept, SiteKept, ProvisionKept DEF Books

\* A call that begins is about a user nothing of whom is half there ...
LEMMA OthersAtStart ==
  ASSUME IInv, [Next]_vars, step = "idle", NEW u \in User \ littered', step' = "idle" \/ u # me'
  PROVE  Settled(u)'
<1>1. u \notin littered /\ Settled(u)
  BY Kept DEF IInv, Others
<1>2. UNCHANGED <<instances, dirs, conf>>
  BY Kept DEF SaveState, DropInstance, MakeDir, RemoveDir, WriteConf, RemoveConf
<1>3. \A p \in provisions' : p \in provisions
  <2>1. CASE GcProvisions
    BY <2>1 DEF GcProvisions, Fresh
  <2>2. CASE ~GcProvisions
    BY <2>2, Kept DEF WriteProvision, ProvisionFails, RemoveProvision
  <2> QED
    BY <2>1, <2>2
<1> QED
  BY <1>1, <1>2, <1>3 DEF Settled

\* ... and while it works, what it does to the files is about that user, save
\* the provisions it removes.
LEMMA OthersAtWork ==
  ASSUME IInv, [Next]_vars, step # "idle", NEW u \in User \ littered', u # me
  PROVE  Settled(u)'
<1>1. u \notin littered /\ Settled(u)
  BY Kept DEF IInv, Others
<1>2. \A i : i.user = u => (i \in instances <=> i \in instances')
  <2>1. CASE SaveState
    BY <2>1 DEF SaveState
  <2>2. CASE DropInstance
    BY <2>2 DEF DropInstance
  <2> QED
    BY <2>1, <2>2, Kept
<1>3. u \in dirs <=> u \in dirs'
  <2>1. CASE MakeDir
    BY <2>1 DEF MakeDir
  <2>2. CASE RemoveDir
    BY <2>2 DEF RemoveDir
  <2> QED
    BY <2>1, <2>2, Kept
<1>4. \A c : c.user = u => (c \in conf <=> c \in conf')
  <2>1. CASE WriteConf
    BY <2>1 DEF WriteConf, SitesWithout
  <2>2. CASE RemoveConf
    BY <2>2 DEF RemoveConf, SitesWithout
  <2> QED
    BY <2>1, <2>2, Kept
<1>5. \A p \in provisions' : p.user = u => p \in provisions
  <2>1. CASE WriteProvision
    BY <2>1 DEF WriteProvision, Fresh, Own
  <2>2. CASE ProvisionFails
    BY <2>2 DEF ProvisionFails, Fresh, Own
  <2>3. CASE RemoveProvision
    BY <2>3 DEF RemoveProvision
  <2>4. CASE GcProvisions
    BY <2>4 DEF GcProvisions
  <2> QED
    BY <2>1, <2>2, <2>3, <2>4, Kept
<1> QED
  BY <1>1, <1>2, <1>3, <1>4, <1>5 DEF Settled

\* A call that ends has left its user with everything or with nothing, or among
\* those something may be left of.
LEMMA MineAtEnd ==
  ASSUME IInv, [Next]_vars, step # "idle", step' = "idle", me \notin littered', NEW u, u = me
  PROVE  Settled(u)'
<1> USE DEF Settled
<1>1. MyInstance /\ MyDir /\ MySite /\ MyProvisions /\ UniqueUsers /\ u \notin littered
  BY Kept DEF IInv, Books
<1>2. CASE MakeDir
  BY <1>1, <1>2 DEF MakeDir, GoTo, MyDir
<1>3. CASE WriteProvision
  BY <1>3 DEF WriteProvision
<1>4. CASE RemoveConf
  <2>1. step = "undoConf"
    BY <1>4 DEF RemoveConf, GoTo, After
  <2> QED
    BY <1>1, <1>4, <2>1 DEF RemoveConf, SitesWithout, MyInstance, MyDir, MySite, MyProvisions
<1>5. CASE Reload \/ ReloadRefused \/ Interrupt
  <2>1. UNCHANGED <<instances, dirs, conf, provisions>>
    BY <1>5 DEF Reload, ReloadRefused, Interrupt, fileVars
  <2>2. step \in {"mkdir", "rmSave", "reload", "rmReload"}
    BY <1>5 DEF Reload, ReloadRefused, Interrupt, GoTo
  <2>3. CASE step \in {"mkdir", "rmReload"}
    BY <1>1, <2>1, <2>3 DEF MyInstance, MyDir, MySite, MyProvisions
  <2>4. CASE step \in {"rmSave", "reload"}
    <3>1. Mine \in instances /\ \A i \in instances : i.user = u => i = Mine
      BY <1>1, <2>4 DEF MyInstance, Mine, UniqueUsers
    <3>2. /\ u \in dirs /\ [user |-> u, slot |-> job[1].slot] \in conf
          /\ \A c \in conf : c.user = u => c.slot = job[1].slot
          /\ \A p \in provisions : p.user = u => p.key = job[1].key
      BY <1>1, <2>4 DEF MyDir, MySite, MyProvisions, RemoveStep
    <3>3. Mine.user = u /\ Mine.slot = job[1].slot /\ Mine.key = job[1].key
      BY DEF Mine
    <3>4. Settled(u)
      BY <3>1, <3>2, <3>3
    <3> QED
      BY <2>1, <3>4
  <2> QED
    BY <2>2, <2>3, <2>4
<1>6. CASE ~(MakeDir \/ WriteProvision \/ RemoveConf \/ Reload \/ ReloadRefused \/ Interrupt)
  <2> USE DEF GoTo, After
  <2>1. CASE WriteConf \/ ProvisionFails \/ SaveState \/ Raise
    BY <2>1 DEF WriteConf, ProvisionFails, SaveState, Raise
  <2>2. CASE DropInstance \/ RemoveDir \/ RemoveProvision \/ LeaveFiles
    BY <2>2 DEF DropInstance, RemoveDir, RemoveProvision, LeaveFiles
  <2>3. CASE (\E v \in User, s \in Slot, k \in Key : AddUser(v, s, k)) \/ \E i \in instances : RemoveUser(i)
    BY <2>3 DEF AddUser, RemoveUser
  <2>4. CASE (\E p \in provisions : Age(p)) \/ GcProvisions \/ NginxStops \/ NginxLoads \/ UNCHANGED vars
    BY <2>4 DEF Age, GcProvisions, NginxStops, NginxLoads, vars, toolVars
  <2> QED
    BY <1>6, <2>1, <2>2, <2>3, <2>4 DEF Next
<1> QED
  BY <1>2, <1>3, <1>4, <1>5, <1>6

LEMMA OthersKept == IInv /\ [Next]_vars => Others'
<1> SUFFICES ASSUME IInv, [Next]_vars, NEW u \in User \ littered', step' = "idle" \/ u # me'
             PROVE  Settled(u)'
  BY DEF Others
<1>1. CASE step = "idle"
  BY <1>1, OthersAtStart
<1>2. CASE step # "idle" /\ u # me
  BY <1>2, OthersAtWork
<1>3. CASE step # "idle" /\ u = me
  <2>1. step' = "idle"
    BY <1>3, SameJob DEF IInv
  <2> QED
    BY <1>3, <2>1, MineAtEnd
<1> QED
  BY <1>1, <1>2, <1>3

-----------------------------------------------------------------------------
(* A slot of one's own.                                                     *)

\* What nginx serves was written into its configuration before.
LEMMA LoadedKept == IInv /\ [Next]_vars => loaded' \subseteq conf \cup loaded
<1> SUFFICES ASSUME [Next]_vars PROVE loaded' \subseteq conf \cup loaded
  OBVIOUS
<1> USE DEF nginxVars
<1>1. CASE (\E u \in User, s \in Slot, k \in Key : AddUser(u, s, k)) \/ \E i \in instances : RemoveUser(i)
  BY <1>1 DEF AddUser, RemoveUser
<1>2. CASE \E p \in provisions : Age(p)
  BY <1>2 DEF Age
<1>3. CASE MakeDir \/ WriteConf \/ SaveState \/ WriteProvision \/ ProvisionFails
  BY <1>3 DEF MakeDir, WriteConf, SaveState, WriteProvision, ProvisionFails
<1>4. CASE DropInstance \/ RemoveDir \/ RemoveProvision \/ RemoveConf \/ LeaveFiles
  BY <1>4 DEF DropInstance, RemoveDir, RemoveProvision, RemoveConf, LeaveFiles
<1>5. CASE Reload \/ ReloadRefused \/ Raise \/ Interrupt
  BY <1>5 DEF Reload, ReloadRefused, Raise, Interrupt
<1>6. CASE GcProvisions \/ NginxStops \/ NginxLoads \/ UNCHANGED vars
  BY <1>6 DEF GcProvisions, NginxStops, NginxLoads, vars
<1> QED
  BY <1>1, <1>2, <1>3, <1>4, <1>5, <1>6 DEF Next

\* A slot that passes the checks is nobody's in either place.
LEMMA ReservedKept == IInv /\ [Next]_vars => Reserved'
<1> SUFFICES ASSUME IInv, [Next]_vars, step' \in {"mkdir", "conf"},
                    NEW c \in (conf \cup loaded)', c.slot = (job[1].slot)', c.user \notin littered'
             PROVE  c.user = me'
  BY DEF Reserved
<1>1. c.user \notin littered
  BY Kept
<1>2. ~WriteConf /\ ~RemoveConf
  BY DEF WriteConf, RemoveConf, GoTo, After
<1>3. c \in conf \cup loaded
  BY <1>2, Kept, LoadedKept
<1>4. ASSUME NEW u \in User, NEW s \in Slot, NEW k \in Key, AddUser(u, s, k) PROVE c.user = me'
  <2>1. step = "idle" /\ me' = u /\ c.slot = s /\ ~Listening(s) /\ \A i \in instances : i.slot # s
    BY <1>4 DEF AddUser, me
  <2>2. c \in conf /\ c.user \in User
    BY <1>3, <2>1 DEF Listening, IInv, TypeOK, Site
  <2>3. Settled(c.user)
    BY <1>1, <2>1, <2>2 DEF IInv, Others
  <2> QED
    BY <2>1, <2>2, <2>3 DEF Settled
<1>5. CASE step' = step
  BY <1>1, <1>3, <1>5, Waits DEF IInv, Reserved, me
<1>6. CASE MakeDir
  <2>1. me' = me /\ (job[1].slot)' = job[1].slot /\ step = "mkdir"
    BY <1>6, SameJob DEF MakeDir, IInv
  <2> QED
    BY <1>1, <1>3, <2>1 DEF IInv, Reserved
<1> QED
  BY <1>4, <1>5, <1>6, StepOrder

LEMMA SlotKept == IInv /\ [Next]_vars => OwnSlot'
<1> SUFFICES ASSUME IInv, [Next]_vars PROVE OwnSlot'
  OBVIOUS
<1>1. loaded' \subseteq conf \cup loaded /\ littered \subseteq littered'
  BY LoadedKept, Kept
<1>2. CASE WriteConf
  <2>1. UNCHANGED littered /\ Reserved /\ OwnSlot /\ step = "conf"
    BY <1>2 DEF WriteConf, IInv
  <2>2. \A c \in conf' \cup loaded' :
          c \in conf \cup loaded \/ (c.user = me /\ c.slot = job[1].slot)
    BY <1>1, <1>2 DEF WriteConf, SitesWithout
  <2> QED
    BY <2>1, <2>2 DEF OwnSlot, Reserved
<1>3. CASE ~WriteConf
  <2>1. conf' \subseteq conf
    BY <1>3, Kept DEF RemoveConf, SitesWithout
  <2> QED
    BY <1>1, <2>1 DEF OwnSlot, IInv
<1> QED
  BY <1>2, <1>3

LEMMA InductiveInvariant == Spec => []IInv
<1>1. IInv /\ [Next]_vars => IInv'
  BY TypeKept, BooksKept, OthersKept, ReservedKept, SlotKept DEF IInv
<1> QED
  BY InitBooks, <1>1, PTL DEF Spec

\* Whatever failed in a call of add or remove and was rolled back: between two
\* calls a user is in instances.json, has its directory, its one site and no
\* provision but its own, or has nothing at all (add_user, remove_user).
THEOREM RollbackWhole == Spec => []NothingLeftOver
<1>1. IInv => NothingLeftOver
  <2> SUFFICES ASSUME IInv, step = "idle", NEW u \in User \ littered
               PROVE  LET own == {i \in instances : i.user = u}
                      IN /\ u \in dirs <=> own # {}
                         /\ {c \in conf : c.user = u}
                              = {[user |-> i.user, slot |-> i.slot] : i \in own}
                         /\ \A p \in provisions : p.user = u => \E i \in own : p.key = i.key
    BY DEF NothingLeftOver
  <2> DEFINE own == {i \in instances : i.user = u}
  <2>1. Settled(u)
    BY DEF IInv, Others
  <2>2. u \in dirs <=> own # {}
    BY <2>1 DEF Settled
  <2>3. \A p \in provisions : p.user = u => \E i \in own : p.key = i.key
    BY <2>1 DEF Settled
  <2>4. ASSUME NEW c \in conf, c.user = u
        PROVE  \E i \in own : c = [user |-> i.user, slot |-> i.slot]
    BY <2>1, <2>4 DEF Settled, IInv, TypeOK, Site
  <2>5. ASSUME NEW i \in own PROVE [user |-> i.user, slot |-> i.slot] \in conf
    BY <2>1 DEF Settled
  <2> QED
    BY <2>2, <2>3, <2>4, <2>5
<1> QED
  BY <1>1, InductiveInvariant, PTL

\* A public port is given to one user only, in the files, in what nginx serves
\* and across the two (find_free_slot, port_listening): a call checks both before
\* it writes, and nobody else writes until it ends.
THEOREM SlotsApart == Spec => []OwnSlot
<1>1. IInv => OwnSlot
  BY DEF IInv
<1> QED
  BY <1>1, InductiveInvariant, PTL
=============================================================================
