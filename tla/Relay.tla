-------------------------------- MODULE Relay --------------------------------
(***************************************************************************)
(* gardener-relay: the tool that gives each user of a relay a port of its    *)
(* own.  It keeps the users in instances.json, and for each a directory, a   *)
(* file in the configuration of nginx and, until it is too old, a provision  *)
(* under a setup key.                                                       *)
(*                                                                          *)
(* One call of the tool runs at a time; it does one thing after the other    *)
(* to the files and may end after each.  A public port and the remote port   *)
(* behind it are one slot.                                                  *)
(***************************************************************************)
EXTENDS Integers

CONSTANTS
  User,
  Alike,     \* users whose names make the same proxy name
  Slot,
  Key,       \* setup keys
  MaxFaults  \* bound: interrupted calls, errors and stops of nginx, together

ASSUME UserAssumption == Alike \subseteq User
ASSUME FaultAssumption == MaxFaults \in Nat

VARIABLES
  instances,   \* instances.json
  dirs,        \* users that have a directory
  conf,        \* the users' files in the configuration of nginx
  provisions,  \* provisions, each in the directory of its key
  old,         \* keys whose provision is past its time
  up,          \* nginx runs
  loaded,      \* what it has loaded of conf
  step,        \* of the tool: "idle", or what it does next
  job,         \* its user, slot and key; whether the rollback knows the key
  faults,      \* so far
  littered     \* history: users something of whom may have been left behind

fileVars == <<instances, dirs, conf, provisions, old>>
nginxVars == <<up, loaded>>
toolVars == <<step, job>>
vars == <<fileVars, nginxVars, toolVars, faults, littered>>

Instance == [user : User, slot : Slot, key : Key]
Site == [user : User, slot : Slot]
Provision == [user : User, key : Key]

AddStep == {"mkdir", "conf", "provision", "save", "reload"}
UndoStep == {"undo", "undoDir", "undoProvision", "undoConf"}
RemoveStep == {"rmSave", "rmConf", "rmDir", "rmProvision", "rmReload"}

Init ==
  /\ instances = {} /\ dirs = {} /\ conf = {} /\ provisions = {} /\ old = {}
  /\ up = TRUE /\ loaded = {}
  /\ step = "idle" /\ job = <<>>
  /\ faults = 0 /\ littered = {}

Fault == faults < MaxFaults /\ faults' = faults + 1

me == job[1].user

\* The tool ends.
End == step' = "idle" /\ job' = <<>>

\* It ends, or goes on with s.
GoTo(s) == step' = s /\ job' = IF s = "idle" THEN <<>> ELSE job

-----------------------------------------------------------------------------
(* add_user.                                                                *)

Proxy(u) == IF u \in Alike THEN "alike" ELSE u

\* Mutant: only the state is asked for a port that is in use.
NeverListening(s) == FALSE

\* port_listening, of the ports nginx serves.
Listening(s) == \E c \in loaded : c.slot = s

\* The state is read, the name and the ports are checked.  find_free_slot skips
\* ports that other programs have, and the caller may name others: any slot
\* that passes the checks.
AddUser(u, s, k) ==
  /\ step = "idle"
  /\ \A i \in instances : i.user # u /\ Proxy(i.user) # Proxy(u) /\ i.slot # s
  /\ ~Listening(s)
  /\ step' = "mkdir" /\ job' = <<[user |-> u, slot |-> s, key |-> k, made |-> FALSE]>>
  /\ UNCHANGED <<fileVars, nginxVars, faults, littered>>

\* The directory must be new; htpasswd and frpc.toml are written into it.
MakeDir ==
  /\ step = "mkdir"
  /\ IF me \in dirs THEN End /\ UNCHANGED dirs ELSE GoTo("conf") /\ dirs' = dirs \cup {me}
  /\ UNCHANGED <<instances, conf, provisions, old, nginxVars, faults, littered>>

SitesWithout(u) == {c \in conf : c.user # u}

WriteConf ==
  /\ step = "conf"
  /\ conf' = SitesWithout(me) \cup {[user |-> me, slot |-> job[1].slot]}
  /\ GoTo("provision")
  /\ UNCHANGED <<instances, dirs, provisions, old, nginxVars, faults, littered>>

\* cleanup_old_provisions.
Fresh == {p \in provisions : p.key \notin old}
Taken(k) == \E p \in Fresh : p.key = k
Own == [user |-> me, key |-> job[1].key]

\* write_provision.  A key whose directory is there ends the tool by SystemExit,
\* which is no Exception: nothing is rolled back.
WriteProvision ==
  /\ step = "provision"
  /\ IF Taken(job[1].key)
     THEN End /\ provisions' = Fresh /\ littered' = littered \cup {me}
     ELSE /\ provisions' = Fresh \cup {Own} /\ UNCHANGED littered
          /\ step' = "save" /\ job' = <<[job[1] EXCEPT !.made = TRUE]>>
  /\ old' = {}
  /\ UNCHANGED <<instances, dirs, conf, nginxVars, faults>>

\* An error in it is an Exception, but the rollback does not know the key.
ProvisionFails ==
  /\ step = "provision" /\ ~Taken(job[1].key)
  /\ Fault
  /\ \/ provisions' = Fresh /\ UNCHANGED littered
     \/ provisions' = Fresh \cup {Own} /\ littered' = littered \cup {me}
  /\ old' = {}
  /\ GoTo("undo")
  /\ UNCHANGED <<instances, dirs, conf, nginxVars>>

\* save_state replaces the file.
SaveState ==
  /\ step = "save"
  /\ instances' = instances \cup {[user |-> me, slot |-> job[1].slot, key |-> job[1].key]}
  /\ GoTo("reload")
  /\ UNCHANGED <<dirs, conf, provisions, old, nginxVars, faults, littered>>

Reload ==
  /\ step \in {"reload", "rmReload"} /\ up
  /\ loaded' = conf
  /\ End
  /\ UNCHANGED <<fileVars, up, faults, littered>>

\* systemctl cannot reload what does not run.
ReloadRefused ==
  /\ step \in {"reload", "rmReload"} /\ ~up
  /\ GoTo(IF step = "reload" THEN "undo" ELSE "idle")
  /\ UNCHANGED <<fileVars, nginxVars, faults, littered>>

\* An Exception is caught ...
Raise ==
  /\ step \in {"save", "reload"}
  /\ Fault
  /\ GoTo("undo")
  /\ UNCHANGED <<fileVars, nginxVars, littered>>

\* ... SystemExit (nginx -t finds an error, a command takes too long) and the
\* keyboard are not, nor is anything outside the try.
Interrupt ==
  /\ step # "idle"
  /\ Fault
  /\ littered' = IF step \in {"mkdir", "rmSave", "rmReload"} THEN littered
                 ELSE littered \cup {me}
  /\ End
  /\ UNCHANGED <<fileVars, nginxVars>>

-----------------------------------------------------------------------------
(* The rollback, and remove_user.                                           *)

\* Mutant: the rollback keeps the file of nginx.
AfterKeepingConf(s) ==
  CASE s = "undo" -> "undoDir" [] s = "undoDir" -> "undoProvision"
    [] s = "undoProvision" -> "idle"
    [] s = "rmSave" -> "rmConf" [] s = "rmConf" -> "rmDir"
    [] s = "rmDir" -> "rmProvision" [] s = "rmProvision" -> "rmReload"
    [] OTHER -> "idle"

\* What follows a step.
After(s) ==
  CASE s = "undo" -> "undoDir" [] s = "undoDir" -> "undoProvision"
    [] s = "undoProvision" -> "undoConf"
    [] s = "rmSave" -> "rmConf" [] s = "rmConf" -> "rmDir"
    [] s = "rmDir" -> "rmProvision" [] s = "rmProvision" -> "rmReload"
    [] OTHER -> "idle"

RemoveUser(i) ==
  /\ step = "idle" /\ i \in instances
  /\ step' = "rmSave"
  /\ job' = <<[user |-> i.user, slot |-> i.slot, key |-> i.key, made |-> TRUE]>>
  /\ UNCHANGED <<fileVars, nginxVars, faults, littered>>

DropInstance ==
  /\ step \in {"undo", "rmSave"}
  /\ instances' = {i \in instances : i.user # me}
  /\ GoTo(After(step))
  /\ UNCHANGED <<dirs, conf, provisions, old, nginxVars, faults, littered>>

RemoveDir ==
  /\ step \in {"undoDir", "rmDir"}
  /\ dirs' = dirs \ {me}
  /\ GoTo(After(step))
  /\ UNCHANGED <<instances, conf, provisions, old, nginxVars, faults, littered>>

\* Whoever the provision of the key is for by now.
RemoveProvision ==
  /\ step \in {"undoProvision", "rmProvision"}
  /\ provisions' = IF job[1].made THEN {p \in provisions : p.key # job[1].key} ELSE provisions
  /\ old' = IF job[1].made THEN old \ {job[1].key} ELSE old
  /\ GoTo(After(step))
  /\ UNCHANGED <<instances, dirs, conf, nginxVars, faults, littered>>

\* rmtree ignores errors.
LeaveFiles ==
  /\ step \in {"undoDir", "rmDir", "undoProvision", "rmProvision"}
  /\ Fault
  /\ littered' = littered \cup {me}
  /\ GoTo(After(step))
  /\ UNCHANGED <<fileVars, nginxVars>>

RemoveConf ==
  /\ step \in {"undoConf", "rmConf"}
  /\ conf' = SitesWithout(me)
  /\ GoTo(After(step))
  /\ UNCHANGED <<instances, dirs, provisions, old, nginxVars, faults, littered>>

GcProvisions ==
  /\ step = "idle"
  /\ provisions' = Fresh /\ old' = {}
  /\ UNCHANGED <<instances, dirs, conf, nginxVars, toolVars, faults, littered>>

-----------------------------------------------------------------------------
(* The world around.                                                        *)

\* A provision passes its time.
Age(p) ==
  /\ p \in provisions
  /\ old' = old \cup {p.key}
  /\ UNCHANGED <<instances, dirs, conf, provisions, nginxVars, toolVars, faults, littered>>

NginxStops ==
  /\ up
  /\ Fault
  /\ up' = FALSE /\ loaded' = {}
  /\ UNCHANGED <<fileVars, toolVars, littered>>

\* nginx starts, or somebody else reloads it.
NginxLoads ==
  /\ up' = TRUE /\ loaded' = conf
  /\ UNCHANGED <<fileVars, toolVars, faults, littered>>

Next ==
  \/ \E u \in User, s \in Slot, k \in Key : AddUser(u, s, k)
  \/ MakeDir \/ WriteConf \/ WriteProvision \/ ProvisionFails \/ SaveState
  \/ Reload \/ ReloadRefused \/ Raise \/ Interrupt
  \/ \E i \in instances : RemoveUser(i)
  \/ DropInstance \/ RemoveDir \/ RemoveProvision \/ RemoveConf \/ LeaveFiles
  \/ GcProvisions
  \/ \E p \in provisions : Age(p)
  \/ NginxStops \/ NginxLoads

Spec == Init /\ [][Next]_vars

-----------------------------------------------------------------------------
(* Properties.                                                              *)

\* The type of every variable; the tool has a job exactly when it works.
TypeOK ==
  /\ instances \subseteq Instance /\ dirs \subseteq User
  /\ conf \subseteq Site /\ loaded \subseteq Site
  /\ provisions \subseteq Provision /\ old \subseteq Key
  /\ up \in BOOLEAN
  /\ step \in {"idle"} \cup AddStep \cup UndoStep \cup RemoveStep
  /\ IF step = "idle" THEN job = <<>>
     ELSE \E j \in [user : User, slot : Slot, key : Key, made : BOOLEAN] : job = <<j>>
  /\ faults \in 0..MaxFaults
  /\ littered \subseteq User

\* Between two calls a user is known with everything or not at all, whatever
\* failed and was rolled back: one directory, one site at its own slot, and no
\* provision but that of its key.  Only calls that ended without a rollback, or
\* with one that left files, are excepted.
NothingLeftOver ==
  step = "idle" => \A u \in User \ littered :
    LET own == {i \in instances : i.user = u}
    IN /\ u \in dirs <=> own # {}
       /\ {c \in conf : c.user = u} = {[user |-> i.user, slot |-> i.slot] : i \in own}
       /\ \A p \in provisions : p.user = u => \E i \in own : p.key = i.key

\* No two users share a slot, neither in the files nor in what nginx serves nor
\* across the two: a slot is given away only when nginx has let go of it.
OwnSlot ==
  \A c, d \in conf \cup loaded :
    c.slot = d.slot /\ {c.user, d.user} \cap littered = {} => c.user = d.user
=============================================================================
