-------------------------------- MODULE OneRun --------------------------------
(***************************************************************************)
(* What the orchestrator promises of a task whose user does one thing at a  *)
(* time: at most one Gardener run works for it.  A run that is superseded,  *)
(* stopped or deleted is dismissed first, and a dismissed run leaves.  A    *)
(* stop or a delete is recorded when nobody works any more, and after a     *)
(* delete no run begins.                                                    *)
(***************************************************************************)
CONSTANTS Run, NoRun

VARIABLES
  working,  \* the run that works for the task, or NoRun
  leaving,  \* the dismissed runs that are still there
  stopped,  \* the user's stop stands
  gone      \* the task is deleted

vars == <<working, leaving, stopped, gone>>

Init == working = NoRun /\ leaving = {} /\ stopped = FALSE /\ gone = FALSE

Begin(r) ==
  /\ working = NoRun /\ r \notin leaving /\ ~gone
  /\ working' = r
  /\ UNCHANGED <<leaving, stopped, gone>>

Dismiss ==
  /\ working # NoRun
  /\ leaving' = leaving \cup {working}
  /\ working' = NoRun
  /\ UNCHANGED <<stopped, gone>>

\* A run ends by itself ...
End ==
  /\ working # NoRun
  /\ working' = NoRun
  /\ UNCHANGED <<leaving, stopped, gone>>

\* ... or because it was dismissed.
Leave(r) ==
  /\ r \in leaving
  /\ leaving' = leaving \ {r}
  /\ UNCHANGED <<working, stopped, gone>>

Stop ==
  /\ working = NoRun
  /\ stopped' = TRUE
  /\ UNCHANGED <<working, leaving, gone>>

\* A new message, or a question to the user.
Withdraw ==
  /\ stopped' = FALSE
  /\ UNCHANGED <<working, leaving, gone>>

Delete ==
  /\ working = NoRun
  /\ gone' = TRUE
  /\ UNCHANGED <<working, leaving, stopped>>

Next ==
  \/ \E r \in Run : Begin(r) \/ Leave(r)
  \/ Dismiss \/ End \/ Stop \/ Withdraw \/ Delete

Safety == Init /\ [][Next]_vars

\* A run need not end, but a dismissed one leaves.
Spec == Safety /\ \A r \in Run : WF_vars(Leave(r))
=============================================================================
