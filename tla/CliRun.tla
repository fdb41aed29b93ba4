------------------------------- MODULE CliRun -------------------------------
(***************************************************************************)
(* ShellRunner.Run: the calls of a CLI, the two goroutines that read its     *)
(* pipes, the wait for its end, the kill at a cancel, and the answer handed  *)
(* back; and, in the callback of each line, what a call leaves in the usage  *)
(* file of its task and in its log.                                         *)
(*                                                                          *)
(* The CLI is external: it prints its lines on stdout and stderr, writes    *)
(* its answer to the output file (Codex only) and ends.  Several calls of a *)
(* task run at once, one for each Tree, on one usage file.                  *)
(***************************************************************************)
EXTENDS UsageLedger, FiniteSets, TLC

CONSTANTS
  Run,       \* ids of calls
  Scripts,   \* what the CLI of a call may be and print
  PipeSize,  \* lines a pipe holds before the CLI blocks
  Neighbour, \* the id of a call whose own course is left out, on the same file
  Keeps,     \* the lines it keeps there
  OldLog     \* the log the task had before its first call

Pipe == {"stdout", "stderr"}

\* A line that is not logged says no more than its kind.
Line == {l \in [kind : Kinds, n : Nat, quote : [kind : Kinds \ {"mark"}, n : Nat]] :
           l.kind \in Unlogged => l.quote = NoQuote}

ASSUME ScriptAssumption ==
  Scripts \subseteq [engine : {"codex", "claude"}, stdout : Seq(Line), stderr : Seq(Line)]
ASSUME SizeAssumption == PipeSize \in Nat \ {0}
ASSUME NeighbourAssumption == Neighbour \notin Run /\ Keeps \in Seq(Line)
ASSUME LogAssumption == OldLog \in Seq(Line)

VARIABLES
  script,   \* the CLI of each call
  phase,    \* of a call: "new", "run", "waited", "returned"
  proc,     \* of its process: "none", "alive", "done", "failed", "killed"
  todo,     \* lines not printed yet
  pipe,     \* lines printed and not read
  reading,  \* the readers at work
  hand,     \* the line a reader has collected and not yet given to OnLine
  out,      \* the lines collected, of both pipes
  file,     \* the output file: "none" or "stale" (what an earlier call left), "own"
            \* or "empty" (written by this call)
  ctx,      \* the calls whose context is cancelled
  result,   \* what Run returned: error or not, and where the output is from
  expect,   \* usageRecorder.expectTotal
  ledger,   \* usage.jsonl
  kept,     \* how many lines the neighbour has kept
  log,      \* the log file of the call
  seen,     \* history: the lines as Record took them, in that order
  lost      \* history: calls some of whose lines nobody read

callVars == <<script, ctx>>
procVars == <<proc, todo>>
readVars == <<reading, hand, out>>
usageVars == <<expect, ledger, log, seen>>
vars == <<phase, result, file, callVars, procVars, pipe, readVars, usageVars, kept, lost>>

NoResult == [err |-> FALSE, from |-> "none"]

Init ==
  /\ script \in [Run -> Scripts]
  /\ phase = [r \in Run |-> "new"] /\ proc = [r \in Run |-> "none"]
  /\ todo = [r \in Run |-> [s \in Pipe |-> script[r][s]]]
  /\ pipe = [r \in Run |-> [s \in Pipe |-> <<>>]]
  /\ reading = {} /\ hand = [r \in Run |-> [s \in Pipe |-> <<>>]]
  /\ out = [r \in Run |-> <<>>]
  /\ file \in [Run -> {"none", "stale"}]
  /\ ctx = {} /\ result = [r \in Run |-> NoResult]
  /\ expect = {} /\ ledger = <<>> /\ kept = 0 /\ log = [r \in Run |-> OldLog]
  /\ seen = [r \in Run |-> <<>>] /\ lost = {}

-----------------------------------------------------------------------------
(* The CLI, and the cancel from the orchestrator.                           *)

\* cmd.Start and the two readers; or no CLI is found.
Start(r) ==
  /\ phase[r] = "new"
  /\ \/ /\ phase' = [phase EXCEPT ![r] = "run"]
        /\ proc' = [proc EXCEPT ![r] = "alive"]
        /\ reading' = reading \cup ({r} \X Pipe)
        /\ UNCHANGED result
     \/ /\ phase' = [phase EXCEPT ![r] = "returned"]
        /\ result' = [result EXCEPT ![r].err = TRUE]
        /\ UNCHANGED <<proc, reading>>
  /\ UNCHANGED <<file, callVars, todo, pipe, hand, out, usageVars, kept, lost>>

\* The next line goes into a pipe that has room.
PrintLine(r, s) ==
  /\ proc[r] = "alive" /\ todo[r][s] # <<>> /\ Len(pipe[r][s]) < PipeSize
  /\ todo' = [todo EXCEPT ![r][s] = Tail(@)]
  /\ pipe' = [pipe EXCEPT ![r][s] = Append(@, todo[r][s][1])]
  /\ UNCHANGED <<phase, result, file, callVars, proc, readVars, usageVars, kept, lost>>

Quiet == UNCHANGED <<phase, result, callVars, todo, pipe, readVars, usageVars, kept, lost>>

\* Codex may write its last message, or none, to the file named by -o.
WriteAnswer(r) ==
  /\ proc[r] = "alive" /\ script[r].engine = "codex" /\ file[r] \in {"none", "stale"}
  /\ \E content \in {"own", "empty"} : file' = [file EXCEPT ![r] = content]
  /\ UNCHANGED proc /\ Quiet

\* The CLI is done when it has printed everything, its last message written or not ...
Exit(r) ==
  /\ proc[r] = "alive"
  /\ \A s \in Pipe : todo[r][s] = <<>>
  /\ proc' = [proc EXCEPT ![r] = "done"]
  /\ UNCHANGED file /\ Quiet

\* ... or it fails before.
Fail(r) ==
  /\ proc[r] = "alive"
  /\ proc' = [proc EXCEPT ![r] = "failed"]
  /\ UNCHANGED file /\ Quiet

Cancel(r) ==
  /\ phase[r] \in {"run", "waited"} /\ r \notin ctx
  /\ ctx' = ctx \cup {r}
  /\ UNCHANGED <<phase, result, file, script, procVars, pipe, readVars, usageVars, kept, lost>>

\* Mutant: the process is not told of the cancel.
KillNothing(r) == FALSE /\ UNCHANGED vars

\* cmd.Cancel: killProcess ends the process group.
Kill(r) ==
  /\ r \in ctx /\ proc[r] = "alive"
  /\ proc' = [proc EXCEPT ![r] = "killed"]
  /\ UNCHANGED file /\ Quiet

-----------------------------------------------------------------------------
(* collect, once for each pipe.                                             *)

\* Mutant: without the mutex a line is lost when the other reader is at work.
ReadUnlocked(r, s) ==
  /\ <<r, s>> \in reading /\ hand[r][s] = <<>>
  /\ pipe[r][s] # <<>> /\ pipe[r][s][1].kind # "long"
  /\ pipe' = [pipe EXCEPT ![r][s] = Tail(@)]
  /\ hand' = [hand EXCEPT ![r][s] = <<pipe[r][s][1]>>]
  /\ out' = IF \A p \in Pipe : hand[r][p] = <<>>
            THEN [out EXCEPT ![r] = Append(@, [pipe |-> s, line |-> pipe[r][s][1]])] ELSE out
  /\ UNCHANGED <<phase, result, file, callVars, procVars, reading, usageVars, kept, lost>>

\* The scanner has the next line; it is added to the output under the mutex.
ReadLine(r, s) ==
  /\ <<r, s>> \in reading /\ hand[r][s] = <<>>
  /\ pipe[r][s] # <<>> /\ pipe[r][s][1].kind # "long"
  /\ pipe' = [pipe EXCEPT ![r][s] = Tail(@)]
  /\ hand' = [hand EXCEPT ![r][s] = <<pipe[r][s][1]>>]
  /\ out' = [out EXCEPT ![r] = Append(@, [pipe |-> s, line |-> pipe[r][s][1]])]
  /\ UNCHANGED <<phase, result, file, callVars, procVars, reading, usageVars, kept, lost>>

\* OnLine: usage.Record, then the log.
OnLine(r, s) ==
  /\ hand[r][s] # <<>>
  /\ LET line == Cleaned(s, hand[r][s][1]) IN
       /\ expect' = IF Expects(r \in expect, line) THEN expect \cup {r} ELSE expect \ {r}
       /\ ledger' = IF Kept(r \in expect, line)
                    THEN Append(ledger, [run |-> r, line |-> line]) ELSE ledger
       /\ log' = [log EXCEPT ![r] = @ \o LogEntry(s, hand[r][s][1])]
       /\ seen' = [seen EXCEPT ![r] = Append(@, line)]
  /\ hand' = [hand EXCEPT ![r][s] = <<>>]
  /\ UNCHANGED <<phase, result, file, callVars, procVars, pipe, reading, out, kept, lost>>

\* Record, of the other call.
NeighbourKeeps ==
  /\ kept < Len(Keeps)
  /\ kept' = kept + 1
  /\ ledger' = Append(ledger, [run |-> Neighbour, line |-> Keeps[kept + 1]])
  /\ UNCHANGED <<phase, result, file, callVars, procVars, pipe, readVars, expect, log, seen, lost>>

\* Mutant: the pipe does not end with the process.
StopAtLongLine(r, s) ==
  /\ <<r, s>> \in reading /\ hand[r][s] = <<>>
  /\ pipe[r][s] # <<>> /\ pipe[r][s][1].kind = "long"
  /\ reading' = reading \ {<<r, s>>}
  /\ UNCHANGED <<phase, result, file, callVars, procVars, pipe, hand, out, usageVars, kept, lost>>

\* The end of the pipe, or a line over 1 MB: what follows it stays in the pipe.
StopReading(r, s) ==
  /\ <<r, s>> \in reading /\ hand[r][s] = <<>>
  /\ \/ pipe[r][s] = <<>> /\ proc[r] # "alive"
     \/ pipe[r][s] # <<>> /\ pipe[r][s][1].kind = "long"
  /\ reading' = reading \ {<<r, s>>}
  /\ UNCHANGED <<phase, result, file, callVars, procVars, pipe, hand, out, usageVars, kept, lost>>

-----------------------------------------------------------------------------
(* Run's own goroutine.                                                     *)

\* cmd.Wait closes the pipes once the process is gone, read or not.
Wait(r) ==
  /\ phase[r] = "run" /\ proc[r] # "alive"
  /\ phase' = [phase EXCEPT ![r] = "waited"]
  /\ pipe' = [pipe EXCEPT ![r] = [s \in Pipe |-> <<>>]]
  /\ lost' = IF \E s \in Pipe : pipe[r][s] # <<>> \/ todo[r][s] # <<>> THEN lost \cup {r} ELSE lost
  /\ UNCHANGED <<result, file, callVars, procVars, readVars, usageVars, kept>>

\* Mutant: the goroutines are not waited for.
ReadersLeft(r) == TRUE

\* wg.Wait.
ReadersDone(r) == \A s \in Pipe : <<r, s>> \notin reading

\* Mutant: the error of the process is forgotten.
CancelledOnly(r) == r \in ctx

Failed(r) == r \in ctx \/ proc[r] # "done"

\* leakedProviderToolCall.
Leaked(r) == script[r].engine = "claude" /\ \E i \in DOMAIN out[r] : out[r][i].line.kind = "leak"

\* Codex: what is in the file, whoever wrote it, else the lines.  Claude: the
\* lines, which are written to the file.
Return(r) ==
  /\ phase[r] = "waited" /\ ReadersDone(r)
  /\ phase' = [phase EXCEPT ![r] = "returned"]
  /\ result' = [result EXCEPT ![r] =
       [err |-> Failed(r) \/ Leaked(r),
        from |-> IF script[r].engine = "codex" /\ file[r] \in {"stale", "own"}
                 THEN file[r] ELSE "lines"]]
  /\ file' = IF script[r].engine = "claude" /\ out[r] # <<>>
             THEN [file EXCEPT ![r] = "own"] ELSE file
  /\ UNCHANGED <<callVars, procVars, pipe, readVars, usageVars, kept, lost>>

-----------------------------------------------------------------------------
Cli(r) == Start(r) \/ WriteAnswer(r) \/ Exit(r) \/ \E s \in Pipe : PrintLine(r, s)
Reader(r, s) == ReadLine(r, s) \/ OnLine(r, s) \/ StopReading(r, s)
Runner(r) == Kill(r) \/ Wait(r) \/ Return(r)

Next ==
  \/ NeighbourKeeps
  \/ \E r \in Run : Cli(r) \/ Fail(r) \/ Cancel(r) \/ Runner(r) \/ \E s \in Pipe : Reader(r, s)

Spec == Init /\ [][Next]_vars

\* The goroutines run; the CLI goes on while its pipes have room, and need not fail
\* when they have none.
FairSpec ==
  /\ Spec
  /\ \A r \in Run : /\ WF_vars(Cli(r)) /\ WF_vars(Runner(r))
                    /\ \A s \in Pipe : WF_vars(Reader(r, s))

-----------------------------------------------------------------------------
(* Properties.                                                              *)

\* The lines are among those collected of pipe s, in their order.
Woven(lines, s, collected) ==
  \E at \in [1..Len(lines) -> DOMAIN collected] :
    /\ \A i, j \in 1..Len(lines) : i < j => at[i] < at[j]
    /\ \A i \in 1..Len(lines) : collected[at[i]] = [pipe |-> s, line |-> lines[i]]

\* An answer without error is that of a CLI that ended well, uncancelled: the last
\* message if Codex wrote one, whatever lines the readers lost; and if it is made
\* of the lines and none was lost, all lines of both pipes and no others, those of
\* each pipe in their order, and in Claude's case no raw tool-call markup.
AnswerIsWhole ==
  \A r \in Run : phase[r] = "returned" /\ ~result[r].err =>
    /\ proc[r] = "done" /\ r \notin ctx
    /\ script[r].engine = "codex" /\ file[r] = "own" => result[r].from = "own"
    /\ result[r].from = "lines" /\ r \notin lost =>
         /\ \A s \in Pipe : Woven(script[r][s], s, out[r])
         /\ Len(out[r]) = Len(script[r].stdout) + Len(script[r].stderr)
         /\ script[r].engine = "claude" =>
              \A s \in Pipe : \A i \in DOMAIN script[r][s] : script[r][s][i].kind # "leak"

\* Once a call has returned, no line of it comes after: the orchestrator may
\* judge the answer, finish the Tree or delete the files of the task.
NoLineAfterReturn ==
  [][\A r \in Run : phase[r] = "returned" =>
       seen'[r] = seen[r] /\ log'[r] = log[r] /\ result'[r] = result[r]]_vars

\* The lines kept in the one file of a task give, for each call, the records its
\* lines would give if all were kept and no other call had written in between.
LedgerKeepsUsage ==
  /\ \A r \in Run : Parse(ledger, r) = RecordsOf(TRUE, seen[r])
  /\ Parse(ledger, Neighbour) = RecordsOf(TRUE, SubSeq(Keeps, 1, kept))

\* A call all of whose lines were read, and whose stdout holds nothing but text,
\* counts what its stderr reported.
UsageExact ==
  \A r \in Run :
    (/\ phase[r] = "returned" /\ proc[r] = "done" /\ r \notin lost
     /\ \A i \in DOMAIN script[r].stdout : Cleaned("stdout", script[r].stdout[i]).kind = "text")
    => Parse(ledger, r) = RecordsOf(TRUE, script[r].stderr)

\* What a line says at its head is for Record alone: from the log it is never
\* counted again.  Beside what an old version left, that adds only what stands after
\* a mark the CLI printed inside a line or, on stderr, before it (an agent that shows
\* an old log), whether or not Record kept the line.
NotCountedTwice == \A r \in Run : LegacyRecords(log[r]) = LegacyRecords(OldLog \o seen[r])

\* A cancelled call returns, also when a reader gave up and the CLI is blocked.
CancelReturns == \A r \in Run : (r \in ctx) ~> (phase[r] = "returned")

\* So does every call that prints no line too long for the scanner.
Printable(r) == \A s \in Pipe : \A i \in DOMAIN script[r][s] : script[r][s][i].kind # "long"
CallReturns == \A r \in Run : Printable(r) ~> (phase[r] = "returned")
=============================================================================
