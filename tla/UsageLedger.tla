----------------------------- MODULE UsageLedger -----------------------------
(***************************************************************************)
(* Token usage: which lines of a CLI are kept in usage.jsonl, what is read   *)
(* back from that file and from the logs, and what the summary counts.       *)
(*                                                                          *)
(* A line is what it says at its head, by kind and number, and what stands   *)
(* after a "stderr:" in it, its quote (text, when it has none).  The lines   *)
(* of all the calls made for a task are in one usage.jsonl, each with the id *)
(* of its call; log.md and the progress.log of a Tree are what an old        *)
(* version left in their place, with the mark "stderr:" before its usage.    *)
(***************************************************************************)
EXTENDS Integers, Sequences

\* "input tokens: n" and its like, "model: n", "total tokens: n",
\* "tokens used: n", "tokens used" alone, a line that is a number, any other; and
\* "mark", a line that the CLI itself begins with "stderr:".
Details == {"input", "cached", "output"}
Totals == {"total", "used"}
Kinds == Details \cup Totals \cup {"model", "header", "number", "text", "mark", "long", "leak"}
NoQuote == [kind |-> "text", n |-> 0]

NoDetails == [d \in Details |-> 0]
Unknown == 0

-----------------------------------------------------------------------------
(* The mark "stderr:".                                                       *)

\* cleanLegacyUsagePayload: what stands after the first mark of a line, wherever.
AfterMark(line) == [kind |-> line.quote.kind, n |-> line.quote.n, quote |-> NoQuote]

\* cleanCodexUsageLine, and codexLogLine alike: one mark is taken from the head of
\* a line.  The runner puts one before each line of stderr, so such a line is as
\* the CLI printed it.
Cleaned(pipe, line) == IF pipe = "stdout" /\ line.kind = "mark" THEN AfterMark(line) ELSE line

-----------------------------------------------------------------------------
(* usageRecorder.Record: whether a line is written, and expectTotal then.    *)

Kept(expect, line) ==
  \/ line.kind \in Details \cup Totals \cup {"model", "header"}
  \/ expect /\ line.kind = "number"

\* Mutant: the number has to be the very next line.
ExpectsNext(expect, line) == line.kind \in {"header", "used"}

Expects(expect, line) ==
  line.kind \in {"header", "used"} \/ (expect /\ line.kind # "number")

-----------------------------------------------------------------------------
(* Reading the lines back.  The records of a call that differ in neither     *)
(* model nor total count once (dedupeUsageRecords): they are a set.          *)

\* usageStreamState.  A call of usage.jsonl has its id; in an old log each
\* model line begins a call, and each record before the first is one.
NewStream(external) ==
  [external |-> external, call |-> 0, model |-> Unknown, expect |-> FALSE,
   parts |-> NoDetails, records |-> {}]

NextCall(st) == IF st.external THEN st.call ELSE st.call + 1

\* buildUsageRecord: a total of zero is made up from the details; a record
\* without tokens is dropped.
AddRecord(st, n) ==
  LET sum == st.parts["input"] + st.parts["cached"] + st.parts["output"]
      total == IF n = 0 THEN sum ELSE n
      rec == [call |-> st.call, model |-> st.model, total |-> total]
  IN [st EXCEPT !.parts = NoDetails,
                !.call = IF st.model = Unknown THEN NextCall(st) ELSE @,
                !.records = IF total = 0 THEN @ ELSE @ \cup {rec}]

SetModel(st, n) ==
  [st EXCEPT !.call = NextCall(st), !.model = n, !.expect = FALSE, !.parts = NoDetails]

SetDetail(st, detail, n) == [st EXCEPT !.parts[detail] = n]
SetExpect(st, b) == [st EXCEPT !.expect = b]

\* consumeUsageLine.
Consume(st, line) ==
  CASE line.kind = "model" -> SetModel(st, line.n)
    [] line.kind \in Details -> SetDetail(st, line.kind, line.n)
    [] line.kind \in Totals -> AddRecord(st, line.n)
    [] line.kind = "header" -> SetExpect(st, TRUE)
    [] line.kind = "number" /\ st.expect -> AddRecord(SetExpect(st, FALSE), line.n)
    [] OTHER -> st

\* The stream after the lines at the positions of use.
Stream(external, lines, use) ==
  LET st[k \in 0..Len(lines)] ==
        IF k = 0 THEN NewStream(external)
        ELSE IF k \in use THEN Consume(st[k - 1], lines[k]) ELSE st[k - 1]
  IN st[Len(lines)]

RecordsOf(external, lines) == Stream(external, lines, DOMAIN lines).records

LinesOf(entries) == [i \in DOMAIN entries |-> entries[i].line]

\* Mutant: one stream for the whole file.
ParseAsOne(ledger, run) == RecordsOf(TRUE, LinesOf(ledger))

\* parseUsageJSONL: each line goes to the stream of its call.
LinesBy(ledger, run) == {i \in DOMAIN ledger : ledger[i].run = run}
Parse(ledger, run) == Stream(TRUE, LinesOf(ledger), LinesBy(ledger, run)).records

\* parseLegacyUsageFile: of a line of the log only what stands after a mark counts.
AfterMarks(log) == [i \in DOMAIN log |-> AfterMark(log[i])]
LegacyRecords(log) == RecordsOf(FALSE, AfterMarks(log))

-----------------------------------------------------------------------------
\* Lines about a total that is the next line or in this one, and numbers.
Unlogged == {"header", "used", "number"}

\* Mutant: the mark of the pipe is kept.
LogMarked(pipe, line) ==
  IF line.kind \in Unlogged THEN <<>>
  ELSE IF pipe = "stdout" THEN <<line>>
  ELSE <<[kind |-> "mark", n |-> 0, quote |-> [kind |-> line.kind, n |-> line.n]]>>

\* codexLogLine at the detailed level, the one that logs most.
LogEntry(pipe, line) ==
  IF Cleaned(pipe, line).kind \in Unlogged THEN <<>> ELSE <<Cleaned(pipe, line)>>
=============================================================================
