------------------------------ MODULE MCCliRun ------------------------------
(* Model checking CliRun: what the CLIs print.                              *)
EXTENDS CliRun

L(kind, n) == [kind |-> kind, n |-> n, quote |-> NoQuote]
Q(kind, n, quoted, m) == [kind |-> kind, n |-> n, quote |-> [kind |-> quoted, n |-> m]]

\* Codex with an answer that is a number, between two forms of the total; Codex
\* with details and two totals, the second of which quotes another, and an answer
\* that shows a line of an old log; Claude with raw tool-call markup and a marked
\* line on stderr; Claude with a line the scanner gives up on and a marked line.
MCScripts == {
  [engine |-> "codex", stdout |-> <<L("number", 7)>>,
   stderr |-> <<L("model", 1), L("used", 6), L("number", 5)>>],
  [engine |-> "codex", stdout |-> <<Q("text", 0, "total", 8)>>,
   stderr |-> <<L("input", 2), Q("total", 0, "total", 3), L("header", 0), L("number", 3)>>],
  [engine |-> "claude", stdout |-> <<L("text", 0), L("leak", 0)>>,
   stderr |-> <<Q("mark", 0, "total", 6)>>],
  [engine |-> "claude", stdout |-> <<Q("mark", 0, "total", 2), L("long", 0), L("text", 0)>>,
   stderr |-> <<L("text", 0)>>]}

MCKeeps == <<L("header", 0), L("number", 9)>>

MCOldLog == <<Q("mark", 0, "model", 1), Q("mark", 0, "total", 4), L("text", 0)>>
=============================================================================
