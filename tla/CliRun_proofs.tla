--------------------------- MODULE CliRun_proofs ---------------------------
(***************************************************************************)
(* Theorems about CliRun for any number of calls, any CLIs and any size of  *)
(* the pipes: what a call answers, that nothing follows it, what it leaves   *)
(* in the usage file and the log, and that it has a next step and an end.   *)
(***************************************************************************)
EXTENDS CliRun, SequenceInduction

Phases == {"new", "run", "waited", "returned"}
Procs == {"none", "alive", "done", "failed", "killed"}
Results == [err : BOOLEAN, from : {"none", "stale", "own", "lines"}]

\* The shape of the variables the theorems speak of.
Shape ==
  /\ phase \in [Run -> Phases] /\ proc \in [Run -> Procs]
  /\ file \in [Run -> {"none", "stale", "own", "empty"}]
  /\ result \in [Run -> Results]
  /\ DOMAIN hand = Run /\ \A r \in Run : DOMAIN hand[r] = Pipe
  /\ reading \subseteq Run \X Pipe
  /\ DOMAIN log = Run /\ DOMAIN seen = Run

\* Who holds a line still reads, and a call returns when none of its readers do.
Held == \A r \in Run, s \in Pipe : hand[r][s] # <<>> => <<r, s>> \in reading
Over == \A r \in Run, s \in Pipe : phase[r] \in {"new", "returned"} => <<r, s>> \notin reading

CallInv == Shape /\ Held /\ Over

LEMMA InitCall == Init => CallInv
<1> SUFFICES ASSUME Init PROVE CallInv
  OBVIOUS
<1> USE DEF Init
<1>1. Shape
  BY DEF Shape, Phases, Procs, Results, NoResult
<1>2. Held /\ Over
  BY DEF Held, Over
<1> QED
  BY <1>1, <1>2 DEF CallInv

\* What a step of the CLI or the kill may change: the process and its file.
LEMMA ProcessSteps ==
  ASSUME CallInv, NEW r \in Run, WriteAnswer(r) \/ Exit(r) \/ Fail(r) \/ Kill(r)
  PROVE  CallInv'
<1> USE DEF CallInv, Quiet, readVars, usageVars, callVars, procVars
<1>1. Shape'
  BY DEF Shape, Procs, WriteAnswer, Exit, Fail, Kill
<1>2. UNCHANGED <<phase, hand, reading>>
  BY DEF WriteAnswer, Exit, Fail, Kill
<1> QED
  BY <1>1, <1>2 DEF Held, Over

LEMMA ResultType == \A res \in Results : [res EXCEPT !.err = TRUE] \in Results
BY DEF Results

LEMMA StartStep == ASSUME CallInv, NEW r \in Run, Start(r) PROVE CallInv'
<1> USE DEF CallInv, Start, readVars, usageVars, callVars, procVars
<1>1. Shape'
  <2>1. phase' \in [Run -> Phases] /\ proc' \in [Run -> Procs]
    BY DEF Shape, Phases, Procs
  <2>2. result' \in [Run -> Results]
    <3>1. result[r] \in Results
      BY DEF Shape
    <3> QED
      BY <3>1, ResultType DEF Shape
  <2>3. reading' \subseteq Run \X Pipe
    BY DEF Shape
  <2> QED
    BY <2>1, <2>2, <2>3 DEF Shape
<1>2. Held' /\ Over'
  BY DEF Shape, Held, Over
<1> QED
  BY <1>1, <1>2

LEMMA ReaderSteps ==
  ASSUME CallInv, NEW r \in Run, NEW s \in Pipe, Reader(r, s)
  PROVE  CallInv'
<1> USE DEF CallInv, Reader, readVars, usageVars, callVars, procVars
<1>1. UNCHANGED <<phase, proc, file, result, script>>
  BY DEF ReadLine, OnLine, StopReading
<1>2. Shape'
  BY <1>1 DEF Shape, ReadLine, OnLine, StopReading
<1>3. reading' \subseteq reading
  BY DEF ReadLine, OnLine, StopReading
<1>4. Held'
  <2>1. CASE ReadLine(r, s)
    BY <2>1 DEF Shape, Held, ReadLine
  <2>2. CASE OnLine(r, s)
    BY <2>2 DEF Shape, Held, OnLine
  <2>3. CASE StopReading(r, s)
    BY <2>3 DEF Shape, Held, StopReading
  <2> QED
    BY <2>1, <2>2, <2>3
<1>5. Over'
  BY <1>1, <1>3 DEF Over
<1> QED
  BY <1>2, <1>4, <1>5

LEMMA ReturnStep == ASSUME CallInv, NEW r \in Run, Return(r) PROVE CallInv'
<1> USE DEF CallInv, Return, readVars, usageVars, callVars, procVars
<1> DEFINE from == IF script[r].engine = "codex" /\ file[r] \in {"stale", "own"}
                   THEN file[r] ELSE "lines"
           err == Failed(r) \/ Leaked(r)
<1>1. from \in {"none", "stale", "own", "lines"} /\ err \in BOOLEAN
  BY DEF Shape, Failed, Leaked
<1>2. result' = [result EXCEPT ![r] = [err |-> err, from |-> from]]
  OBVIOUS
<1>3. Shape'
  <2> HIDE DEF from, err
  <2> QED
    BY <1>1, <1>2 DEF Shape, Phases, Results
<1>4. Held' /\ Over'
  BY DEF Shape, Held, Over, ReadersDone
<1> QED
  BY <1>3, <1>4

LEMMA CallKept == CallInv /\ [Next]_vars => CallInv'
<1> SUFFICES ASSUME CallInv, [Next]_vars PROVE CallInv'
  OBVIOUS
<1>1. ASSUME NEW r \in Run, Start(r) PROVE CallInv'
  BY <1>1, StartStep
<1>2. ASSUME NEW r \in Run, WriteAnswer(r) \/ Exit(r) \/ Fail(r) \/ Kill(r) PROVE CallInv'
  BY <1>2, ProcessSteps
<1>3. ASSUME NEW r \in Run, NEW s \in Pipe, Reader(r, s) PROVE CallInv'
  BY <1>3, ReaderSteps
<1>4. ASSUME NEW r \in Run, Return(r) PROVE CallInv'
  BY <1>4, ReturnStep
<1>5. ASSUME NEW r \in Run, Wait(r) PROVE CallInv'
  BY <1>5 DEF CallInv, Shape, Phases, Held, Over, Wait, readVars, usageVars,
              callVars, procVars
<1>6. ASSUME NEW r \in Run, Cancel(r) \/ \E s \in Pipe : PrintLine(r, s) PROVE CallInv'
  BY <1>6 DEF CallInv, Shape, Held, Over, Cancel, PrintLine, readVars,
              usageVars, callVars, procVars
<1>7. CASE NeighbourKeeps \/ UNCHANGED vars
  BY <1>7 DEF CallInv, Shape, Held, Over, NeighbourKeeps, vars, readVars,
              usageVars, callVars, procVars
<1> QED
  BY <1>1, <1>2, <1>3, <1>4, <1>5, <1>6, <1>7 DEF Next, Cli, Runner

LEMMA CallCorrect == Spec => []CallInv
BY InitCall, CallKept, PTL DEF Spec

\* Once Run has returned, no line of the call comes after (wg.Wait in runCodex
\* and runClaude), and its result stays.
THEOREM NothingFollows == Spec => NoLineAfterReturn
<1>1. ASSUME CallInv, [Next]_vars, NEW r \in Run, phase[r] = "returned"
      PROVE  seen'[r] = seen[r] /\ log'[r] = log[r] /\ result'[r] = result[r]
  <2> USE DEF CallInv, Shape, readVars, usageVars, callVars, procVars
  <2>1. \A s \in Pipe : hand[r][s] = <<>>
    BY <1>1 DEF Held, Over
  <2>2. ASSUME NEW q \in Run, NEW s \in Pipe, OnLine(q, s)
        PROVE  seen'[r] = seen[r] /\ log'[r] = log[r] /\ UNCHANGED result
    BY <1>1, <2>1, <2>2 DEF OnLine
  <2>3. ASSUME NEW q \in Run, NEW s \in Pipe, ReadLine(q, s) \/ StopReading(q, s) \/ PrintLine(q, s)
        PROVE  UNCHANGED <<seen, log, result>>
    BY <2>3 DEF ReadLine, StopReading, PrintLine
  <2>4. ASSUME NEW q \in Run, Start(q) \/ Return(q)
        PROVE  UNCHANGED <<seen, log>> /\ result'[r] = result[r]
    BY <1>1, <2>4 DEF Start, Return
  <2>5. ASSUME NEW q \in Run, WriteAnswer(q) \/ Exit(q) \/ Fail(q) \/ Kill(q) \/ Cancel(q) \/ Wait(q)
        PROVE  UNCHANGED <<seen, log, result>>
    BY <2>5 DEF WriteAnswer, Exit, Fail, Kill, Cancel, Wait, Quiet
  <2>6. CASE NeighbourKeeps \/ UNCHANGED vars
    BY <2>6 DEF NeighbourKeeps, vars
  <2> QED
    BY <1>1, <2>2, <2>3, <2>4, <2>5, <2>6 DEF Next, Cli, Runner, Reader
<1>2. CallInv /\ [Next]_vars
        => [\A r \in Run : phase[r] = "returned" =>
              seen'[r] = seen[r] /\ log'[r] = log[r] /\ result'[r] = result[r]]_vars
  BY <1>1
<1> QED
  BY <1>2, CallCorrect, PTL DEF Spec, NoLineAfterReturn

-----------------------------------------------------------------------------
(* Reading lines back.                                                      *)

Records == [call : Nat, model : Nat, total : Nat]
Streams ==
  [external : BOOLEAN, call : Nat, model : Nat, expect : BOOLEAN, parts : [Details -> Nat],
   records : SUBSET Records]

LEMMA NewStreamType == \A external \in BOOLEAN : NewStream(external) \in Streams
BY DEF NewStream, Streams, Unknown, NoDetails

LEMMA AddRecordType ==
  ASSUME NEW st \in Streams, NEW n \in Nat
  PROVE  AddRecord(st, n) \in Streams /\ AddRecord(st, n).expect = st.expect
<1> DEFINE sum == st.parts["input"] + st.parts["cached"] + st.parts["output"]
           total == IF n = 0 THEN sum ELSE n
           rec == [call |-> st.call, model |-> st.model, total |-> total]
           call == IF st.model = Unknown THEN NextCall(st) ELSE st.call
           records == IF total = 0 THEN st.records ELSE st.records \cup {rec}
<1>1. /\ st.external \in BOOLEAN /\ st.call \in Nat /\ st.model \in Nat /\ st.expect \in BOOLEAN
      /\ st.parts \in [Details -> Nat] /\ st.records \subseteq Records
  BY DEF Streams
<1>2. total \in Nat
  BY <1>1 DEF Details
<1>3. rec \in Records /\ records \subseteq Records
  BY <1>1, <1>2 DEF Records
<1>4. call \in Nat
  BY <1>1 DEF NextCall
<1>5. NoDetails \in [Details -> Nat]
  BY DEF NoDetails
<1>6. AddRecord(st, n) = [st EXCEPT !.parts = NoDetails, !.call = call, !.records = records]
  BY DEF AddRecord
<1> HIDE DEF call, records
<1> QED
  BY <1>3, <1>4, <1>5, <1>6 DEF Streams

\* The other changes of a stream.
LEMMA SetTypes ==
  ASSUME NEW st \in Streams, NEW n \in Nat, NEW b \in BOOLEAN
  PROVE  /\ SetModel(st, n) \in Streams /\ SetModel(st, n).expect = FALSE
         /\ SetExpect(st, b) \in Streams /\ SetExpect(st, b).expect = b
<1>1. NextCall(st) \in Nat /\ NoDetails \in [Details -> Nat]
  BY DEF NextCall, Streams, NoDetails
<1>2. SetModel(st, n) \in Streams /\ SetModel(st, n).expect = FALSE
  BY <1>1 DEF SetModel, Streams
<1>3. SetExpect(st, b) \in Streams /\ SetExpect(st, b).expect = b
  BY DEF SetExpect, Streams
<1> QED
  BY <1>2, <1>3

LEMMA SetDetailType ==
  ASSUME NEW st \in Streams, NEW n \in Nat, NEW d \in Details
  PROVE  SetDetail(st, d, n) \in Streams /\ SetDetail(st, d, n).expect = st.expect
BY DEF SetDetail, Streams

\* consumeUsageLine, by the kind of the line.
LEMMA ConsumeIs ==
  ASSUME NEW st, NEW line
  PROVE  /\ line.kind = "model" => Consume(st, line) = SetModel(st, line.n)
         /\ line.kind \in Details => Consume(st, line) = SetDetail(st, line.kind, line.n)
         /\ line.kind \in Totals => Consume(st, line) = AddRecord(st, line.n)
         /\ line.kind = "header" => Consume(st, line) = SetExpect(st, TRUE)
         /\ line.kind = "number" =>
              Consume(st, line) = IF st.expect THEN AddRecord(SetExpect(st, FALSE), line.n) ELSE st
         /\ line.kind \in {"text", "mark", "long", "leak"} => Consume(st, line) = st
BY DEF Consume, Details, Totals

\* Its result is a stream, and what it expects.
LEMMA ConsumeType ==
  ASSUME NEW st \in Streams, NEW line \in Line
  PROVE  /\ Consume(st, line) \in Streams
         /\ line.kind = "number" => ~Consume(st, line).expect
         /\ line.kind \notin {"number", "header"} =>
              Consume(st, line).expect = FALSE \/ Consume(st, line).expect = st.expect
<1>1. line.n \in Nat /\ line.kind \in Details \cup Totals \cup {"model", "header", "number", "text", "mark", "long", "leak"}
  BY DEF Line, Kinds
<1> DEFINE n == line.n
           c == Consume(st, line)
<1>2. n \in Nat
  BY <1>1
<1> HIDE DEF n
<1>4. CASE line.kind = "model"
  <2>1. c = SetModel(st, n)
    BY <1>4, ConsumeIs DEF n
  <2>2. SetModel(st, n) \in Streams /\ SetModel(st, n).expect = FALSE
    BY <1>2, SetTypes
  <2> QED
    BY <1>4, <2>1, <2>2
<1>5. CASE line.kind \in Details
  <2>1. c = SetDetail(st, line.kind, n)
    BY <1>5, ConsumeIs DEF n
  <2>2. SetDetail(st, line.kind, n) \in Streams /\ SetDetail(st, line.kind, n).expect = st.expect
    BY <1>2, <1>5, SetDetailType
  <2> QED
    BY <1>5, <2>1, <2>2 DEF Details
<1>6. CASE line.kind \in Totals
  <2>1. c = AddRecord(st, n)
    BY <1>6, ConsumeIs DEF n
  <2>2. AddRecord(st, n) \in Streams /\ AddRecord(st, n).expect = st.expect
    BY <1>2, AddRecordType
  <2> QED
    BY <1>6, <2>1, <2>2 DEF Totals
<1>7. CASE line.kind = "header"
  <2>1. c = SetExpect(st, TRUE)
    BY <1>7, ConsumeIs
  <2>2. SetExpect(st, TRUE) \in Streams
    BY <1>2, SetTypes
  <2> QED
    BY <1>7, <2>1, <2>2
<1>8. CASE line.kind = "number" /\ st.expect
  <2> DEFINE t == SetExpect(st, FALSE)
  <2>1. c = AddRecord(t, n)
    BY <1>8, ConsumeIs DEF n
  <2>2. t \in Streams /\ t.expect = FALSE
    BY <1>2, SetTypes
  <2> HIDE DEF t
  <2>3. AddRecord(t, n) \in Streams /\ AddRecord(t, n).expect = FALSE
    BY <1>2, <2>2, AddRecordType
  <2> QED
    BY <1>8, <2>1, <2>3
<1>9. CASE line.kind \in {"text", "mark", "long", "leak"} \/ (line.kind = "number" /\ ~st.expect)
  <2>1. c = st
    BY <1>9, ConsumeIs
  <2> QED
    BY <1>9, <2>1
<1> QED
  BY <1>1, <1>4, <1>5, <1>6, <1>7, <1>8, <1>9

\* What Record leaves out changes nothing, and Record expects a total when the
\* reading does.
LEMMA RecordKeeps ==
  ASSUME NEW st \in Streams, NEW line \in Line, NEW ex \in BOOLEAN, st.expect => ex
  PROVE  /\ ~Kept(ex, line) => Consume(st, line) = st
         /\ Consume(st, line).expect => Expects(ex, line)
<1>1. line.n \in Nat /\ line.kind \in Details \cup Totals \cup {"model", "header", "number", "text", "mark", "long", "leak"}
  BY DEF Line, Kinds
<1>2. ~Kept(ex, line) => Consume(st, line) = st
  BY <1>1, ConsumeIs DEF Kept
<1>3. Consume(st, line).expect => Expects(ex, line)
  BY <1>1, ConsumeType DEF Expects
<1> QED
  BY <1>2, <1>3

\* The streams on the way.
Readings(external, lines, use) ==
  {f \in [0..Len(lines) -> Streams] :
     /\ f[0] = NewStream(external) /\ Stream(external, lines, use) = f[Len(lines)]
     /\ \A k \in 1..Len(lines) : f[k] = IF k \in use THEN Consume(f[k - 1], lines[k]) ELSE f[k - 1]}

LEMMA StreamReads ==
  ASSUME NEW external \in BOOLEAN, NEW lines \in Seq(Line), NEW use
  PROVE  Readings(external, lines, use) # {}
<1> DEFINE n == Len(lines)
           b == NewStream(external)
           g == [p \in Streams \X (1..n) |-> IF p[2] \in use THEN Consume(p[1], lines[p[2]]) ELSE p[1]]
<1>1. n \in Nat /\ \A k \in 1..n : lines[k] \in Line
  OBVIOUS
<1>2. b \in Streams
  BY NewStreamType
<1> HIDE DEF n, b
<1>3. g \in [Streams \X (1..n) -> Streams]
  <2>1. ASSUME NEW p \in Streams \X (1..n)
        PROVE  (IF p[2] \in use THEN Consume(p[1], lines[p[2]]) ELSE p[1]) \in Streams
    <3>1. p[1] \in Streams /\ p[2] \in 1..n
      OBVIOUS
    <3>2. lines[p[2]] \in Line
      BY <1>1, <3>1
    <3>3. Consume(p[1], lines[p[2]]) \in Streams
      BY <3>1, <3>2, ConsumeType
    <3> QED
      BY <3>1, <3>3
  <2> QED
    BY <2>1
<1>4. PICK f \in Runs(Streams, b, n, g) : TRUE
  <2>1. g \in Steps(Streams, n)
    BY <1>3 DEF Steps
  <2> HIDE DEF g
  <2> QED
    BY <1>1, <1>2, <2>1, RecursionExists
<1>5. f \in [0..n -> Streams] /\ f[0] = b /\ \A k \in 1..n : f[k] = g[<<f[k - 1], k>>]
  BY <1>4 DEF Runs
<1>6. \A k \in 1..n : f[k] = IF k \in use THEN Consume(f[k - 1], lines[k]) ELSE f[k - 1]
  <2> TAKE k \in 1..n
  <2>1. k - 1 \in 0..n
    BY <1>1
  <2>2. f[k - 1] \in Streams
    BY <1>5, <2>1
  <2> QED
    BY <1>5, <2>2
<1> HIDE DEF g
<1> DEFINE R(h) == [k \in 0..n |->
                      IF k = 0 THEN b ELSE IF k \in use THEN Consume(h[k - 1], lines[k]) ELSE h[k - 1]]
           h == CHOOSE h : h = R(h)
<1>7. f = R(f)
  <2>1. ASSUME NEW k \in 0..n
        PROVE  f[k] = IF k = 0 THEN b ELSE IF k \in use THEN Consume(f[k - 1], lines[k]) ELSE f[k - 1]
    <3>1. CASE k = 0
      BY <1>5, <3>1
    <3>2. CASE k # 0
      <4>1. k \in 1..n
        BY <1>1, <3>2
      <4> QED
        BY <1>6, <3>2, <4>1
    <3> QED
      BY <3>1, <3>2
  <2> QED
    BY <1>5, <2>1
<1>8. h = R(h)
  <2> HIDE DEF R
  <2> QED
    BY <1>7
<1>9. Stream(external, lines, use) = h[n]
  BY DEF Stream, n, b
<1> HIDE DEF h
<1>10. h[0] = b /\ \A k \in 1..n : h[k] = IF k \in use THEN Consume(h[k - 1], lines[k]) ELSE h[k - 1]
  BY <1>1, <1>8
<1> HIDE DEF R
<1> DEFINE D == {k \in 0..n : f[k] = h[k]}
<1>11. 0 \in D /\ \A k \in 1..n : k - 1 \in D => k \in D
  BY <1>1, <1>5, <1>6, <1>10
<1>12. 0..n \subseteq D
  <2> HIDE DEF D
  <2> QED
    BY <1>1, <1>11, UpTo
<1>13. f[n] = h[n]
  BY <1>1, <1>12
<1>14. f \in Readings(external, lines, use)
  BY <1>5, <1>6, <1>9, <1>13 DEF Readings, n, b
<1> QED
  BY <1>14

\* Two readings agree as long as they read the same lines.
LEMMA ReadingsAgree ==
  ASSUME NEW external, NEW s, NEW use, NEW t, NEW also, NEW n \in Nat,
         n <= Len(s), n <= Len(t), Len(s) \in Nat, Len(t) \in Nat,
         \A k \in 1..n : s[k] = t[k] /\ (k \in use <=> k \in also),
         NEW f \in Readings(external, s, use), NEW g \in Readings(external, t, also)
  PROVE  f[n] = g[n]
<1>1. /\ f[0] = NewStream(external) /\ g[0] = NewStream(external)
      /\ \A k \in 1..Len(s) : f[k] = IF k \in use THEN Consume(f[k - 1], s[k]) ELSE f[k - 1]
      /\ \A k \in 1..Len(t) : g[k] = IF k \in also THEN Consume(g[k - 1], t[k]) ELSE g[k - 1]
  BY DEF Readings
<1> DEFINE D == {k \in 0..n : f[k] = g[k]}
<1>2. 0 \in D
  BY <1>1
<1>3. ASSUME NEW k \in 1..n, k - 1 \in D PROVE k \in D
  <2>1. k \in 1..Len(s) /\ k \in 1..Len(t) /\ f[k - 1] = g[k - 1]
    BY <1>3
  <2> QED
    BY <1>1, <2>1
<1>4. 0..n \subseteq D
  <2> HIDE DEF D
  <2> QED
    BY <1>2, <1>3, UpTo
<1> QED
  BY <1>4

\* Where nothing more is read, the stream stays.
LEMMA ReadingRests ==
  ASSUME NEW external, NEW s, NEW use, Len(s) \in Nat, NEW n \in 0..Len(s),
         \A k \in 1..Len(s) : k > n => k \notin use,
         NEW f \in Readings(external, s, use)
  PROVE  Stream(external, s, use) = f[n]
<1>1. /\ \A k \in 1..Len(s) : f[k] = IF k \in use THEN Consume(f[k - 1], s[k]) ELSE f[k - 1]
      /\ Stream(external, s, use) = f[Len(s)]
  BY DEF Readings
<1> DEFINE D == {k \in 0..Len(s) : k >= n => f[k] = f[n]}
<1>2. 0 \in D
  OBVIOUS
<1>3. ASSUME NEW k \in 1..Len(s), k - 1 \in D PROVE k \in D
  <2> SUFFICES ASSUME k > n PROVE f[k] = f[n]
    OBVIOUS
  <2>1. f[k] = f[k - 1]
    BY <1>1
  <2> QED
    BY <1>3, <2>1
<1>4. 0..Len(s) \subseteq D
  <2> HIDE DEF D
  <2> QED
    BY <1>2, <1>3, UpTo
<1> QED
  BY <1>1, <1>4

LEMMA StreamType ==
  ASSUME NEW external \in BOOLEAN, NEW lines \in Seq(Line), NEW use
  PROVE  Stream(external, lines, use) \in Streams
<1>1. PICK f \in Readings(external, lines, use) : TRUE
  BY StreamReads
<1> QED
  BY <1>1 DEF Readings

\* The stream before the first line that is read.
LEMMA StreamStarts ==
  ASSUME NEW external \in BOOLEAN, NEW lines \in Seq(Line), NEW use,
         \A k \in 1..Len(lines) : k \notin use
  PROVE  Stream(external, lines, use) = NewStream(external)
<1>1. PICK f \in Readings(external, lines, use) : TRUE
  BY StreamReads
<1>2. Len(lines) \in Nat /\ 0 \in 0..Len(lines)
  OBVIOUS
<1>3. Stream(external, lines, use) = f[0]
  BY <1>1, <1>2, ReadingRests
<1> QED
  BY <1>1, <1>3 DEF Readings

\* One more line, read or not.
LEMMA StreamGrows ==
  ASSUME NEW external \in BOOLEAN, NEW lines \in Seq(Line), NEW line \in Line, NEW use, NEW also,
         \A k \in 1..Len(lines) : k \in use <=> k \in also
  PROVE  Stream(external, Append(lines, line), also) =
           IF Len(lines) + 1 \in also THEN Consume(Stream(external, lines, use), line)
           ELSE Stream(external, lines, use)
<1> DEFINE more == Append(lines, line)
           n == Len(lines)
<1>1. /\ more \in Seq(Line) /\ n \in Nat /\ Len(more) = n + 1 /\ more[n + 1] = line
      /\ \A k \in 1..n : lines[k] = more[k]
  OBVIOUS
<1> HIDE DEF more
<1>2. PICK f \in Readings(external, lines, use) : TRUE
  BY StreamReads
<1>3. PICK g \in Readings(external, more, also) : TRUE
  BY <1>1, StreamReads
<1>4. f[n] = g[n]
  BY <1>1, ReadingsAgree
<1>5. Stream(external, lines, use) = f[n]
  BY DEF Readings
<1>6. Stream(external, more, also) = g[n + 1]
      /\ g[n + 1] = IF n + 1 \in also THEN Consume(g[n], more[n + 1]) ELSE g[n]
  <2>1. n + 1 \in 1..Len(more) /\ (n + 1) - 1 = n
    BY <1>1
  <2> QED
    BY <1>1, <2>1 DEF Readings
<1> QED
  BY <1>1, <1>4, <1>5, <1>6 DEF more

\* The stream after the first p + 1 lines.
LEMMA StreamNext ==
  ASSUME NEW external \in BOOLEAN, NEW lines \in Seq(Line), NEW p \in Nat, p + 1 <= Len(lines)
  PROVE  Stream(external, lines, 1..(p + 1)) = Consume(Stream(external, lines, 1..p), lines[p + 1])
<1>1. PICK f \in Readings(external, lines, 1..p) : TRUE
  BY StreamReads
<1>2. PICK g \in Readings(external, lines, 1..(p + 1)) : TRUE
  BY StreamReads
<1>3. Len(lines) \in Nat /\ p \in 0..Len(lines) /\ p + 1 \in 0..Len(lines) /\ p + 1 \in 1..Len(lines)
  OBVIOUS
<1>4. f[p] = g[p]
  BY <1>3, ReadingsAgree
<1>5. Stream(external, lines, 1..p) = f[p]
  BY <1>3, ReadingRests
<1>6. Stream(external, lines, 1..(p + 1)) = g[p + 1]
  BY <1>3, ReadingRests
<1>7. g[p + 1] = Consume(g[p], lines[p + 1])
  <2>1. p + 1 \in 1..(p + 1) /\ (p + 1) - 1 = p
    OBVIOUS
  <2> QED
    BY <1>3, <2>1 DEF Readings
<1> QED
  BY <1>4, <1>5, <1>6, <1>7

\* What is read of the lines of a call in a file, and after the marks of a log.
Entry == [run : Run \cup {Neighbour}, line : Line]
Filed(file_, r) == Stream(TRUE, LinesOf(file_), LinesBy(file_, r))
Marked(log_) == Stream(FALSE, AfterMarks(log_), DOMAIN AfterMarks(log_))

\* What is left of a line without a mark is a line.
LEMMA MarkTypes ==
  ASSUME NEW line \in Line
  PROVE  /\ AfterMark(line) \in Line
         /\ \A s \in Pipe : Cleaned(s, line) \in Line
         /\ Cleaned("stderr", line) = line
<1>1. AfterMark(line) \in Line
  BY DEF AfterMark, Line, NoQuote, Kinds
<1> QED
  BY <1>1 DEF Cleaned

\* The lines of entries, and of one entry more.
LEMMA LinesGrow ==
  ASSUME NEW T, NEW s \in Seq(T), NEW e \in T, \A x \in T : x.line \in Line
  PROVE  /\ LinesOf(s) \in Seq(Line) /\ Len(LinesOf(s)) = Len(s)
         /\ LinesOf(Append(s, e)) = Append(LinesOf(s), e.line)
         /\ Len(s) \in Nat /\ DOMAIN s = 1..Len(s) /\ DOMAIN Append(s, e) = 1..(Len(s) + 1)
         /\ Append(s, e)[Len(s) + 1] = e /\ \A k \in 1..Len(s) : Append(s, e)[k] = s[k]
<1>1. /\ Len(s) \in Nat /\ DOMAIN s = 1..Len(s) /\ DOMAIN Append(s, e) = 1..(Len(s) + 1)
      /\ Append(s, e)[Len(s) + 1] = e /\ \A k \in 1..Len(s) : Append(s, e)[k] = s[k]
      /\ \A k \in 1..Len(s) : s[k] \in T
  OBVIOUS
<1>2. LinesOf(s) = [k \in 1..Len(s) |-> s[k].line] /\ \A k \in 1..Len(s) : s[k].line \in Line
  BY <1>1 DEF LinesOf
<1>3. LinesOf(s) \in Seq(Line) /\ Len(LinesOf(s)) = Len(s)
  BY <1>1, <1>2
<1>4. LinesOf(Append(s, e)) = [k \in 1..(Len(s) + 1) |-> IF k = Len(s) + 1 THEN e.line ELSE s[k].line]
  BY <1>1 DEF LinesOf
<1>5. Append(LinesOf(s), e.line) = [k \in 1..(Len(s) + 1) |-> IF k = Len(s) + 1 THEN e.line ELSE s[k].line]
  BY <1>1, <1>2, <1>3
<1> QED
  BY <1>1, <1>3, <1>4, <1>5

\* The same of the stream.
LEMMA EntriesGrow ==
  ASSUME NEW T, NEW s \in Seq(T), NEW e \in T, \A x \in T : x.line \in Line,
         NEW external \in BOOLEAN, NEW use, NEW also, \A k \in 1..Len(s) : k \in use <=> k \in also
  PROVE  /\ Len(s) + 1 \in also =>
              Stream(external, LinesOf(Append(s, e)), also) = Consume(Stream(external, LinesOf(s), use), e.line)
         /\ Len(s) + 1 \notin also =>
              Stream(external, LinesOf(Append(s, e)), also) = Stream(external, LinesOf(s), use)
<1> DEFINE lines == LinesOf(s)
           line == e.line
<1>1. LinesOf(Append(s, e)) = Append(lines, line) /\ lines \in Seq(Line) /\ line \in Line /\ Len(lines) = Len(s)
  BY LinesGrow
<1> HIDE DEF lines, line
<1>2. \A k \in 1..Len(lines) : k \in use <=> k \in also
  BY <1>1
<1>3. Stream(external, Append(lines, line), also) =
        IF Len(lines) + 1 \in also THEN Consume(Stream(external, lines, use), line)
        ELSE Stream(external, lines, use)
  BY <1>1, <1>2, StreamGrows
<1> QED
  BY <1>1, <1>3 DEF lines, line

LEMMA LedgerGrows ==
  ASSUME NEW s \in Seq(Entry), NEW e \in Entry, NEW r
  PROVE  Filed(Append(s, e), r) = IF e.run = r THEN Consume(Filed(s, r), e.line) ELSE Filed(s, r)
<1> DEFINE use == LinesBy(s, r)
           also == LinesBy(Append(s, e), r)
<1>1. \A x \in Entry : x.line \in Line
  BY DEF Entry
<1>2. (\A k \in 1..Len(s) : k \in use <=> k \in also) /\ (Len(s) + 1 \in also <=> e.run = r)
  BY <1>1, LinesGrow DEF LinesBy
<1> HIDE DEF use, also
<1>3. ASSUME NEW external \in BOOLEAN
      PROVE  /\ e.run = r =>
                  Stream(external, LinesOf(Append(s, e)), also) = Consume(Stream(external, LinesOf(s), use), e.line)
             /\ e.run # r =>
                  Stream(external, LinesOf(Append(s, e)), also) = Stream(external, LinesOf(s), use)
  BY <1>1, <1>2, EntriesGrow
<1>4. CASE e.run = r
  BY <1>3, <1>4 DEF Filed, use, also
<1>5. CASE e.run # r
  BY <1>3, <1>5 DEF Filed, use, also
<1> QED
  BY <1>4, <1>5

\* One line more of a log.
LEMMA MarkedGrows ==
  ASSUME NEW s \in Seq(Line), NEW line \in Line
  PROVE  Marked(Append(s, line)) = Consume(Marked(s), AfterMark(line)) /\ Marked(s) \in Streams
<1> DEFINE lines == AfterMarks(s)
           e == AfterMark(line)
           use == DOMAIN lines
           also == DOMAIN Append(lines, e)
<1>1. /\ Len(s) \in Nat /\ DOMAIN s = 1..Len(s) /\ DOMAIN Append(s, line) = 1..(Len(s) + 1)
      /\ Append(s, line)[Len(s) + 1] = line /\ \A k \in 1..Len(s) : Append(s, line)[k] = s[k]
      /\ \A k \in 1..Len(s) : s[k] \in Line
  OBVIOUS
<1>2. e \in Line /\ \A k \in 1..Len(s) : AfterMark(s[k]) \in Line
  BY <1>1, MarkTypes
<1>3. lines = [k \in 1..Len(s) |-> AfterMark(s[k])]
  BY <1>1 DEF AfterMarks
<1>4. lines \in Seq(Line) /\ Len(lines) = Len(s)
  BY <1>1, <1>2, <1>3
<1>5. AfterMarks(Append(s, line)) = Append(lines, e)
  <2>1. AfterMarks(Append(s, line)) =
          [k \in 1..(Len(s) + 1) |-> IF k = Len(s) + 1 THEN e ELSE AfterMark(s[k])]
    BY <1>1 DEF AfterMarks
  <2>2. Append(lines, e) = [k \in 1..(Len(s) + 1) |-> IF k = Len(s) + 1 THEN e ELSE AfterMark(s[k])]
    BY <1>1, <1>3, <1>4
  <2> QED
    BY <2>1, <2>2
<1> HIDE DEF lines, e
<1>6. (\A k \in 1..Len(lines) : k \in use <=> k \in also) /\ Len(lines) + 1 \in also
  BY <1>2, <1>4
<1> HIDE DEF use, also
<1>7. ASSUME NEW external \in BOOLEAN
      PROVE  /\ Stream(external, lines, use) \in Streams
             /\ Stream(external, Append(lines, e), also) = Consume(Stream(external, lines, use), e)
  BY <1>2, <1>4, <1>6, StreamGrows, StreamType
<1> QED
  BY <1>5, <1>7 DEF Marked, lines, e, use, also

\* A line counts from the log for what stands after its mark, logged or not.
LEMMA LogGrows ==
  ASSUME NEW s \in Seq(Line), NEW line \in Line, NEW pipe_ \in Pipe
  PROVE  /\ s \o LogEntry(pipe_, line) \in Seq(Line)
         /\ Marked(s \o LogEntry(pipe_, line)) = Consume(Marked(s), AfterMark(Cleaned(pipe_, line)))
<1> DEFINE e == Cleaned(pipe_, line)
<1>1. e \in Line
  BY MarkTypes
<1>2. LogEntry(pipe_, line) = IF e.kind \in Unlogged THEN <<>> ELSE <<e>>
  BY DEF LogEntry
<1> HIDE DEF e
<1>3. CASE e.kind \in Unlogged
  <2>1. AfterMark(e).kind = "text"
    BY <1>1, <1>3 DEF AfterMark, Line, NoQuote
  <2>2. Consume(Marked(s), AfterMark(e)) = Marked(s)
    BY <2>1, ConsumeIs
  <2>3. s \o <<>> = s
    OBVIOUS
  <2> QED
    BY <1>2, <1>3, <2>2, <2>3 DEF e
<1>4. CASE e.kind \notin Unlogged
  <2>1. s \o <<e>> = Append(s, e) /\ Append(s, e) \in Seq(Line)
    BY <1>1
  <2>2. Marked(Append(s, e)) = Consume(Marked(s), AfterMark(e))
    BY <1>1, MarkedGrows
  <2> QED
    BY <1>2, <1>4, <2>1, <2>2 DEF e
<1> QED
  BY <1>3, <1>4

-----------------------------------------------------------------------------
(* What the usage file holds, against the lines Record took.                 *)

Queues == [Run -> [Pipe -> Seq(Line)]]

Types ==
  /\ script \in [Run -> Scripts] /\ todo \in Queues /\ pipe \in Queues /\ hand \in Queues
  /\ ledger \in Seq(Entry) /\ kept \in 0..Len(Keeps)
  /\ seen \in [Run -> Seq(Line)] /\ log \in [Run -> Seq(Line)]

Read(lines) == Stream(TRUE, lines, DOMAIN lines)

\* Reading back what a call kept is at the same point as reading all its lines,
\* and Record expects a total whenever the reading does.
InStep ==
  \A r \in Run : /\ Filed(ledger, r) = Read(seen[r])
                 /\ Read(seen[r]).expect => r \in expect
Beside == Filed(ledger, Neighbour) = Read(SubSeq(Keeps, 1, kept))

\* What is read from a log is what stands after the marks of the lines taken.
Unmarked == \A r \in Run : Marked(log[r]) = Marked(OldLog \o seen[r])

UsageInv == Types /\ InStep /\ Beside /\ Unmarked

\* One queue of one call changes.
Put(f, g, r, s, v) == g = [f EXCEPT ![r][s] = v]
Only(f, g, r, s, v) ==
  /\ g[r][s] = v /\ \A x \in Pipe : x # s => g[r][x] = f[r][x]
  /\ \A q \in Run : q # r => g[q] = f[q]

LEMMA PutQueue ==
  ASSUME NEW f \in Queues, NEW r \in Run, NEW s \in Pipe, NEW v \in Seq(Line),
         NEW g, Put(f, g, r, s, v)
  PROVE  g \in Queues /\ Only(f, g, r, s, v)
BY DEF Queues, Put, Only

LEMMA ReadGrows ==
  ASSUME NEW lines \in Seq(Line), NEW line \in Line
  PROVE  /\ Append(lines, line) \in Seq(Line)
         /\ Read(lines) \in Streams /\ Read(Append(lines, line)) = Consume(Read(lines), line)
<1> DEFINE use == DOMAIN lines
           also == DOMAIN Append(lines, line)
<1>1. (\A k \in 1..Len(lines) : k \in use <=> k \in also) /\ Len(lines) + 1 \in also
  OBVIOUS
<1> HIDE DEF use, also
<1>2. ASSUME NEW external \in BOOLEAN
      PROVE  /\ Stream(external, lines, use) \in Streams
             /\ Stream(external, Append(lines, line), also) = Consume(Stream(external, lines, use), line)
  BY <1>1, StreamGrows, StreamType
<1>3. Read(lines) \in Streams /\ Read(Append(lines, line)) = Consume(Read(lines), line)
  BY <1>2 DEF Read, use, also
<1> QED
  BY <1>3

LEMMA InitUsage == Init => UsageInv
<1> SUFFICES ASSUME Init PROVE UsageInv
  OBVIOUS
<1> USE DEF Init
<1>1. \A r \in Run : script[r] \in Scripts /\ \A s \in Pipe : script[r][s] \in Seq(Line)
  BY ScriptAssumption DEF Pipe
<1>2. todo \in Queues /\ pipe \in Queues /\ hand \in Queues
  BY <1>1 DEF Queues
<1>3. Types
  BY <1>2, NeighbourAssumption, LogAssumption DEF Types
<1>4. ASSUME NEW external \in BOOLEAN, NEW r
      PROVE  /\ Stream(external, <<>>, DOMAIN <<>>) = NewStream(external)
             /\ Stream(external, LinesOf(<<>>), LinesBy(<<>>, r)) = NewStream(external)
  <2>1. /\ <<>> \in Seq(Line) /\ Len(<<>>) = 0 /\ LinesOf(<<>>) = <<>>
    BY DEF LinesOf
  <2>2. \A k \in 1..Len(<<>>) : k \notin DOMAIN <<>> /\ k \notin LinesBy(<<>>, r)
    BY <2>1
  <2> QED
    BY <2>1, <2>2, StreamStarts
<1>5. \A r : Filed(<<>>, r) = NewStream(TRUE) /\ Read(<<>>) = NewStream(TRUE)
  BY <1>4 DEF Filed, Read
<1>6. SubSeq(Keeps, 1, kept) = <<>>
  BY NeighbourAssumption
<1>7. InStep
  <2>1. \A r \in Run : seen[r] = <<>>
    OBVIOUS
  <2>2. ~NewStream(TRUE).expect
    BY DEF NewStream
  <2> QED
    BY <1>5, <2>1, <2>2 DEF InStep
<1>8. Beside
  BY <1>5, <1>6 DEF Beside
<1>9. Unmarked
  <2>1. OldLog \o <<>> = OldLog
    BY LogAssumption
  <2> QED
    BY <2>1 DEF Unmarked
<1> QED
  BY <1>3, <1>7, <1>8, <1>9 DEF UsageInv

\* usageRecorder.Record and the log, for one line.
LEMMA OnLineUsage ==
  ASSUME UsageInv, NEW r \in Run, NEW s \in Pipe, OnLine(r, s)
  PROVE  UsageInv'
<1> DEFINE held == hand[r][s][1]
           line == Cleaned(s, held)
           ex == r \in expect
           e == [run |-> r, line |-> line]
<1> USE DEF UsageInv, Types, callVars, procVars
<1>1. held \in Line /\ line \in Line
  <2>1. held \in Line
    BY DEF OnLine, Queues
  <2> QED
    BY <2>1, MarkTypes
<1>2. ex \in BOOLEAN /\ e \in Entry /\ e.run = r /\ e.line = line
  BY <1>1 DEF Entry
<1>3. /\ expect' = IF Expects(ex, line) THEN expect \cup {r} ELSE expect \ {r}
      /\ ledger' = IF Kept(ex, line) THEN Append(ledger, e) ELSE ledger
      /\ log' = [log EXCEPT ![r] = @ \o LogEntry(s, held)]
      /\ seen' = [seen EXCEPT ![r] = Append(@, line)]
      /\ hand' = [hand EXCEPT ![r][s] = <<>>]
      /\ UNCHANGED <<script, todo, pipe, kept>>
  BY DEF OnLine
<1>11. AfterMark(Cleaned(s, held)) = AfterMark(line)
  OBVIOUS
<1> HIDE DEF held, line, e, ex
<1>4. /\ seen[r] \in Seq(Line) /\ Append(seen[r], line) \in Seq(Line)
      /\ Read(seen[r]) \in Streams /\ Read(Append(seen[r], line)) = Consume(Read(seen[r]), line)
  BY <1>1, ReadGrows
<1>5. /\ log[r] \o LogEntry(s, held) \in Seq(Line)
      /\ Marked(log[r] \o LogEntry(s, held)) = Consume(Marked(log[r]), AfterMark(line))
  <2>1. log[r] \in Seq(Line)
    OBVIOUS
  <2> QED
    BY <1>1, <1>11, <2>1, LogGrows
<1>6. Types'
  <2>1. hand' \in Queues
    <3>1. <<>> \in Seq(Line) /\ hand \in Queues /\ Put(hand, hand', r, s, <<>>)
      BY <1>3 DEF Put
    <3> QED
      BY <3>1, PutQueue
  <2>2. ledger' \in Seq(Entry)
    BY <1>2, <1>3
  <2> QED
    BY <1>3, <1>4, <1>5, <2>1, <2>2
<1>7. \A q : Filed(ledger', q) =
        IF Kept(ex, line) /\ q = r THEN Consume(Filed(ledger, r), line) ELSE Filed(ledger, q)
  BY <1>2, <1>3, LedgerGrows
<1>8. InStep'
  <2> SUFFICES ASSUME NEW q \in Run
               PROVE  /\ Filed(ledger', q) = Read(seen'[q])
                      /\ Read(seen'[q]).expect => q \in expect'
    BY DEF InStep
  <2>1. Filed(ledger, q) = Read(seen[q]) /\ (Read(seen[q]).expect => q \in expect)
    BY DEF InStep
  <2>2. CASE q # r
    BY <1>3, <1>7, <2>1, <2>2
  <2>3. CASE q = r
    <3>1. Read(seen[r]).expect => ex
      BY <2>1, <2>3 DEF ex
    <3>2. /\ ~Kept(ex, line) => Consume(Read(seen[r]), line) = Read(seen[r])
          /\ Consume(Read(seen[r]), line).expect => Expects(ex, line)
      BY <1>1, <1>2, <1>4, <3>1, RecordKeeps
    <3>3. Read(seen'[r]) = Consume(Read(seen[r]), line)
      BY <1>3, <1>4
    <3>4. Filed(ledger', r) = Consume(Read(seen[r]), line)
      BY <1>7, <2>1, <2>3, <3>2
    <3> QED
      BY <1>3, <2>3, <3>2, <3>3, <3>4
  <2> QED
    BY <2>2, <2>3
<1>9. Beside'
  BY <1>3, <1>7, NeighbourAssumption DEF Beside
<1>10. Unmarked'
  <2>1. OldLog \o seen[r] \in Seq(Line)
        /\ OldLog \o Append(seen[r], line) = Append(OldLog \o seen[r], line)
    BY <1>1, <1>4, LogAssumption
  <2>2. Marked(OldLog \o Append(seen[r], line)) = Consume(Marked(OldLog \o seen[r]), AfterMark(line))
    BY <1>1, <2>1, MarkedGrows
  <2>3. log'[r] = log[r] \o LogEntry(s, held) /\ seen'[r] = Append(seen[r], line)
        /\ \A q \in Run : q # r => log'[q] = log[q] /\ seen'[q] = seen[q]
    BY <1>3
  <2> QED
    BY <1>5, <2>2, <2>3 DEF Unmarked
<1> QED
  BY <1>6, <1>8, <1>9, <1>10

LEMMA NeighbourUsage == ASSUME UsageInv, NeighbourKeeps PROVE UsageInv'
<1> DEFINE line == Keeps[kept + 1]
           e == [run |-> Neighbour, line |-> line]
<1> USE DEF UsageInv, Types, callVars, procVars, readVars
<1>1. line \in Line /\ kept \in Nat /\ kept + 1 \in 0..Len(Keeps)
  BY NeighbourAssumption DEF NeighbourKeeps
<1>2. e \in Entry /\ e.run = Neighbour /\ e.line = line
  BY <1>1 DEF Entry
<1>3. /\ SubSeq(Keeps, 1, kept) \in Seq(Line)
      /\ SubSeq(Keeps, 1, kept + 1) = Append(SubSeq(Keeps, 1, kept), line)
  BY <1>1, NeighbourAssumption
<1>4. kept' = kept + 1 /\ ledger' = Append(ledger, e)
      /\ UNCHANGED <<script, todo, pipe, hand, seen, log, expect>>
  BY DEF NeighbourKeeps
<1> HIDE DEF line, e
<1>5. Types'
  BY <1>1, <1>2, <1>4
<1>6. \A q : Filed(ledger', q) =
        IF q = Neighbour THEN Consume(Filed(ledger, q), line) ELSE Filed(ledger, q)
  BY <1>2, <1>4, LedgerGrows
<1>7. Beside'
  <2>1. Filed(ledger, Neighbour) = Read(SubSeq(Keeps, 1, kept))
    BY DEF Beside
  <2>2. Read(Append(SubSeq(Keeps, 1, kept), line)) = Consume(Read(SubSeq(Keeps, 1, kept)), line)
    BY <1>1, <1>3, ReadGrows
  <2>3. Read(SubSeq(Keeps, 1, kept + 1)) = Consume(Filed(ledger, Neighbour), line)
    BY <1>3, <2>1, <2>2
  <2> QED
    BY <1>4, <1>6, <2>3 DEF Beside
<1>8. InStep'
  <2>1. \A q \in Run : q # Neighbour
    BY NeighbourAssumption
  <2> QED
    BY <1>4, <1>6, <2>1 DEF InStep
<1>9. Unmarked'
  BY <1>4 DEF Unmarked
<1> QED
  BY <1>5, <1>7, <1>8, <1>9

\* The other steps only move lines.
LEMMA MoveUsage ==
  ASSUME UsageInv, NEW r \in Run, NEW s \in Pipe,
         PrintLine(r, s) \/ ReadLine(r, s) \/ Wait(r)
  PROVE  UsageInv'
<1> USE DEF UsageInv, Types, callVars, procVars, readVars, usageVars
<1>1. UNCHANGED <<script, ledger, kept, seen, log, expect>>
  BY DEF PrintLine, ReadLine, Wait
<1>2. InStep' /\ Beside' /\ Unmarked'
  BY <1>1 DEF InStep, Beside, Unmarked
<1>3. todo' \in Queues /\ pipe' \in Queues /\ hand' \in Queues
  <2>1. todo[r][s] \in Seq(Line) /\ pipe[r][s] \in Seq(Line)
    BY DEF Queues
  <2>2. CASE PrintLine(r, s)
    <3>1. /\ Put(todo, todo', r, s, Tail(todo[r][s]))
          /\ Put(pipe, pipe', r, s, Append(pipe[r][s], todo[r][s][1]))
          /\ todo[r][s] # <<>> /\ UNCHANGED hand
      BY <2>2 DEF PrintLine, Put
    <3>2. Tail(todo[r][s]) \in Seq(Line) /\ Append(pipe[r][s], todo[r][s][1]) \in Seq(Line)
      BY <2>1, <3>1
    <3> QED
      BY <3>1, <3>2, PutQueue
  <2>3. CASE ReadLine(r, s)
    <3>1. /\ Put(pipe, pipe', r, s, Tail(pipe[r][s]))
          /\ Put(hand, hand', r, s, <<pipe[r][s][1]>>)
          /\ pipe[r][s] # <<>> /\ UNCHANGED todo
      BY <2>3 DEF ReadLine, Put
    <3>2. Tail(pipe[r][s]) \in Seq(Line) /\ <<pipe[r][s][1]>> \in Seq(Line)
      BY <2>1, <3>1
    <3> QED
      BY <3>1, <3>2, PutQueue
  <2>4. CASE Wait(r)
    <3>1. pipe' \in Queues
      BY <2>4 DEF Wait, Queues
    <3> QED
      BY <2>4, <3>1 DEF Wait
  <2> QED
    BY <2>2, <2>3, <2>4
<1> QED
  BY <1>1, <1>2, <1>3

LEMMA UsageInvKept == UsageInv /\ [Next]_vars => UsageInv'
<1> SUFFICES ASSUME UsageInv, [Next]_vars PROVE UsageInv'
  OBVIOUS
<1>1. ASSUME NEW r \in Run, NEW s \in Pipe, OnLine(r, s) PROVE UsageInv'
  BY <1>1, OnLineUsage
<1>2. ASSUME NEW r \in Run, NEW s \in Pipe, PrintLine(r, s) \/ ReadLine(r, s) \/ Wait(r)
      PROVE  UsageInv'
  BY <1>2, MoveUsage
<1>3. CASE NeighbourKeeps
  BY <1>3, NeighbourUsage
<1>4. ASSUME UNCHANGED <<script, todo, pipe, hand, ledger, kept, seen, log, expect>>
      PROVE  UsageInv'
  BY <1>4 DEF UsageInv, Types, InStep, Beside, Unmarked
<1>5. ASSUME NEW r \in Run, NEW s \in Pipe,
             Start(r) \/ WriteAnswer(r) \/ Exit(r) \/ Fail(r) \/ Cancel(r) \/ Kill(r) \/ Return(r)
               \/ StopReading(r, s)
      PROVE  UsageInv'
  BY <1>4, <1>5 DEF Start, WriteAnswer, Exit, Fail, Cancel, Kill, Return, StopReading, Quiet,
                    callVars, procVars, readVars, usageVars
<1>6. CASE UNCHANGED vars
  BY <1>4, <1>6 DEF vars, callVars, procVars, readVars, usageVars
<1>7. "stdout" \in Pipe
  BY DEF Pipe
<1> QED
  BY <1>1, <1>2, <1>3, <1>5, <1>6, <1>7 DEF Next, Cli, Runner, Reader

LEMMA UsageCorrect == Spec => []UsageInv
BY InitUsage, UsageInvKept, PTL DEF Spec

\* The lines Record keeps in the one usage.jsonl of a task give, for each call,
\* the records all its lines would give alone (usageRecorder.Record,
\* parseUsageJSONL): nothing the reading needs is left out, and lines that other
\* calls write in between change nothing.
THEOREM UsageKept == Spec => []LedgerKeepsUsage
<1>1. UsageInv => LedgerKeepsUsage
  BY DEF UsageInv, InStep, Beside, LedgerKeepsUsage, Parse, RecordsOf, Filed, Read
<1> QED
  BY <1>1, UsageCorrect, PTL

\* Whatever the log held before, what a new line says at its head is never counted
\* from it (codexLogLine, parseLegacyUsageFile): the new lines add what stands after
\* a mark of their own, as a log with the old lines and nothing else would.
THEOREM CountedOnce == Spec => []NotCountedTwice
<1>1. UsageInv => NotCountedTwice
  BY DEF UsageInv, Unmarked, NotCountedTwice, LegacyRecords, RecordsOf, Marked
<1> QED
  BY <1>1, UsageCorrect, PTL

-----------------------------------------------------------------------------
(* Where the lines of a CLI are: the first of them taken by Record, then the *)
(* one a reader holds, those in the pipe, and those not printed yet.         *)

\* h, p and t are, in this order, the end of sc.
Ordered(sc, h, p, t) ==
  /\ Len(h) + Len(p) + Len(t) <= Len(sc) /\ Len(h) <= 1
  /\ \A i \in 1..Len(h) : h[i] = sc[Len(sc) - Len(t) - Len(p) - Len(h) + i]
  /\ \A i \in 1..Len(p) : p[i] = sc[Len(sc) - Len(t) - Len(p) + i]
  /\ \A i \in 1..Len(t) : t[i] = sc[Len(sc) - Len(t) + i]

\* How many are taken.
Taken(sc, h, p, t) == Len(sc) - Len(t) - Len(p) - Len(h)

LEMMA OrderedStart ==
  ASSUME NEW sc \in Seq(Line), NEW h, NEW p, Len(h) = 0, Len(p) = 0
  PROVE  Ordered(sc, h, p, sc) /\ Taken(sc, h, p, sc) = 0
<1>1. Len(sc) \in Nat
  OBVIOUS
<1>2. Taken(sc, h, p, sc) = 0
  BY <1>1 DEF Taken
<1>3. \A i \in 1..Len(sc) : sc[i] = sc[Len(sc) - Len(sc) + i]
  BY <1>1
<1>4. Len(h) + Len(p) + Len(sc) <= Len(sc) /\ Len(h) <= 1 /\ 1..Len(h) = {} /\ 1..Len(p) = {}
  BY <1>1
<1>5. Ordered(sc, h, p, sc)
  BY <1>3, <1>4 DEF Ordered
<1> QED
  BY <1>2, <1>5

LEMMA OrderedPrint ==
  ASSUME NEW sc \in Seq(Line), NEW h \in Seq(Line), NEW p \in Seq(Line), NEW t \in Seq(Line),
         Ordered(sc, h, p, t), t # <<>>
  PROVE  /\ Ordered(sc, h, Append(p, t[1]), Tail(t))
         /\ Taken(sc, h, Append(p, t[1]), Tail(t)) = Taken(sc, h, p, t)
<1> DEFINE pp == Append(p, t[1])
           tt == Tail(t)
<1>1. /\ Len(sc) \in Nat /\ Len(h) \in Nat /\ Len(p) \in Nat /\ Len(t) \in Nat /\ Len(t) >= 1
      /\ Len(pp) = Len(p) + 1 /\ Len(tt) = Len(t) - 1
      /\ \A i \in 1..Len(tt) : tt[i] = t[i + 1]
      /\ \A i \in 1..Len(pp) : pp[i] = IF i = Len(p) + 1 THEN t[1] ELSE p[i]
  OBVIOUS
<1> HIDE DEF pp, tt
<1>2. ASSUME NEW i \in 1..Len(pp) PROVE pp[i] = sc[Len(sc) - Len(tt) - Len(pp) + i]
  <2>1. Len(sc) - Len(tt) - Len(pp) + i = Len(sc) - Len(t) - Len(p) + i
    BY <1>1
  <2>2. CASE i = Len(p) + 1
    <3>1. Len(sc) - Len(t) - Len(p) + i = Len(sc) - Len(t) + 1 /\ 1 \in 1..Len(t)
      BY <1>1, <2>2
    <3> QED
      BY <1>1, <2>1, <2>2, <3>1 DEF Ordered
  <2>3. CASE i # Len(p) + 1
    <3>1. i \in 1..Len(p)
      BY <1>1, <2>3
    <3> QED
      BY <1>1, <2>1, <2>3, <3>1 DEF Ordered
  <2> QED
    BY <2>2, <2>3
<1>3. ASSUME NEW i \in 1..Len(tt) PROVE tt[i] = sc[Len(sc) - Len(tt) + i]
  <2>1. i + 1 \in 1..Len(t) /\ Len(sc) - Len(tt) + i = Len(sc) - Len(t) + (i + 1)
    BY <1>1
  <2> QED
    BY <1>1, <2>1 DEF Ordered
<1>4. Len(sc) - Len(tt) - Len(pp) - Len(h) = Len(sc) - Len(t) - Len(p) - Len(h)
  BY <1>1
<1>5. Len(h) + Len(pp) + Len(tt) <= Len(sc)
  BY <1>1 DEF Ordered
<1> QED
  BY <1>2, <1>3, <1>4, <1>5 DEF Ordered, Taken, pp, tt

LEMMA OrderedRead ==
  ASSUME NEW sc \in Seq(Line), NEW h, NEW p \in Seq(Line), NEW t \in Seq(Line),
         Ordered(sc, h, p, t), h = <<>>, p # <<>>
  PROVE  /\ Ordered(sc, <<p[1]>>, Tail(p), t)
         /\ Taken(sc, <<p[1]>>, Tail(p), t) = Taken(sc, h, p, t)
<1> DEFINE hh == <<p[1]>>
           pp == Tail(p)
<1>1. /\ Len(sc) \in Nat /\ Len(h) = 0 /\ Len(p) \in Nat /\ Len(t) \in Nat /\ Len(p) >= 1
      /\ Len(hh) = 1 /\ hh[1] = p[1] /\ Len(pp) = Len(p) - 1
      /\ \A i \in 1..Len(pp) : pp[i] = p[i + 1]
  OBVIOUS
<1> HIDE DEF hh, pp
<1>2. ASSUME NEW i \in 1..Len(hh) PROVE hh[i] = sc[Len(sc) - Len(t) - Len(pp) - Len(hh) + i]
  <2>1. i = 1 /\ 1 \in 1..Len(p)
        /\ Len(sc) - Len(t) - Len(pp) - Len(hh) + i = Len(sc) - Len(t) - Len(p) + 1
    BY <1>1
  <2> QED
    BY <1>1, <2>1 DEF Ordered
<1>3. ASSUME NEW i \in 1..Len(pp) PROVE pp[i] = sc[Len(sc) - Len(t) - Len(pp) + i]
  <2>1. i + 1 \in 1..Len(p) /\ Len(sc) - Len(t) - Len(pp) + i = Len(sc) - Len(t) - Len(p) + (i + 1)
    BY <1>1
  <2> QED
    BY <1>1, <2>1 DEF Ordered
<1>4. Len(sc) - Len(t) - Len(pp) - Len(hh) = Len(sc) - Len(t) - Len(p) - Len(h)
  BY <1>1
<1>5. Len(hh) + Len(pp) + Len(t) <= Len(sc) /\ Len(hh) <= 1
  BY <1>1 DEF Ordered
<1>6. Ordered(sc, hh, pp, t)
  BY <1>2, <1>3, <1>5 DEF Ordered
<1>7. Taken(sc, hh, pp, t) = Taken(sc, h, p, t)
  BY <1>4 DEF Taken
<1> QED
  BY <1>6, <1>7 DEF hh, pp

LEMMA OrderedTake ==
  ASSUME NEW sc \in Seq(Line), NEW h \in Seq(Line), NEW p \in Seq(Line), NEW t \in Seq(Line),
         Ordered(sc, h, p, t), h # <<>>
  PROVE  /\ Ordered(sc, <<>>, p, t)
         /\ Taken(sc, h, p, t) \in Nat /\ Taken(sc, h, p, t) + 1 <= Len(sc)
         /\ Taken(sc, <<>>, p, t) = Taken(sc, h, p, t) + 1
         /\ h[1] = sc[Taken(sc, h, p, t) + 1]
<1>0. Len(sc) \in Nat /\ Len(h) \in Nat /\ Len(h) >= 1 /\ Len(p) \in Nat /\ Len(t) \in Nat
  OBVIOUS
<1>1. Len(h) = 1 /\ Len(h) + Len(p) + Len(t) <= Len(sc)
  <2> DEFINE n == Len(h)
  <2>1. n <= 1 /\ n + Len(p) + Len(t) <= Len(sc)
    BY DEF Ordered
  <2>2. n \in Nat /\ n >= 1
    BY <1>0
  <2> HIDE DEF n
  <2>3. n = 1
    BY <2>1, <2>2
  <2> QED
    BY <2>1, <2>3 DEF n
<1>2. Ordered(sc, <<>>, p, t)
  BY <1>0, <1>1 DEF Ordered
<1>3. h[1] = sc[Taken(sc, h, p, t) + 1]
  BY <1>0, <1>1 DEF Ordered, Taken
<1> QED
  BY <1>0, <1>1, <1>2, <1>3 DEF Taken

\* Before its start a call has no process, and once Run has waited it is gone.
Gone ==
  \A r \in Run : /\ phase[r] = "new" => proc[r] = "none"
                 /\ phase[r] \in {"waited", "returned"} => proc[r] # "alive"

Placed(r) == \A s \in Pipe : Ordered(script[r][s], hand[r][s], pipe[r][s], todo[r][s])
Drained(r) ==
  phase[r] \in {"waited", "returned"} /\ proc[r] # "none" =>
    \A s \in Pipe : pipe[r][s] = <<>> /\ todo[r][s] = <<>>

\* Of a call whose answer holds nothing but text, Record has read as far as its
\* stderr is taken.
TakenOf(r, s) == Taken(script[r][s], hand[r][s], pipe[r][s], todo[r][s])
Plain(r) == \A i \in DOMAIN script[r].stdout : Cleaned("stdout", script[r].stdout[i]).kind = "text"
Exact(r) ==
  Plain(r) => Read(seen[r]) = Stream(TRUE, script[r]["stderr"], 1..TakenOf(r, "stderr"))

LinesInv ==
  Shape /\ Types /\ Gone /\ \A r \in Run : r \notin lost => Placed(r) /\ Drained(r) /\ Exact(r)

\* A call that has none of its variables changed.
LEMMA OtherCall ==
  ASSUME NEW q \in Run, Placed(q) /\ Drained(q) /\ Exact(q),
         script'[q] = script[q], seen'[q] = seen[q], phase'[q] = phase[q], proc'[q] = proc[q],
         todo'[q] = todo[q], pipe'[q] = pipe[q], hand'[q] = hand[q]
  PROVE  Placed(q)' /\ Drained(q)' /\ Exact(q)'
BY DEF Placed, Drained, Exact, Plain, TakenOf

LEMMA ScriptType == Types => \A r \in Run, s \in Pipe : script[r][s] \in Seq(Line)
BY ScriptAssumption DEF Types, Pipe

LEMMA InitLines == Init => LinesInv
<1> SUFFICES ASSUME Init PROVE LinesInv
  OBVIOUS
<1>1. Shape /\ Types
  BY InitCall, InitUsage DEF CallInv, UsageInv
<1>2. Gone
  BY DEF Init, Gone
<1>3. ASSUME NEW r \in Run PROVE Placed(r) /\ Drained(r) /\ Exact(r)
  <2>1. ASSUME NEW s \in Pipe
        PROVE  /\ Ordered(script[r][s], hand[r][s], pipe[r][s], todo[r][s])
               /\ TakenOf(r, s) = 0
    <3> DEFINE sc == script[r][s]
    <3>1. sc \in Seq(Line)
      BY <1>1, ScriptType
    <3>2. hand[r][s] = <<>> /\ pipe[r][s] = <<>> /\ todo[r][s] = sc
      BY DEF Init
    <3> HIDE DEF sc
    <3>3. Len(<<>>) = 0
      OBVIOUS
    <3>4. Ordered(sc, <<>>, <<>>, sc) /\ Taken(sc, <<>>, <<>>, sc) = 0
      BY <3>1, <3>3, OrderedStart
    <3> QED
      BY <3>2, <3>4 DEF sc, TakenOf
  <2>2. Placed(r) /\ Drained(r)
    BY <2>1 DEF Placed, Drained, Init
  <2>3. Exact(r)
    <3> DEFINE sc == script[r]["stderr"]
    <3>1. sc \in Seq(Line) /\ TakenOf(r, "stderr") = 0
      BY <1>1, <2>1, ScriptType DEF Pipe
    <3>2. seen[r] = <<>>
      BY DEF Init
    <3> HIDE DEF sc
    <3>3. ASSUME NEW external \in BOOLEAN
          PROVE  Stream(external, sc, 1..0) = NewStream(external)
                 /\ Stream(external, <<>>, DOMAIN <<>>) = NewStream(external)
      <4>1. <<>> \in Seq(Line) /\ \A k \in 1..Len(<<>>) : k \notin DOMAIN <<>>
        OBVIOUS
      <4>2. \A k \in 1..Len(sc) : k \notin 1..0
        OBVIOUS
      <4> QED
        BY <3>1, <4>1, <4>2, StreamStarts
    <3>4. Read(<<>>) = Stream(TRUE, sc, 1..0)
      BY <3>3 DEF Read
    <3> QED
      BY <3>1, <3>2, <3>4 DEF Exact, sc
  <2> QED
    BY <2>2, <2>3
<1> QED
  BY <1>1, <1>2, <1>3 DEF LinesInv

\* A line moves from one queue of a call to the next: nothing of the call is
\* taken, and the other pipe stays.
LEMMA MoveLines ==
  ASSUME LinesInv, Types', NEW r \in Run, r \notin lost, NEW s \in Pipe,
         UNCHANGED <<script, phase, proc, seen>>,
         phase[r] \in {"waited", "returned"} => proc[r] = "none",
         Ordered(script[r][s], hand'[r][s], pipe'[r][s], todo'[r][s]),
         Taken(script[r][s], hand'[r][s], pipe'[r][s], todo'[r][s]) = TakenOf(r, s),
         \A p \in Pipe : p # s =>
           hand'[r][p] = hand[r][p] /\ pipe'[r][p] = pipe[r][p] /\ todo'[r][p] = todo[r][p]
  PROVE  Placed(r)' /\ Drained(r)' /\ Exact(r)'
<1>1. Placed(r) /\ Exact(r)
  BY DEF LinesInv
<1>2. TakenOf(r, "stderr")' = TakenOf(r, "stderr")
  BY DEF TakenOf, Pipe
<1> QED
  BY <1>1, <1>2 DEF Placed, Drained, Exact, Plain

LEMMA PrintLines ==
  ASSUME LinesInv, Types', NEW r \in Run, NEW s \in Pipe, r \notin lost, PrintLine(r, s)
  PROVE  Placed(r)' /\ Drained(r)' /\ Exact(r)'
<1> DEFINE sc == script[r][s]
           h == hand[r][s]
           p == pipe[r][s]
           t == todo[r][s]
<1>1. /\ Put(todo, todo', r, s, Tail(t)) /\ Put(pipe, pipe', r, s, Append(p, t[1]))
      /\ t # <<>> /\ proc[r] = "alive" /\ UNCHANGED <<script, phase, proc, seen, hand>>
  BY DEF PrintLine, Put, readVars, usageVars, callVars, procVars
<1>2. sc \in Seq(Line) /\ h \in Seq(Line) /\ p \in Seq(Line) /\ t \in Seq(Line)
  BY ScriptType DEF Queues, LinesInv, Types
<1>3. Ordered(sc, h, p, t)
  BY DEF Placed, LinesInv
<1> HIDE DEF sc, h, p, t
<1>4. Ordered(sc, h, Append(p, t[1]), Tail(t)) /\ Taken(sc, h, Append(p, t[1]), Tail(t)) = Taken(sc, h, p, t)
  BY <1>1, <1>2, <1>3, OrderedPrint
<1>5. Tail(t) \in Seq(Line) /\ Append(p, t[1]) \in Seq(Line) /\ todo \in Queues /\ pipe \in Queues
  BY <1>1, <1>2 DEF LinesInv, Types
<1>6. Only(todo, todo', r, s, Tail(t))
  BY <1>1, <1>5, PutQueue
<1>7. Only(pipe, pipe', r, s, Append(p, t[1]))
  BY <1>1, <1>5, PutQueue
<1>8. phase[r] \in {"waited", "returned"} => proc[r] = "none"
  BY <1>1 DEF Gone, LinesInv
<1>9. /\ Ordered(script[r][s], hand'[r][s], pipe'[r][s], todo'[r][s])
      /\ Taken(script[r][s], hand'[r][s], pipe'[r][s], todo'[r][s]) = TakenOf(r, s)
  BY <1>1, <1>4, <1>6, <1>7 DEF Only, sc, h, p, t, TakenOf
<1> QED
  BY <1>1, <1>6, <1>7, <1>8, <1>9, MoveLines DEF Only

LEMMA ReadLines ==
  ASSUME LinesInv, Types', NEW r \in Run, NEW s \in Pipe, r \notin lost, ReadLine(r, s)
  PROVE  Placed(r)' /\ Drained(r)' /\ Exact(r)'
<1> DEFINE sc == script[r][s]
           h == hand[r][s]
           p == pipe[r][s]
           t == todo[r][s]
<1>1. /\ Put(pipe, pipe', r, s, Tail(p)) /\ Put(hand, hand', r, s, <<p[1]>>)
      /\ h = <<>> /\ p # <<>> /\ UNCHANGED <<script, phase, proc, seen, todo>>
  BY DEF ReadLine, Put, readVars, usageVars, callVars, procVars
<1>2. sc \in Seq(Line) /\ h \in Seq(Line) /\ p \in Seq(Line) /\ t \in Seq(Line)
  BY ScriptType DEF Queues, LinesInv, Types
<1>3. Ordered(sc, h, p, t)
  BY DEF Placed, LinesInv
<1>4. phase[r] \in {"waited", "returned"} => proc[r] = "none"
  BY <1>1 DEF Drained, LinesInv
<1> HIDE DEF sc, h, p, t
<1>5. Ordered(sc, <<p[1]>>, Tail(p), t) /\ Taken(sc, <<p[1]>>, Tail(p), t) = Taken(sc, h, p, t)
  BY <1>1, <1>2, <1>3, OrderedRead
<1>6. Tail(p) \in Seq(Line) /\ <<p[1]>> \in Seq(Line) /\ hand \in Queues /\ pipe \in Queues
  BY <1>1, <1>2 DEF LinesInv, Types
<1>7. Only(hand, hand', r, s, <<p[1]>>)
  BY <1>1, <1>6, PutQueue
<1>8. Only(pipe, pipe', r, s, Tail(p))
  BY <1>1, <1>6, PutQueue
<1>9. /\ Ordered(script[r][s], hand'[r][s], pipe'[r][s], todo'[r][s])
      /\ Taken(script[r][s], hand'[r][s], pipe'[r][s], todo'[r][s]) = TakenOf(r, s)
  BY <1>1, <1>5, <1>7, <1>8 DEF Only, sc, h, p, t, TakenOf
<1> QED
  BY <1>1, <1>4, <1>7, <1>8, <1>9, MoveLines DEF Only

\* Record takes a line: of stderr it is the next that Exact speaks of, and of
\* stdout it is text.
LEMMA TakeLine ==
  ASSUME LinesInv, NEW r \in Run, NEW s \in Pipe, r \notin lost, OnLine(r, s)
  PROVE  Placed(r)' /\ Drained(r)' /\ Exact(r)'
<1> DEFINE sc == script[r][s]
           h == hand[r][s]
           p == pipe[r][s]
           t == todo[r][s]
           n == TakenOf(r, s)
<1>1. /\ Put(hand, hand', r, s, <<>>) /\ seen' = [seen EXCEPT ![r] = Append(@, Cleaned(s, h[1]))]
      /\ h # <<>> /\ UNCHANGED <<script, phase, proc, todo, pipe>>
  BY DEF OnLine, Put, readVars, usageVars, callVars, procVars
<1>2. /\ sc \in Seq(Line) /\ h \in Seq(Line) /\ p \in Seq(Line) /\ t \in Seq(Line)
      /\ seen[r] \in Seq(Line) /\ Ordered(sc, h, p, t) /\ n = Taken(sc, h, p, t)
  BY ScriptType DEF Queues, Placed, TakenOf, LinesInv, Types
<1> HIDE DEF sc, h, p, t, n
<1>3. /\ Ordered(sc, <<>>, p, t) /\ n \in Nat /\ n + 1 <= Len(sc)
      /\ Taken(sc, <<>>, p, t) = n + 1 /\ h[1] = sc[n + 1]
  BY <1>1, <1>2, OrderedTake
<1>4. Only(hand, hand', r, s, <<>>)
  <2>1. <<>> \in Seq(Line) /\ hand \in Queues
    BY DEF LinesInv, Types
  <2> QED
    BY <1>1, <2>1, PutQueue
<1>5. Placed(r)'
  BY <1>1, <1>3, <1>4 DEF Only, Placed, LinesInv, sc, p, t
<1>6. Drained(r)'
  BY <1>1 DEF Drained, LinesInv
<1>7. Exact(r)'
  <2> SUFFICES ASSUME Plain(r)'
               PROVE  Read(seen'[r]) = Stream(TRUE, script[r]["stderr"], 1..TakenOf(r, "stderr")')
    BY <1>1 DEF Exact
  <2>1. Plain(r) /\ Read(seen[r]) = Stream(TRUE, script[r]["stderr"], 1..TakenOf(r, "stderr"))
    BY <1>1 DEF Plain, Exact, LinesInv
  <2> DEFINE c == Cleaned(s, h[1])
  <2>2. h[1] \in Line /\ c \in Line
    <3>1. h[1] \in Line
      BY <1>2, <1>3
    <3> QED
      BY <3>1, MarkTypes
  <2>3. Read(seen'[r]) = Consume(Read(seen[r]), c)
    <3>1. seen'[r] = Append(seen[r], c)
      BY <1>1 DEF LinesInv, Types
    <3> QED
      BY <1>2, <2>2, <3>1, ReadGrows
  <2>4. CASE s = "stderr"
    <3>1. TakenOf(r, "stderr")' = n + 1
      BY <1>1, <1>3, <1>4, <2>4 DEF Only, TakenOf, sc, p, t
    <3>2. ASSUME NEW external \in BOOLEAN
          PROVE  Stream(external, sc, 1..(n + 1)) = Consume(Stream(external, sc, 1..n), sc[n + 1])
      BY <1>2, <1>3, StreamNext
    <3>3. Read(seen[r]) = Stream(TRUE, sc, 1..n) /\ script[r]["stderr"] = sc
      BY <2>1, <2>4 DEF sc, n
    <3>5. c = h[1]
      BY <2>2, <2>4, MarkTypes
    <3>4. Read(seen'[r]) = Stream(TRUE, sc, 1..(n + 1))
      BY <1>3, <2>3, <3>2, <3>3, <3>5
    <3> QED
      BY <3>1, <3>3, <3>4
  <2>5. CASE s = "stdout"
    <3>1. TakenOf(r, "stderr")' = TakenOf(r, "stderr")
      BY <1>1, <1>4, <2>5 DEF Only, TakenOf, Pipe
    <3>2. c.kind = "text"
      <4>1. n + 1 \in DOMAIN sc
        BY <1>2, <1>3
      <4> QED
        BY <1>3, <2>1, <2>5, <4>1 DEF Plain, sc
    <3>3. Consume(Read(seen[r]), c) = Read(seen[r])
      BY <3>2, ConsumeIs
    <3> QED
      BY <2>1, <2>3, <3>1, <3>3
  <2> QED
    BY <2>4, <2>5 DEF Pipe
<1> QED
  BY <1>5, <1>6, <1>7

LEMMA QueueSteps ==
  ASSUME LinesInv, Shape', Types', NEW r \in Run, NEW s \in Pipe,
         PrintLine(r, s) \/ ReadLine(r, s) \/ OnLine(r, s)
  PROVE  LinesInv'
<1> USE DEF readVars, usageVars, callVars, procVars
<1>1. UNCHANGED <<script, phase, proc, lost>>
  BY DEF PrintLine, ReadLine, OnLine
<1>2. Gone'
  BY <1>1 DEF LinesInv, Gone
<1>3. ASSUME NEW q \in Run, q \notin lost PROVE Placed(q)' /\ Drained(q)' /\ Exact(q)'
  <2>1. Placed(q) /\ Drained(q) /\ Exact(q) /\ Types
    BY <1>3 DEF LinesInv
  <2>2. CASE q = r
    BY <1>3, <2>2, PrintLines, ReadLines, TakeLine
  <2>3. CASE q # r
    <3>1. todo'[q] = todo[q] /\ pipe'[q] = pipe[q] /\ hand'[q] = hand[q] /\ seen'[q] = seen[q]
      BY <2>1, <2>3 DEF PrintLine, ReadLine, OnLine, Types, Queues
    <3> QED
      BY <1>1, <2>1, <3>1, OtherCall
  <2> QED
    BY <2>2, <2>3
<1> QED
  BY <1>1, <1>2, <1>3 DEF LinesInv

LEMMA WaitLines ==
  ASSUME LinesInv, Shape', Types', NEW r \in Run, Wait(r)
  PROVE  LinesInv'
<1> USE DEF readVars, usageVars, callVars, procVars
<1>1. /\ phase[r] = "run" /\ proc[r] # "alive" /\ phase' = [phase EXCEPT ![r] = "waited"]
      /\ pipe' = [pipe EXCEPT ![r] = [s \in Pipe |-> <<>>]]
      /\ lost \subseteq lost'
      /\ UNCHANGED <<script, proc, todo, hand, seen>>
  BY DEF Wait
<1>2. Types /\ Shape /\ Gone
  BY DEF LinesInv
<1>3. Gone'
  BY <1>1, <1>2 DEF Gone, Shape
<1>4. ASSUME NEW q \in Run, q \notin lost' PROVE Placed(q)' /\ Drained(q)' /\ Exact(q)'
  <2>1. Placed(q) /\ Drained(q) /\ Exact(q)
    BY <1>1, <1>4 DEF LinesInv
  <2>2. CASE q = r
    <3>1. \A s \in Pipe : pipe[r][s] = <<>> /\ todo[r][s] = <<>>
      BY <1>4, <2>2 DEF Wait
    <3>2. \A s \in Pipe : pipe'[r][s] = <<>>
      BY <1>1, <1>2 DEF Types, Queues
    <3>3. Placed(q)'
      BY <1>1, <2>1, <2>2, <3>1, <3>2 DEF Placed
    <3>4. Drained(q)'
      BY <1>1, <2>2, <3>1, <3>2 DEF Drained
    <3>5. TakenOf(q, "stderr")' = TakenOf(q, "stderr")
      BY <1>1, <2>2, <3>1, <3>2 DEF TakenOf, Pipe
    <3>6. Exact(q)'
      BY <1>1, <2>1, <3>5 DEF Exact, Plain
    <3> QED
      BY <3>3, <3>4, <3>6
  <2>3. CASE q # r
    <3>1. phase'[q] = phase[q] /\ pipe'[q] = pipe[q]
      BY <1>1, <1>2, <2>3 DEF Shape, Types, Queues
    <3> QED
      BY <1>1, <2>1, <3>1, OtherCall
  <2> QED
    BY <2>2, <2>3
<1> QED
  BY <1>1, <1>3, <1>4 DEF LinesInv

\* The steps that leave the lines where they are: a call is returned only after
\* the wait or without a process, and no process ends after the wait.
LEMMA OtherLines ==
  ASSUME LinesInv, Shape', Types', NEW r \in Run, NEW s \in Pipe,
         Start(r) \/ WriteAnswer(r) \/ Exit(r) \/ Fail(r) \/ Cancel(r) \/ Kill(r) \/ Return(r)
           \/ StopReading(r, s)
  PROVE  LinesInv'
<1> USE DEF readVars, usageVars, callVars, procVars
<1>1. UNCHANGED <<script, todo, pipe, hand, seen, lost>>
  BY DEF Start, WriteAnswer, Exit, Fail, Cancel, Kill, Return, StopReading, Quiet
<1>2. \/ phase[r] = "new" /\ phase' = [phase EXCEPT ![r] = "run"] /\ proc' = [proc EXCEPT ![r] = "alive"]
      \/ phase[r] = "new" /\ phase' = [phase EXCEPT ![r] = "returned"] /\ UNCHANGED proc
      \/ phase[r] = "waited" /\ phase' = [phase EXCEPT ![r] = "returned"] /\ UNCHANGED proc
      \/ proc[r] = "alive" /\ (\E end \in Procs \ {"none", "alive"} : proc' = [proc EXCEPT ![r] = end])
           /\ UNCHANGED phase
      \/ UNCHANGED <<phase, proc>>
  BY DEF Start, WriteAnswer, Exit, Fail, Cancel, Kill, Return, StopReading, Quiet, Procs
<1>3. Shape /\ Gone
  BY DEF LinesInv
<1>4. Gone'
  BY <1>2, <1>3 DEF Gone, Shape, Procs
<1>5. ASSUME NEW q \in Run, q \notin lost PROVE Placed(q)' /\ Drained(q)' /\ Exact(q)'
  <2>1. Placed(q) /\ Drained(q) /\ Exact(q)
    BY <1>5 DEF LinesInv
  <2>2. Placed(q)' /\ Exact(q)'
    BY <1>1, <2>1 DEF Placed, Exact, Plain, TakenOf
  <2>3. Drained(q)'
    BY <1>1, <1>2, <1>3, <2>1 DEF Drained, Gone, Shape, Procs
  <2> QED
    BY <2>2, <2>3
<1> QED
  BY <1>1, <1>4, <1>5 DEF LinesInv

LEMMA LinesKept == LinesInv /\ Shape' /\ Types' /\ [Next]_vars => LinesInv'
<1> SUFFICES ASSUME LinesInv, Shape', Types', [Next]_vars PROVE LinesInv'
  OBVIOUS
<1>1. ASSUME NEW r \in Run, NEW s \in Pipe, PrintLine(r, s) \/ ReadLine(r, s) \/ OnLine(r, s)
      PROVE  LinesInv'
  BY <1>1, QueueSteps
<1>2. ASSUME NEW r \in Run, Wait(r) PROVE LinesInv'
  BY <1>2, WaitLines
<1>3. ASSUME NEW r \in Run, NEW s \in Pipe,
             Start(r) \/ WriteAnswer(r) \/ Exit(r) \/ Fail(r) \/ Cancel(r) \/ Kill(r) \/ Return(r)
           \/ StopReading(r, s)
      PROVE  LinesInv'
  BY <1>3, OtherLines
<1>4. CASE NeighbourKeeps
  <2>1. UNCHANGED <<script, phase, proc, todo, pipe, hand, seen, lost>>
    BY <1>4 DEF NeighbourKeeps, readVars, callVars, procVars
  <2> QED
    BY <2>1 DEF LinesInv, Gone, Placed, Drained, Exact, Plain, TakenOf
<1>5. CASE UNCHANGED vars
  <2>1. UNCHANGED <<script, phase, proc, todo, pipe, hand, seen, lost>>
    BY <1>5 DEF vars, readVars, callVars, procVars, usageVars
  <2> QED
    BY <2>1 DEF LinesInv, Gone, Placed, Drained, Exact, Plain, TakenOf
<1>6. "stdout" \in Pipe
  BY DEF Pipe
<1> QED
  BY <1>1, <1>2, <1>3, <1>4, <1>5, <1>6 DEF Next, Cli, Runner, Reader

LEMMA LinesCorrect == Spec => []LinesInv
<1>1. CallInv => Shape
  BY DEF CallInv
<1>2. UsageInv => Types
  BY DEF UsageInv
<1> QED
  BY <1>1, <1>2, InitLines, LinesKept, CallCorrect, UsageCorrect, PTL DEF Spec

\* A call all of whose lines were read, and whose answer holds nothing but text,
\* counts exactly what its stderr reported (runCodex, usageRecorder.Record,
\* parseUsageJSONL), in whatever order the two pipes were read and whatever
\* other calls wrote to the file meanwhile.
THEOREM UsageIsExact == Spec => []UsageExact
<1>1. CallInv /\ UsageInv /\ LinesInv => UsageExact
  <2> SUFFICES ASSUME CallInv, UsageInv, LinesInv, NEW r \in Run,
                      phase[r] = "returned", proc[r] = "done", r \notin lost, Plain(r)
               PROVE  Parse(ledger, r) = RecordsOf(TRUE, script[r].stderr)
    BY DEF UsageExact, Plain
  <2> DEFINE sc == script[r]["stderr"]
  <2>1. sc \in Seq(Line) /\ script[r].stderr = sc
    BY ScriptType DEF UsageInv, Pipe
  <2>2. pipe[r]["stderr"] = <<>> /\ todo[r]["stderr"] = <<>>
    BY DEF LinesInv, Drained, Pipe
  <2>3. hand[r]["stderr"] = <<>>
    BY DEF CallInv, Held, Over, Pipe
  <2>4. Read(seen[r]) = Stream(TRUE, sc, 1..TakenOf(r, "stderr"))
    BY DEF LinesInv, Exact
  <2>5. TakenOf(r, "stderr") = Len(sc) /\ DOMAIN sc = 1..Len(sc)
    BY <2>1, <2>2, <2>3 DEF TakenOf, Taken
  <2>6. Filed(ledger, r) = Read(seen[r])
    BY DEF UsageInv, InStep
  <2> HIDE DEF sc
  <2>7. Filed(ledger, r) = Stream(TRUE, sc, DOMAIN sc)
    BY <2>4, <2>5, <2>6
  <2> QED
    BY <2>1, <2>7 DEF Parse, RecordsOf, Filed
<1> QED
  BY <1>1, CallCorrect, UsageCorrect, LinesCorrect, PTL

-----------------------------------------------------------------------------
(* The answer: what the two readers have collected.                         *)

Got == [pipe : Pipe, line : Line]

\* The first n lines of sc are among those collected of pipe s, in their order.
WovenTo(n, sc, s, c) ==
  \E at \in [1..n -> DOMAIN c] :
    /\ \A i, j \in 1..n : i < j => at[i] < at[j]
    /\ \A i \in 1..n : c[at[i]] = [pipe |-> s, line |-> sc[i]]

LEMMA WovenStays ==
  ASSUME NEW n \in Nat, NEW sc, NEW s, NEW c \in Seq(Got), NEW e \in Got, WovenTo(n, sc, s, c)
  PROVE  WovenTo(n, sc, s, Append(c, e))
<1> DEFINE d == Append(c, e)
<1>1. DOMAIN c \subseteq DOMAIN d /\ \A k \in DOMAIN c : d[k] = c[k]
  OBVIOUS
<1> HIDE DEF d
<1>2. PICK at \in [1..n -> DOMAIN c] :
        /\ \A i, j \in 1..n : i < j => at[i] < at[j]
        /\ \A i \in 1..n : c[at[i]] = [pipe |-> s, line |-> sc[i]]
  BY DEF WovenTo
<1>3. at \in [1..n -> DOMAIN d] /\ \A i \in 1..n : d[at[i]] = c[at[i]]
  BY <1>1
<1>4. WovenTo(n, sc, s, d)
  BY <1>2, <1>3 DEF WovenTo
<1> QED
  BY <1>4 DEF d

LEMMA WovenGrows ==
  ASSUME NEW n \in Nat, NEW sc, NEW s, NEW c \in Seq(Got), NEW e \in Got, WovenTo(n, sc, s, c),
         e = [pipe |-> s, line |-> sc[n + 1]]
  PROVE  WovenTo(n + 1, sc, s, Append(c, e))
<1> DEFINE d == Append(c, e)
           m == Len(c) + 1
<1>1. /\ DOMAIN c = 1..Len(c) /\ Len(c) \in Nat /\ DOMAIN d = 1..m /\ d[m] = e
      /\ \A k \in DOMAIN c : d[k] = c[k]
  OBVIOUS
<1> HIDE DEF d
<1>2. PICK at \in [1..n -> DOMAIN c] :
        /\ \A i, j \in 1..n : i < j => at[i] < at[j]
        /\ \A i \in 1..n : c[at[i]] = [pipe |-> s, line |-> sc[i]]
  BY DEF WovenTo
<1> DEFINE to == [i \in 1..(n + 1) |-> IF i = n + 1 THEN m ELSE at[i]]
<1>3. \A i \in 1..(n + 1) : i = n + 1 \/ i \in 1..n
  OBVIOUS
<1>4. to \in [1..(n + 1) -> DOMAIN d]
  BY <1>1, <1>3
<1>5. ASSUME NEW i \in 1..(n + 1), NEW j \in 1..(n + 1), i < j PROVE to[i] < to[j]
  <2>1. i \in 1..n /\ to[i] = at[i] /\ at[i] \in 1..Len(c)
    BY <1>1, <1>5
  <2>2. CASE j = n + 1
    BY <1>1, <2>1, <2>2
  <2>3. CASE j # n + 1
    <3>1. j \in 1..n /\ to[j] = at[j]
      BY <1>3, <2>3
    <3> QED
      BY <1>2, <1>5, <2>1, <3>1
  <2> QED
    BY <2>2, <2>3
<1>6. ASSUME NEW i \in 1..(n + 1) PROVE d[to[i]] = [pipe |-> s, line |-> sc[i]]
  <2>1. CASE i = n + 1
    BY <1>1, <2>1
  <2>2. CASE i # n + 1
    <3>1. i \in 1..n /\ to[i] = at[i]
      BY <1>3, <2>2
    <3> QED
      BY <1>1, <1>2, <3>1
  <2> QED
    BY <2>1, <2>2
<1> HIDE DEF to
<1>7. WovenTo(n + 1, sc, s, d)
  BY <1>4, <1>5, <1>6 DEF WovenTo
<1> QED
  BY <1>7 DEF d

\* How many lines of a pipe the readers have.
Rest(n, t, p) == n - t - p
Coll(r, s) == Rest(Len(script[r][s]), Len(todo[r][s]), Len(pipe[r][s]))

Gathered(r) ==
  /\ \A s \in Pipe : Coll(r, s) \in Nat /\ WovenTo(Coll(r, s), script[r][s], s, out[r])
  /\ Len(out[r]) = Coll(r, "stdout") + Coll(r, "stderr")

\* What Return saw of a call without error is so from then on.
Judged(r) ==
  phase[r] = "returned" /\ ~result[r].err =>
    /\ proc[r] = "done" /\ r \notin ctx
    /\ script[r].engine = "codex" /\ file[r] = "own" => result[r].from = "own"
    /\ script[r].engine = "claude" => \A i \in DOMAIN out[r] : out[r][i].line.kind # "leak"

OutInv == out \in [Run -> Seq(Got)] /\ \A r \in Run : r \notin lost => Gathered(r)
AnswerInv == \A r \in Run : Judged(r)

LEMMA InitOut == Init => OutInv
<1> SUFFICES ASSUME Init PROVE OutInv
  OBVIOUS
<1>1. Types
  BY InitUsage DEF UsageInv
<1>2. out \in [Run -> Seq(Got)]
  BY DEF Init
<1>3. ASSUME NEW r \in Run PROVE Gathered(r)
  <2>1. out[r] = <<>> /\ Len(<<>>) = 0
    BY DEF Init
  <2>2. ASSUME NEW s \in Pipe PROVE Coll(r, s) = 0
    <3>1. script[r][s] \in Seq(Line) /\ todo[r][s] = script[r][s] /\ pipe[r][s] = <<>>
      BY <1>1, ScriptType DEF Init
    <3> DEFINE n == Len(script[r][s])
    <3>2. n \in Nat /\ Len(todo[r][s]) = n /\ Len(pipe[r][s]) = 0
      BY <2>1, <3>1
    <3>3. Coll(r, s) = Rest(n, n, 0)
      BY <3>2 DEF Coll
    <3> HIDE DEF n
    <3> QED
      BY <3>2, <3>3 DEF Rest
  <2>3. ASSUME NEW s \in Pipe PROVE WovenTo(0, script[r][s], s, out[r])
    <3> DEFINE at == [i \in 1..0 |-> i]
    <3>1. 1..0 = {}
      OBVIOUS
    <3>2. at \in [1..0 -> DOMAIN out[r]]
      BY <3>1
    <3> HIDE DEF at
    <3> QED
      BY <3>1, <3>2 DEF WovenTo
  <2> QED
    BY <2>1, <2>2, <2>3 DEF Gathered, Pipe
<1> QED
  BY <1>2, <1>3 DEF OutInv

\* A call of whose lines no reader takes one.
LEMMA OtherOut ==
  ASSUME NEW q \in Run, Gathered(q), script'[q] = script[q], out'[q] = out[q],
         \A s \in Pipe : Coll(q, s)' = Coll(q, s)
  PROVE  Gathered(q)'
BY DEF Gathered, Pipe

\* The line a reader takes is the next of its pipe, and goes to the end.
LEMMA ReadOut ==
  ASSUME LinesInv, OutInv, Types', NEW r \in Run, NEW s \in Pipe, r \notin lost, ReadLine(r, s)
  PROVE  Gathered(r)'
<1> DEFINE sc == script[r][s]
           p == pipe[r][s]
           t == todo[r][s]
           c == out[r]
           n == Coll(r, s)
           e == [pipe |-> s, line |-> p[1]]
<1>1. /\ Put(pipe, pipe', r, s, Tail(p)) /\ p # <<>> /\ UNCHANGED <<script, todo>>
      /\ out' = [out EXCEPT ![r] = Append(c, e)]
  BY DEF ReadLine, Put, callVars, procVars
<1>2. /\ sc \in Seq(Line) /\ p \in Seq(Line) /\ t \in Seq(Line) /\ c \in Seq(Got)
      /\ pipe \in Queues /\ out \in [Run -> Seq(Got)] /\ hand[r][s] \in Seq(Line)
  BY ScriptType DEF Queues, LinesInv, Types, OutInv
<1>3. Ordered(sc, hand[r][s], p, t) /\ Gathered(r)
  BY DEF Placed, LinesInv, OutInv
<1>4. /\ n \in Nat /\ n = Rest(Len(sc), Len(t), Len(p))
      /\ \A q \in Pipe : WovenTo(Coll(r, q), script[r][q], q, c)
      /\ Len(c) = Coll(r, "stdout") + Coll(r, "stderr") /\ \A q \in Pipe : Coll(r, q) \in Nat
  BY <1>3 DEF Gathered, Coll
<1> HIDE DEF sc, p, t, c, n
<1>5. /\ Len(sc) \in Nat /\ Len(p) \in Nat /\ Len(p) >= 1 /\ Len(t) \in Nat
      /\ Tail(p) \in Seq(Line) /\ Len(Tail(p)) = Len(p) - 1 /\ p[1] \in Line
  BY <1>1, <1>2
<1>6. p[1] = sc[n + 1]
  <2>1. 1 \in 1..Len(p) /\ n + 1 = Len(sc) - Len(t) - Len(p) + 1
    BY <1>4, <1>5 DEF Rest
  <2> QED
    BY <1>3, <2>1 DEF Ordered
<1>7. Only(pipe, pipe', r, s, Tail(p))
  BY <1>1, <1>2, <1>5, PutQueue
<1>8. Coll(r, s)' = n + 1
  <2>1. Len(pipe'[r][s]) = Len(p) - 1
    BY <1>5, <1>7 DEF Only
  <2>2. Coll(r, s)' = Rest(Len(sc), Len(t), Len(p) - 1)
    BY <1>1, <2>1 DEF Coll, sc, t
  <2> QED
    BY <1>4, <1>5, <2>2 DEF Rest
<1>9. \A q \in Pipe : q # s => Coll(r, q)' = Coll(r, q)
  BY <1>1, <1>7 DEF Coll, Only
<1>10. e \in Got /\ e = [pipe |-> s, line |-> sc[n + 1]]
  BY <1>5, <1>6 DEF Got
<1> HIDE DEF e
<1>11. out'[r] = Append(c, e) /\ Len(Append(c, e)) = Len(c) + 1 /\ Len(c) \in Nat
  BY <1>1, <1>2, <1>10
<1>12. WovenTo(n + 1, sc, s, Append(c, e))
  BY <1>2, <1>4, <1>10, WovenGrows DEF sc, n
<1>13. ASSUME NEW q \in Pipe, q # s PROVE WovenTo(Coll(r, q), script[r][q], q, Append(c, e))
  BY <1>2, <1>4, <1>10, WovenStays
<1>14. \A q \in Pipe : Coll(r, q)' \in Nat /\ WovenTo(Coll(r, q)', script[r][q], q, Append(c, e))
  <2> TAKE q \in Pipe
  <2>1. CASE q = s
    BY <1>4, <1>8, <1>12, <2>1 DEF sc
  <2>2. CASE q # s
    BY <1>4, <1>9, <1>13, <2>2
  <2> QED
    BY <2>1, <2>2
<1>15. Len(c) + 1 = Coll(r, "stdout")' + Coll(r, "stderr")'
  <2>1. CASE s = "stdout"
    BY <1>4, <1>8, <1>9, <2>1 DEF Pipe, n
  <2>2. CASE s = "stderr"
    BY <1>4, <1>8, <1>9, <2>2 DEF Pipe, n
  <2> QED
    BY <2>1, <2>2 DEF Pipe
<1> QED
  BY <1>1, <1>11, <1>14, <1>15 DEF Gathered

LEMMA OutKept == LinesInv /\ OutInv /\ Types' /\ [Next]_vars => OutInv'
<1> SUFFICES ASSUME LinesInv, OutInv, Types', [Next]_vars PROVE OutInv'
  OBVIOUS
<1> USE DEF readVars, usageVars, callVars, procVars
<1>1. Types /\ out \in [Run -> Seq(Got)] /\ \A r \in Run : r \notin lost => Gathered(r)
  BY DEF OutInv, LinesInv
<1>2. ASSUME NEW r \in Run, NEW s \in Pipe, ReadLine(r, s) PROVE OutInv'
  <2>1. /\ out' = [out EXCEPT ![r] = Append(@, [pipe |-> s, line |-> pipe[r][s][1]])]
        /\ pipe[r][s] # <<>> /\ UNCHANGED <<script, todo, lost>>
        /\ \A q \in Run : q # r => pipe'[q] = pipe[q]
    BY <1>1, <1>2 DEF ReadLine, Types, Queues
  <2>2. pipe[r][s] \in Seq(Line)
    BY <1>1 DEF Types, Queues
  <2>3. [pipe |-> s, line |-> pipe[r][s][1]] \in Got
    BY <2>1, <2>2 DEF Got
  <2>4. out' \in [Run -> Seq(Got)]
    BY <1>1, <2>1, <2>3
  <2>5. ASSUME NEW q \in Run, q \notin lost' PROVE Gathered(q)'
    <3>1. CASE q = r
      BY <1>2, <2>1, <2>5, <3>1, ReadOut
    <3>2. CASE q # r
      <4>1. \A x \in Pipe : Coll(q, x)' = Coll(q, x)
        BY <2>1, <3>2 DEF Coll
      <4>2. out'[q] = out[q]
        BY <1>1, <2>1, <3>2
      <4> QED
        BY <1>1, <2>1, <2>5, <4>1, <4>2, OtherOut
    <3> QED
      BY <3>1, <3>2
  <2> QED
    BY <2>4, <2>5 DEF OutInv
<1>3. ASSUME NEW r \in Run, NEW s \in Pipe, PrintLine(r, s) PROVE OutInv'
  <2> DEFINE t == todo[r][s]
             p == pipe[r][s]
  <2>1. /\ Put(todo, todo', r, s, Tail(t)) /\ Put(pipe, pipe', r, s, Append(p, t[1]))
        /\ t # <<>> /\ UNCHANGED <<script, out, lost>>
    BY <1>3 DEF PrintLine, Put
  <2>2. t \in Seq(Line) /\ p \in Seq(Line) /\ todo \in Queues /\ pipe \in Queues
    BY <1>1 DEF Types, Queues
  <2> HIDE DEF t, p
  <2>3. /\ Tail(t) \in Seq(Line) /\ Append(p, t[1]) \in Seq(Line) /\ Len(t) \in Nat /\ Len(p) \in Nat
        /\ Len(Tail(t)) = Len(t) - 1 /\ Len(Append(p, t[1])) = Len(p) + 1
    BY <2>1, <2>2
  <2>4. Only(todo, todo', r, s, Tail(t)) /\ Only(pipe, pipe', r, s, Append(p, t[1]))
    BY <2>1, <2>2, <2>3, PutQueue
  <2>5. ASSUME NEW q \in Run, NEW x \in Pipe PROVE Coll(q, x)' = Coll(q, x)
    <3>1. CASE q = r /\ x = s
      <4> DEFINE n == Len(script[r][s])
      <4>1. Len(todo'[r][s]) = Len(t) - 1 /\ Len(pipe'[r][s]) = Len(p) + 1
        BY <2>3, <2>4 DEF Only
      <4>2. Coll(q, x)' = Rest(n, Len(t) - 1, Len(p) + 1) /\ Coll(q, x) = Rest(n, Len(t), Len(p))
        BY <2>1, <3>1, <4>1 DEF Coll, t, p
      <4>3. n \in Nat
        BY <1>1, ScriptType
      <4> HIDE DEF n
      <4> QED
        BY <2>3, <4>2, <4>3 DEF Rest
    <3>2. CASE q # r \/ x # s
      BY <2>1, <2>4, <3>2 DEF Only, Coll
    <3> QED
      BY <3>1, <3>2
  <2>6. ASSUME NEW q \in Run, q \notin lost' PROVE Gathered(q)'
    BY <1>1, <2>1, <2>5, <2>6, OtherOut
  <2> QED
    BY <1>1, <2>1, <2>6 DEF OutInv
<1>4. ASSUME NEW r \in Run, Wait(r) PROVE OutInv'
  <2>1. UNCHANGED <<script, out, todo>> /\ pipe' = [pipe EXCEPT ![r] = [s \in Pipe |-> <<>>]]
    BY <1>4 DEF Wait
  <2>2. ASSUME NEW q \in Run, q \notin lost' PROVE q \notin lost /\ \A s \in Pipe : pipe'[q][s] = pipe[q][s]
    <3>1. q \notin lost /\ (q = r => \A s \in Pipe : pipe[r][s] = <<>>)
      BY <1>4, <2>2 DEF Wait
    <3> QED
      BY <1>1, <2>1, <3>1 DEF Types, Queues
  <2>3. ASSUME NEW q \in Run, q \notin lost' PROVE Gathered(q)'
    <3>1. \A s \in Pipe : Coll(q, s)' = Coll(q, s)
      BY <2>1, <2>2, <2>3 DEF Coll
    <3> QED
      BY <1>1, <2>1, <2>2, <2>3, <3>1, OtherOut
  <2> QED
    BY <1>1, <2>1, <2>3 DEF OutInv
<1>5. ASSUME UNCHANGED <<script, todo, pipe, out, lost>> PROVE OutInv'
  BY <1>5 DEF OutInv, Gathered, Coll
<1>6. ASSUME NEW r \in Run, NEW s \in Pipe,
             Start(r) \/ WriteAnswer(r) \/ Exit(r) \/ Fail(r) \/ Cancel(r) \/ Kill(r) \/ Return(r)
               \/ OnLine(r, s) \/ StopReading(r, s)
      PROVE  OutInv'
  BY <1>5, <1>6 DEF Start, WriteAnswer, Exit, Fail, Cancel, Kill, Return, OnLine, StopReading, Quiet
<1>7. CASE NeighbourKeeps \/ UNCHANGED vars
  BY <1>5, <1>7 DEF NeighbourKeeps, vars
<1>8. "stdout" \in Pipe
  BY DEF Pipe
<1> QED
  BY <1>2, <1>3, <1>4, <1>6, <1>7, <1>8 DEF Next, Cli, Runner, Reader

LEMMA AnswerKept == CallInv /\ Gone /\ OutInv /\ AnswerInv /\ [Next]_vars => AnswerInv'
<1> SUFFICES ASSUME CallInv, Gone, OutInv, AnswerInv, [Next]_vars, NEW q \in Run PROVE Judged(q)'
  BY DEF AnswerInv
<1> USE DEF readVars, usageVars, callVars, procVars
<1>1. Judged(q) /\ Shape /\ DOMAIN out = Run
  BY DEF AnswerInv, CallInv, OutInv
<1>2. ASSUME UNCHANGED <<phase, result, script, ctx>>, phase[q] = "returned" => proc'[q] = proc[q],
             phase[q] = "returned" => file'[q] = file[q] /\ out'[q] = out[q]
      PROVE  Judged(q)'
  BY <1>1, <1>2 DEF Judged
<1>3. ASSUME NEW r \in Run, NEW s \in Pipe, Reader(r, s) \/ PrintLine(r, s) PROVE Judged(q)'
  <2>1. UNCHANGED <<phase, result, script, ctx, proc, file>>
    BY <1>3 DEF Reader, ReadLine, OnLine, StopReading, PrintLine
  <2>2. phase[q] = "returned" => out'[q] = out[q]
    BY <1>1, <1>3 DEF Reader, ReadLine, OnLine, StopReading, PrintLine, CallInv, Over
  <2> QED
    BY <1>2, <2>1, <2>2
<1>4. ASSUME NEW r \in Run, WriteAnswer(r) \/ Exit(r) \/ Fail(r) \/ Kill(r) PROVE Judged(q)'
  <2>1. /\ proc[r] = "alive" /\ UNCHANGED <<phase, result, script, ctx, out>>
        /\ \A x \in Run : x # r => proc'[x] = proc[x] /\ file'[x] = file[x]
    BY <1>1, <1>4 DEF WriteAnswer, Exit, Fail, Kill, Quiet, Shape
  <2>2. phase[q] = "returned" => q # r
    BY <2>1 DEF Gone
  <2> QED
    BY <1>2, <2>1, <2>2
<1>5. ASSUME NEW r \in Run, Start(r) PROVE Judged(q)'
  <2>1. CASE q = r
    BY <1>1, <1>5, <2>1 DEF Start, Shape, Results, Judged
  <2>2. CASE q # r
    BY <1>1, <1>5, <2>2 DEF Start, Judged, Shape
  <2> QED
    BY <2>1, <2>2
<1>6. ASSUME NEW r \in Run, Cancel(r) PROVE Judged(q)'
  BY <1>1, <1>6 DEF Cancel, Judged
<1>7. ASSUME NEW r \in Run, Wait(r) PROVE Judged(q)'
  BY <1>1, <1>7 DEF Wait, Judged, Shape
<1>8. ASSUME NEW r \in Run, Return(r) PROVE Judged(q)'
  <2>1. CASE q = r
    <3> DEFINE from == IF script[r].engine = "codex" /\ file[r] \in {"stale", "own"}
                       THEN file[r] ELSE "lines"
    <3>1. /\ result'[q].err = (Failed(q) \/ Leaked(q)) /\ result'[q].from = from
          /\ UNCHANGED <<script, ctx, proc, out>>
      BY <1>1, <1>8, <2>1 DEF Return, Shape
    <3>2. script[q].engine = "codex" => file'[q] = file[q]
      BY <1>8, <2>1 DEF Return
    <3> QED
      BY <2>1, <3>1, <3>2 DEF Judged, Failed, Leaked
  <2>2. CASE q # r
    BY <1>1, <1>8, <2>2 DEF Return, Judged, Shape
  <2> QED
    BY <2>1, <2>2
<1>9. CASE NeighbourKeeps \/ UNCHANGED vars
  BY <1>2, <1>9 DEF NeighbourKeeps, vars
<1> QED
  BY <1>3, <1>4, <1>5, <1>6, <1>7, <1>8, <1>9 DEF Next, Cli, Runner

LEMMA OutCorrect == Spec => []OutInv
<1>1. UsageInv => Types
  BY DEF UsageInv
<1> QED
  BY <1>1, InitOut, OutKept, LinesCorrect, UsageCorrect, PTL DEF Spec

LEMMA AnswerCorrect == Spec => []AnswerInv
<1>1. Init => AnswerInv
  BY DEF Init, AnswerInv, Judged
<1>2. LinesInv => Gone
  BY DEF LinesInv
<1> QED
  BY <1>1, <1>2, AnswerKept, CallCorrect, LinesCorrect, OutCorrect, PTL DEF Spec

\* An answer without error is that of a CLI that ended well and uncancelled: its
\* last message if it wrote one, whatever the readers lost, and an answer made of
\* lines, none of which was lost, holds all lines of both pipes and no others, each
\* pipe's in their order, however the two readers took turns (collect, runCodex,
\* runClaude, leakedProviderToolCall).
THEOREM WholeAnswer == Spec => []AnswerIsWhole
<1>1. LinesInv /\ OutInv /\ AnswerInv => AnswerIsWhole
  <2> SUFFICES ASSUME LinesInv, OutInv, AnswerInv, NEW r \in Run,
                      phase[r] = "returned", ~result[r].err
               PROVE  /\ proc[r] = "done" /\ r \notin ctx
                      /\ script[r].engine = "codex" /\ file[r] = "own" => result[r].from = "own"
                      /\ result[r].from = "lines" /\ r \notin lost =>
                           /\ \A s \in Pipe : Woven(script[r][s], s, out[r])
                           /\ Len(out[r]) = Len(script[r].stdout) + Len(script[r].stderr)
                           /\ script[r].engine = "claude" =>
                                \A s \in Pipe : \A i \in DOMAIN script[r][s] : script[r][s][i].kind # "leak"
    BY DEF AnswerIsWhole
  <2>1. Judged(r)
    BY DEF AnswerInv
  <2>2. ASSUME r \notin lost
        PROVE  /\ \A s \in Pipe : Woven(script[r][s], s, out[r])
               /\ Len(out[r]) = Len(script[r].stdout) + Len(script[r].stderr)
    <3>1. Drained(r) /\ Gathered(r) /\ Types
      BY <2>2 DEF LinesInv, OutInv
    <3>2. ASSUME NEW s \in Pipe PROVE Coll(r, s) = Len(script[r][s])
      <4>1. pipe[r][s] = <<>> /\ todo[r][s] = <<>>
        BY <2>1, <3>1 DEF Drained, Judged
      <4> DEFINE n == Len(script[r][s])
      <4>2. n \in Nat /\ Len(<<>>) = 0
        BY <3>1, ScriptType
      <4>3. Coll(r, s) = Rest(n, 0, 0)
        BY <4>1, <4>2 DEF Coll
      <4> HIDE DEF n
      <4>4. Coll(r, s) = n
        BY <4>2, <4>3 DEF Rest
      <4> QED
        BY <4>4 DEF n
    <3>3. ASSUME NEW s \in Pipe PROVE Woven(script[r][s], s, out[r])
      BY <3>1, <3>2 DEF Gathered, WovenTo, Woven
    <3>4. Len(out[r]) = Len(script[r].stdout) + Len(script[r].stderr)
      BY <3>1, <3>2 DEF Gathered, Pipe
    <3> QED
      BY <3>3, <3>4
  <2>3. ASSUME r \notin lost, script[r].engine = "claude", NEW s \in Pipe, NEW i \in DOMAIN script[r][s]
        PROVE  script[r][s][i].kind # "leak"
    <3>1. script[r][s] \in Seq(Line)
      BY ScriptType DEF LinesInv
    <3>2. i \in 1..Len(script[r][s])
      BY <3>1
    <3>3. Woven(script[r][s], s, out[r])
      BY <2>2, <2>3
    <3>4. PICK k \in DOMAIN out[r] : out[r][k] = [pipe |-> s, line |-> script[r][s][i]]
      BY <3>2, <3>3 DEF Woven
    <3>5. out[r][k].line.kind # "leak"
      BY <2>1, <2>3 DEF Judged
    <3> QED
      BY <3>4, <3>5
  <2> QED
    BY <2>1, <2>2, <2>3 DEF Judged
<1> QED
  BY <1>1, LinesCorrect, OutCorrect, AnswerCorrect, PTL

-----------------------------------------------------------------------------
(* What can be proved of the end of a call: that it never lacks a next step, *)
(* unless the CLI is left alone with a reader that gave up, and that it has  *)
(* only so many steps.                                                       *)

\* Some goroutine of the call, its CLI or the kill can take a step: the guards of
\* Kill, Wait, Return, of PrintLine, WriteAnswer and Exit, and of a reader's steps.
CanGoOn(r) ==
  \/ r \in ctx /\ proc[r] = "alive"
  \/ phase[r] = "run" /\ proc[r] # "alive"
  \/ phase[r] = "waited" /\ ReadersDone(r)
  \/ /\ proc[r] = "alive"
     /\ \/ \E s \in Pipe : todo[r][s] # <<>> /\ Len(pipe[r][s]) < PipeSize
        \/ script[r].engine = "codex" /\ file[r] \in {"none", "stale"}
        \/ \A s \in Pipe : todo[r][s] = <<>>
  \/ \E s \in Pipe : /\ <<r, s>> \in reading
                     /\ hand[r][s] # <<>> \/ pipe[r][s] # <<>> \/ proc[r] # "alive"

\* A call under way has a step to take.
NeverBlocked ==
  \A r \in Run : phase[r] \in {"run", "waited"} /\ (r \in ctx \/ Printable(r)) => CanGoOn(r)

\* Both pipes of a CLI that prints no line too long are read as long as it lives,
\* and no line of a living CLI is lost.
Listening == \A r \in Run : proc[r] = "alive" /\ Printable(r) => \A s \in Pipe : <<r, s>> \in reading
Unlost == \A r \in Run : phase[r] = "new" \/ proc[r] = "alive" => r \notin lost

AliveInv == LinesInv /\ Listening /\ Unlost

LEMMA InitAlive == Init => Listening /\ Unlost
BY DEF Init, Listening, Unlost

\* What the first line in the pipe of a CLI is, that has lost none.
LEMMA PipedLine ==
  ASSUME LinesInv, NEW r \in Run, r \notin lost, Printable(r), NEW s \in Pipe, pipe[r][s] # <<>>
  PROVE  pipe[r][s][1].kind # "long"
<1> DEFINE sc == script[r][s]
           h == hand[r][s]
           p == pipe[r][s]
           t == todo[r][s]
<1>1. /\ sc \in Seq(Line) /\ h \in Seq(Line) /\ p \in Seq(Line) /\ t \in Seq(Line)
      /\ Ordered(sc, h, p, t) /\ p # <<>> /\ \A i \in DOMAIN sc : sc[i].kind # "long"
  BY ScriptType DEF LinesInv, Types, Queues, Placed, Printable
<1> HIDE DEF sc, h, p, t
<1>2. /\ Len(sc) \in Nat /\ Len(h) \in Nat /\ Len(p) \in Nat /\ Len(t) \in Nat /\ Len(p) >= 1
      /\ DOMAIN sc = 1..Len(sc)
  BY <1>1
<1>3. p[1] = sc[Len(sc) - Len(t) - Len(p) + 1] /\ Len(h) + Len(p) + Len(t) <= Len(sc)
  BY <1>1, <1>2 DEF Ordered
<1>4. Len(sc) - Len(t) - Len(p) + 1 \in DOMAIN sc
  BY <1>2, <1>3
<1>5. p[1].kind # "long"
  BY <1>1, <1>3, <1>4
<1> QED
  BY <1>5 DEF p

LEMMA AliveKept == AliveInv /\ [Next]_vars => Listening' /\ Unlost'
<1> SUFFICES ASSUME AliveInv, [Next]_vars PROVE Listening' /\ Unlost'
  OBVIOUS
<1> USE DEF AliveInv, readVars, usageVars, callVars, procVars
<1>0. Shape /\ Gone
  BY DEF LinesInv
<1>1. ASSUME NEW r \in Run, Start(r) PROVE Listening' /\ Unlost'
  BY <1>0, <1>1 DEF Start, Listening, Unlost, Printable, Shape
<1>2. ASSUME NEW r \in Run, Exit(r) \/ Fail(r) \/ Kill(r) PROVE Listening' /\ Unlost'
  BY <1>0, <1>2 DEF Exit, Fail, Kill, Quiet, Listening, Unlost, Printable, Shape
<1>3. ASSUME NEW r \in Run, Wait(r) PROVE Listening' /\ Unlost'
  BY <1>0, <1>3 DEF Wait, Listening, Unlost, Printable, Shape
<1>4. ASSUME NEW r \in Run, Return(r) PROVE Listening' /\ Unlost'
  BY <1>0, <1>4 DEF Return, Listening, Unlost, Printable, Shape
<1>5. ASSUME NEW r \in Run, NEW s \in Pipe, StopReading(r, s) PROVE Listening' /\ Unlost'
  <2>1. proc[r] # "alive" \/ ~Printable(r)
    <3>1. proc[r] # "alive" \/ (pipe[r][s] # <<>> /\ pipe[r][s][1].kind = "long")
      BY <1>5 DEF StopReading
    <3> QED
      BY <3>1, PipedLine DEF Unlost
  <2>2. reading' = reading \ {<<r, s>>} /\ UNCHANGED <<script, phase, proc, lost>>
    BY <1>5 DEF StopReading
  <2> QED
    BY <2>1, <2>2 DEF Listening, Unlost, Printable
<1>6. ASSUME UNCHANGED <<script, phase, proc, reading, lost>> PROVE Listening' /\ Unlost'
  BY <1>6 DEF Listening, Unlost, Printable
<1>7. ASSUME NEW r \in Run, NEW s \in Pipe,
             WriteAnswer(r) \/ Cancel(r) \/ PrintLine(r, s) \/ ReadLine(r, s) \/ OnLine(r, s)
      PROVE  Listening' /\ Unlost'
  BY <1>6, <1>7 DEF WriteAnswer, Quiet, Cancel, PrintLine, ReadLine, OnLine
<1>8. CASE NeighbourKeeps \/ UNCHANGED vars
  BY <1>6, <1>8 DEF NeighbourKeeps, vars
<1>9. "stdout" \in Pipe
  BY DEF Pipe
<1> QED
  BY <1>1, <1>2, <1>3, <1>4, <1>5, <1>7, <1>8, <1>9 DEF Next, Cli, Runner, Reader

\* A call that is cancelled, or whose CLI prints no line over the scanner's limit,
\* always has a next step until it returns (runCodex, runClaude): the full pipe of
\* a living CLI has a reader, and nobody waits for a reader that cannot end.
THEOREM GoesOn == Spec => []NeverBlocked
<1>1. AliveInv => NeverBlocked
  <2> SUFFICES ASSUME AliveInv, NEW r \in Run, phase[r] \in {"run", "waited"},
                      r \in ctx \/ Printable(r)
               PROVE  CanGoOn(r)
    BY DEF NeverBlocked
  <2>1. Gone /\ Types
    BY DEF AliveInv, LinesInv
  <2>2. CASE phase[r] = "waited"
    BY <2>1, <2>2 DEF Gone, CanGoOn, ReadersDone
  <2>3. CASE phase[r] = "run" /\ (proc[r] # "alive" \/ r \in ctx)
    BY <2>3 DEF CanGoOn
  <2>4. CASE proc[r] = "alive" /\ Printable(r)
    <3>1. \A s \in Pipe : <<r, s>> \in reading
      BY <2>4 DEF AliveInv, Listening
    <3>2. CASE \A s \in Pipe : todo[r][s] = <<>>
      BY <2>4, <3>2 DEF CanGoOn
    <3>3. ASSUME NEW s \in Pipe, todo[r][s] # <<>> PROVE CanGoOn(r)
      <4>1. CASE Len(pipe[r][s]) < PipeSize
        BY <2>4, <3>3, <4>1 DEF CanGoOn
      <4>2. CASE pipe[r][s] # <<>>
        BY <3>1, <4>2 DEF CanGoOn
      <4>3. pipe[r][s] = <<>> => Len(pipe[r][s]) < PipeSize
        BY SizeAssumption
      <4> QED
        BY <4>1, <4>2, <4>3
    <3> QED
      BY <3>2, <3>3
  <2> QED
    BY <2>2, <2>3, <2>4
<1>2. AliveInv /\ [Next]_vars /\ LinesInv' => AliveInv'
  BY AliveKept DEF AliveInv
<1>3. Init => AliveInv
  BY InitAlive, InitLines DEF AliveInv
<1> QED
  BY <1>1, <1>2, <1>3, LinesCorrect, PTL DEF Spec

\* The steps a call has left at most: three for each line not printed, two for one
\* in a pipe, one for one in a reader's hand, and those that happen once.
Weight(t, p, h, b) == t + t + t + p + p + h + b
Listens(r, s) == IF <<r, s>> \in reading THEN 1 ELSE 0
Lines(r, s) == Weight(Len(todo[r][s]), Len(pipe[r][s]), Len(hand[r][s]), Listens(r, s))
Stages(p) == IF p = "new" THEN 7 ELSE IF p = "run" THEN 3 ELSE IF p = "waited" THEN 2 ELSE 1
Marks(r) ==
  Stages(phase[r]) + (IF proc[r] = "alive" THEN 1 ELSE 0) + (IF file[r] \in {"own", "empty"} THEN 0 ELSE 1)
    + (IF r \in ctx THEN 0 ELSE 1)
Left(r) == Lines(r, "stdout") + Lines(r, "stderr") + Marks(r)

\* A step of a call takes from what it has left, and no step gives to it.
StepOf(r) == Cli(r) \/ Fail(r) \/ Cancel(r) \/ Runner(r) \/ \E s \in Pipe : Reader(r, s)
StepsRunOut == [][\A r \in Run : Left(r)' <= Left(r) /\ (StepOf(r) => Left(r)' < Left(r))]_vars

LEMMA Weights ==
  ASSUME NEW t \in Nat, NEW p \in Nat, NEW h \in Nat, NEW b \in Nat
  PROVE  /\ Weight(t, p, h, b) \in Nat
         /\ t > 0 => Weight(t - 1, p + 1, h, b) < Weight(t, p, h, b)
         /\ p > 0 => Weight(t, p - 1, h + 1, b) < Weight(t, p, h, b)
         /\ h > 0 => Weight(t, p, 0, b) < Weight(t, p, h, b)
         /\ Weight(t, p, h, 0) + 1 = Weight(t, p, h, 1)
         /\ Weight(t, 0, h, b) <= Weight(t, p, h, b)
<1>1. Weight(t, p, h, b) \in Nat
  BY DEF Weight
<1>2. t > 0 => Weight(t - 1, p + 1, h, b) < Weight(t, p, h, b)
  BY DEF Weight
<1>3. p > 0 => Weight(t, p - 1, h + 1, b) < Weight(t, p, h, b)
  BY DEF Weight
<1>4. h > 0 => Weight(t, p, 0, b) < Weight(t, p, h, b)
  BY DEF Weight
<1>5. Weight(t, p, h, 0) + 1 = Weight(t, p, h, 1)
  BY DEF Weight
<1>6. Weight(t, 0, h, b) <= Weight(t, p, h, b)
  BY DEF Weight
<1> QED
  BY <1>1, <1>2, <1>3, <1>4, <1>5, <1>6

LEMMA LeftType ==
  ASSUME Types, NEW r \in Run
  PROVE  Marks(r) \in Nat /\ Left(r) \in Nat /\ \A s \in Pipe : Lines(r, s) \in Nat
<1>1. ASSUME NEW s \in Pipe PROVE Lines(r, s) \in Nat
  <2>1. todo[r][s] \in Seq(Line) /\ pipe[r][s] \in Seq(Line) /\ hand[r][s] \in Seq(Line)
    BY DEF Types, Queues
  <2>2. Len(todo[r][s]) \in Nat /\ Len(pipe[r][s]) \in Nat /\ Len(hand[r][s]) \in Nat
    BY <2>1
  <2>3. Listens(r, s) \in Nat
    BY DEF Listens
  <2> QED
    BY <2>2, <2>3, Weights DEF Lines
<1>2. Marks(r) \in Nat
  BY DEF Marks, Stages
<1> QED
  BY <1>1, <1>2 DEF Left, Pipe

LEMMA LeftTypeNext ==
  ASSUME Types', NEW r \in Run
  PROVE  Marks(r)' \in Nat /\ Left(r)' \in Nat /\ \A s \in Pipe : Lines(r, s)' \in Nat
<1>1. ASSUME NEW s \in Pipe PROVE Lines(r, s)' \in Nat
  <2>1. todo'[r][s] \in Seq(Line) /\ pipe'[r][s] \in Seq(Line) /\ hand'[r][s] \in Seq(Line)
    BY DEF Types, Queues
  <2>2. Len(todo'[r][s]) \in Nat /\ Len(pipe'[r][s]) \in Nat /\ Len(hand'[r][s]) \in Nat
    BY <2>1
  <2>3. Listens(r, s)' \in Nat
    BY DEF Listens
  <2> QED
    BY <2>2, <2>3, Weights DEF Lines
<1>2. Marks(r)' \in Nat
  BY DEF Marks, Stages
<1> QED
  BY <1>1, <1>2 DEF Left, Pipe

\* Steps of one pipe of a call, by the lines they move.
LEMMA LineSteps ==
  ASSUME Types, Types', NEW r \in Run, NEW s \in Pipe,
         PrintLine(r, s) \/ ReadLine(r, s) \/ OnLine(r, s) \/ StopReading(r, s)
  PROVE  /\ Left(r)' < Left(r)
         /\ \A q \in Run : q # r => Left(q)' = Left(q)
<1> USE DEF readVars, usageVars, callVars, procVars
<1> DEFINE h == hand[r][s]
           p == pipe[r][s]
           t == todo[r][s]
           b == Listens(r, s)
<1>0. b \in Nat
  BY DEF Listens
<1>1. /\ h \in Seq(Line) /\ p \in Seq(Line) /\ t \in Seq(Line)
      /\ todo \in Queues /\ pipe \in Queues /\ hand \in Queues
  BY DEF Types, Queues
<1>2. UNCHANGED <<phase, proc, file, ctx>>
  BY DEF PrintLine, ReadLine, OnLine, StopReading
<1>3. \A q \in Run : Marks(q)' = Marks(q)
  BY <1>2 DEF Marks
<1> DEFINE Elsewhere == \A q \in Run, x \in Pipe : q # r \/ x # s =>
             Lines(q, x)' = Lines(q, x)
<1>4. Lines(r, s)' < Lines(r, s) /\ Elsewhere
  <2>1. CASE PrintLine(r, s)
    <3>1. /\ Put(todo, todo', r, s, Tail(t)) /\ Put(pipe, pipe', r, s, Append(p, t[1]))
          /\ t # <<>> /\ UNCHANGED <<hand, reading>>
      BY <2>1 DEF PrintLine, Put
    <3> HIDE DEF h, p, t, b
    <3>2. /\ Tail(t) \in Seq(Line) /\ Append(p, t[1]) \in Seq(Line) /\ Len(t) \in Nat /\ Len(p) \in Nat
          /\ Len(Tail(t)) = Len(t) - 1 /\ Len(Append(p, t[1])) = Len(p) + 1
      BY <1>1, <3>1
    <3>3. Only(todo, todo', r, s, Tail(t)) /\ Only(pipe, pipe', r, s, Append(p, t[1]))
      BY <1>1, <3>1, <3>2, PutQueue
    <3>4. Elsewhere
      BY <3>1, <3>3 DEF Only, Lines, Listens
    <3>5. Len(todo'[r][s]) = Len(t) - 1 /\ Len(pipe'[r][s]) = Len(p) + 1
      BY <3>2, <3>3 DEF Only
    <3>6. Len(h) \in Nat
      BY <1>1
    <3>7. Lines(r, s) = Weight(Len(t), Len(p), Len(h), b)
      BY DEF Lines, h, p, t, b
    <3>8. Lines(r, s)' = Weight(Len(t) - 1, Len(p) + 1, Len(h), b)
      BY <3>1, <3>2, <3>5 DEF Lines, Listens, h, p, t, b
    <3>9. Len(t) > 0
      BY <1>1, <3>1, <3>2
    <3>10. Lines(r, s)' < Lines(r, s)
      BY <1>0, <3>2, <3>6, <3>7, <3>8, <3>9, Weights
    <3> QED
      BY <3>4, <3>10
  <2>2. CASE ReadLine(r, s)
    <3>1. /\ Put(pipe, pipe', r, s, Tail(p)) /\ Put(hand, hand', r, s, <<p[1]>>)
          /\ h = <<>> /\ p # <<>> /\ UNCHANGED <<todo, reading>>
      BY <2>2 DEF ReadLine, Put
    <3> HIDE DEF h, p, t, b
    <3>2. /\ Tail(p) \in Seq(Line) /\ <<p[1]>> \in Seq(Line) /\ Len(t) \in Nat /\ Len(p) \in Nat
          /\ Len(Tail(p)) = Len(p) - 1 /\ Len(<<p[1]>>) = 1
      BY <1>1, <3>1
    <3>3. Only(pipe, pipe', r, s, Tail(p)) /\ Only(hand, hand', r, s, <<p[1]>>)
      BY <1>1, <3>1, <3>2, PutQueue
    <3>4. Elsewhere
      BY <3>1, <3>3 DEF Only, Lines, Listens
    <3>5. Len(pipe'[r][s]) = Len(p) - 1 /\ Len(hand'[r][s]) = 1
      BY <3>2, <3>3 DEF Only
    <3>6. Len(h) = 0
      BY <3>1
    <3>7. Lines(r, s) = Weight(Len(t), Len(p), Len(h), b)
      BY DEF Lines, h, p, t, b
    <3>8. Lines(r, s)' = Weight(Len(t), Len(p) - 1, Len(h) + 1, b)
      BY <3>1, <3>2, <3>5, <3>6 DEF Lines, Listens, h, p, t, b
    <3>9. Len(p) > 0
      BY <1>1, <3>1, <3>2
    <3>10. Lines(r, s)' < Lines(r, s)
      BY <1>0, <3>2, <3>6, <3>7, <3>8, <3>9, Weights
    <3> QED
      BY <3>4, <3>10
  <2>3. CASE OnLine(r, s)
    <3>1. Put(hand, hand', r, s, <<>>) /\ h # <<>> /\ UNCHANGED <<todo, pipe, reading>>
      BY <2>3 DEF OnLine, Put
    <3> HIDE DEF h, p, t, b
    <3>2. <<>> \in Seq(Line) /\ Len(<<>>) = 0
      OBVIOUS
    <3>3. Only(hand, hand', r, s, <<>>)
      BY <1>1, <3>1, <3>2, PutQueue
    <3>4. Elsewhere
      BY <3>1, <3>3 DEF Only, Lines, Listens
    <3>5. Len(h) \in Nat /\ Len(h) >= 1 /\ Len(p) \in Nat /\ Len(t) \in Nat
      BY <1>1, <3>1
    <3>6. Len(hand'[r][s]) = 0
      BY <3>2, <3>3 DEF Only
    <3>7. Lines(r, s) = Weight(Len(t), Len(p), Len(h), b)
      BY DEF Lines, h, p, t, b
    <3>8. Lines(r, s)' = Weight(Len(t), Len(p), 0, b)
      BY <3>1, <3>6 DEF Lines, Listens, h, p, t, b
    <3>10. Lines(r, s)' < Lines(r, s)
      BY <1>0, <3>5, <3>7, <3>8, Weights
    <3> QED
      BY <3>4, <3>10
  <2>4. CASE StopReading(r, s)
    <3>1. <<r, s>> \in reading /\ reading' = reading \ {<<r, s>>} /\ UNCHANGED <<todo, pipe, hand>>
      BY <2>4 DEF StopReading
    <3>2. Elsewhere
      BY <3>1 DEF Lines, Listens
    <3>3. Len(h) \in Nat /\ Len(p) \in Nat /\ Len(t) \in Nat
      BY <1>1
    <3>4. Listens(r, s) = 1 /\ Listens(r, s)' = 0
      BY <3>1 DEF Listens
    <3>5. Lines(r, s) = Weight(Len(t), Len(p), Len(h), 1)
      BY <3>4 DEF Lines
    <3>6. Lines(r, s)' = Weight(Len(t), Len(p), Len(h), 0)
      BY <3>1, <3>4 DEF Lines
    <3>7. Weight(Len(t), Len(p), Len(h), 0) \in Nat
          /\ Weight(Len(t), Len(p), Len(h), 0) + 1 = Weight(Len(t), Len(p), Len(h), 1)
      BY <3>3, Weights
    <3>8. Lines(r, s)' < Lines(r, s)
      BY <3>5, <3>6, <3>7
    <3> QED
      BY <3>2, <3>8
  <2> QED
    BY <2>1, <2>2, <2>3, <2>4
<1>5. \A q \in Run : Marks(q) \in Nat /\ \A x \in Pipe : Lines(q, x) \in Nat
  BY LeftType
<1>8. \A q \in Run, x \in Pipe : Lines(q, x)' \in Nat
  BY LeftTypeNext
<1> HIDE DEF h, p, t
<1>6. \A q \in Run : q # r => Left(q)' = Left(q)
  BY <1>3, <1>4 DEF Left, Pipe
<1>7. Left(r)' < Left(r)
  <2>1. CASE s = "stdout"
    <3>1. Lines(r, "stdout")' < Lines(r, "stdout") /\ Lines(r, "stderr")' = Lines(r, "stderr")
      BY <1>4, <2>1 DEF Pipe
    <3> QED
      BY <1>3, <1>5, <1>8, <3>1 DEF Left, Pipe
  <2>2. CASE s = "stderr"
    <3>1. Lines(r, "stderr")' < Lines(r, "stderr") /\ Lines(r, "stdout")' = Lines(r, "stdout")
      BY <1>4, <2>2 DEF Pipe
    <3> QED
      BY <1>3, <1>5, <1>8, <3>1 DEF Left, Pipe
  <2> QED
    BY <2>1, <2>2 DEF Pipe
<1> QED
  BY <1>6, <1>7

\* Steps that happen once in a call move no line, but that Wait drops what is in
\* the pipes.
LEMMA OnceSteps ==
  ASSUME Shape, Types, Types', NEW r \in Run,
         WriteAnswer(r) \/ Exit(r) \/ Fail(r) \/ Kill(r) \/ Cancel(r) \/ Wait(r) \/ Return(r)
  PROVE  /\ Left(r)' < Left(r)
         /\ \A q \in Run : q # r => Left(q)' = Left(q)
<1> USE DEF readVars, usageVars, callVars, procVars
<1>1. /\ phase \in [Run -> Phases] /\ proc \in [Run -> Procs]
      /\ file \in [Run -> {"none", "stale", "own", "empty"}] /\ pipe \in Queues
  BY DEF Shape, Types
<1>2. Marks(r)' < Marks(r) /\ \A q \in Run : q # r => Marks(q)' = Marks(q)
  <2>1. CASE WriteAnswer(r)
    BY <1>1, <2>1 DEF WriteAnswer, Quiet, Marks, Stages
  <2>2. CASE Exit(r) \/ Fail(r) \/ Kill(r)
    BY <1>1, <2>2 DEF Exit, Fail, Kill, Quiet, Marks, Stages
  <2>3. CASE Cancel(r)
    BY <1>1, <2>3 DEF Cancel, Marks, Stages
  <2>4. CASE Wait(r)
    BY <1>1, <2>4 DEF Wait, Marks, Stages
  <2>5. CASE Return(r)
    BY <1>1, <2>5 DEF Return, Marks, Stages
  <2> QED
    BY <2>1, <2>2, <2>3, <2>4, <2>5
<1>3. /\ \A q \in Run, x \in Pipe : q # r => Lines(q, x)' = Lines(q, x)
      /\ \A x \in Pipe : Lines(r, x)' <= Lines(r, x)
  <2>1. CASE UNCHANGED <<todo, pipe, hand, reading>>
    <3>1. \A q \in Run, x \in Pipe : Lines(q, x)' = Lines(q, x)
      BY <2>1 DEF Lines, Listens
    <3>2. \A x \in Pipe : Lines(r, x) \in Nat
      BY LeftType
    <3> QED
      BY <3>1, <3>2
  <2>2. CASE Wait(r)
    <3>1. pipe' = [pipe EXCEPT ![r] = [s \in Pipe |-> <<>>]] /\ UNCHANGED <<todo, hand, reading>>
      BY <2>2 DEF Wait
    <3>2. \A q \in Run, x \in Pipe : q # r => Lines(q, x)' = Lines(q, x)
      BY <1>1, <3>1 DEF Lines, Listens, Queues
    <3>3. ASSUME NEW x \in Pipe PROVE Lines(r, x)' <= Lines(r, x)
      <4> DEFINE h == Len(hand[r][x])
                 p == Len(pipe[r][x])
                 t == Len(todo[r][x])
                 b == Listens(r, x)
      <4>1. h \in Nat /\ p \in Nat /\ t \in Nat /\ b \in Nat
        <5>1. hand[r][x] \in Seq(Line) /\ pipe[r][x] \in Seq(Line) /\ todo[r][x] \in Seq(Line)
          BY DEF Types, Queues
        <5> QED
          BY <5>1 DEF Listens
      <4>2. pipe'[r][x] = <<>>
        BY <1>1, <3>1, <3>3 DEF Queues
      <4>3. Len(pipe'[r][x]) = 0
        BY <4>2
      <4>4. Lines(r, x) = Weight(t, p, h, b) /\ Lines(r, x)' = Weight(t, 0, h, b)
        BY <3>1, <4>3 DEF Lines, Listens
      <4> HIDE DEF h, p, t, b
      <4> QED
        BY <4>1, <4>4, Weights
    <3> QED
      BY <3>2, <3>3
  <2> QED
    BY <2>1, <2>2 DEF WriteAnswer, Exit, Fail, Kill, Cancel, Return, Quiet
<1>4. \A q \in Run : Marks(q) \in Nat /\ \A x \in Pipe : Lines(q, x) \in Nat
  BY LeftType
<1>5. \A q \in Run : Marks(q)' \in Nat /\ \A x \in Pipe : Lines(q, x)' \in Nat
  BY LeftTypeNext
<1> QED
  BY <1>2, <1>3, <1>4, <1>5 DEF Left, Pipe

\* Start puts a process and two readers in the place of the stages it ends.
LEMMA StartTakes ==
  ASSUME Shape, Types, Types', Gone, NEW r \in Run, Start(r)
  PROVE  /\ Left(r)' < Left(r)
         /\ \A q \in Run : q # r => Left(q)' = Left(q)
<1> USE DEF readVars, usageVars, callVars, procVars
<1>1. phase \in [Run -> Phases] /\ proc \in [Run -> Procs]
  BY DEF Shape
<1>2. phase[r] = "new" /\ UNCHANGED <<file, ctx, todo, pipe, hand>>
  BY DEF Start
<1>3. proc[r] # "alive"
  BY <1>2 DEF Gone
<1>4. \A q \in Run : q # r => Marks(q)' = Marks(q)
  BY <1>1 DEF Start, Marks
<1>5. \A q \in Run, x \in Pipe : q # r => Lines(q, x)' = Lines(q, x)
  BY DEF Start, Lines, Listens
<1>6. Marks(r)' + 3 <= Marks(r)
  BY <1>1, <1>2, <1>3 DEF Start, Marks, Stages
<1>7. ASSUME NEW x \in Pipe PROVE Lines(r, x)' <= Lines(r, x) + 1
  <2> DEFINE h == Len(hand[r][x])
             p == Len(pipe[r][x])
             t == Len(todo[r][x])
             b == Listens(r, x)
             c == Listens(r, x)'
  <2>1. h \in Nat /\ p \in Nat /\ t \in Nat
    <3>1. hand[r][x] \in Seq(Line) /\ pipe[r][x] \in Seq(Line) /\ todo[r][x] \in Seq(Line)
      BY DEF Types, Queues
    <3> QED
      BY <3>1
  <2>2. b \in {0, 1} /\ c \in {0, 1}
    BY DEF Listens
  <2>3. Lines(r, x) = Weight(t, p, h, b)
    BY DEF Lines
  <2>4. Lines(r, x)' = Weight(t, p, h, c)
    BY <1>2 DEF Lines
  <2> HIDE DEF h, p, t, b, c
  <2> QED
    BY <2>1, <2>2, <2>3, <2>4 DEF Weight
<1>8. \A q \in Run : Marks(q) \in Nat /\ \A x \in Pipe : Lines(q, x) \in Nat
  BY LeftType
<1>9. \A q \in Run : Marks(q)' \in Nat /\ \A x \in Pipe : Lines(q, x)' \in Nat
  BY LeftTypeNext
<1> QED
  BY <1>4, <1>5, <1>6, <1>7, <1>8, <1>9 DEF Left, Pipe

\* No call goes on for ever, whatever the order of the steps (runCodex, runClaude,
\* collect): each step of a call, of its CLI and of its two readers leaves it fewer
\* to take, and the steps of other calls take and give it none.
THEOREM RunsOut == Spec => StepsRunOut
<1>1. LinesInv /\ LinesInv' /\ [Next]_vars =>
        [\A r \in Run : Left(r)' <= Left(r) /\ (StepOf(r) => Left(r)' < Left(r))]_vars
  <2> SUFFICES ASSUME LinesInv, LinesInv', Next
               PROVE  \A r \in Run : Left(r)' <= Left(r) /\ (StepOf(r) => Left(r)' < Left(r))
    OBVIOUS
  <2>1. Shape /\ Types /\ Types' /\ Gone
    BY DEF LinesInv
  <2>2. \A q \in Run : Left(q) \in Nat /\ Left(q)' \in Nat
    BY <2>1, LeftType, LeftTypeNext
  <2>3. ASSUME NEW r \in Run, StepOf(r)
        PROVE  Left(r)' < Left(r) /\ \A q \in Run : q # r => Left(q)' = Left(q)
    <3>1. CASE Start(r)
      BY <2>1, <3>1, StartTakes
    <3>2. CASE WriteAnswer(r) \/ Exit(r) \/ Fail(r) \/ Kill(r) \/ Cancel(r) \/ Wait(r) \/ Return(r)
      BY <2>1, <3>2, OnceSteps
    <3>3. ASSUME NEW s \in Pipe,
                 PrintLine(r, s) \/ ReadLine(r, s) \/ OnLine(r, s) \/ StopReading(r, s)
          PROVE  Left(r)' < Left(r) /\ \A q \in Run : q # r => Left(q)' = Left(q)
      BY <2>1, <3>3, LineSteps
    <3> QED
      BY <2>3, <3>1, <3>2, <3>3 DEF StepOf, Cli, Runner, Reader
  <2>4. CASE NeighbourKeeps
    <3>1. UNCHANGED <<phase, proc, file, ctx, todo, pipe, hand, reading>>
      BY <2>4 DEF NeighbourKeeps, readVars, usageVars, callVars, procVars
    <3>2. \A q \in Run : Left(q)' = Left(q)
      BY <3>1 DEF Left, Lines, Listens, Marks
    <3> QED
      BY <2>2, <2>3, <3>2
  <2> QED
    BY <2>2, <2>3, <2>4 DEF Next, StepOf
<1> QED
  BY <1>1, LinesCorrect, PTL DEF Spec, StepsRunOut
=============================================================================
