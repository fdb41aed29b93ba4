----------------------------- MODULE EventStream -----------------------------
(***************************************************************************)
(* How the open page of one task learns what the server knows: the store    *)
(* publishes copies of the task to the event hub, the hub puts them into    *)
(* the channel of the page's SSE handler, the handler merges them and       *)
(* writes them to the connection, and next to the stream the page polls the *)
(* task with GET requests whose replies may arrive in any order.            *)
(*                                                                          *)
(* A copy of the task is its version (one per change of the record) and     *)
(* whether its status is Finished, which is all the page decides on.        *)
(* A step is one critical section of Store.mu or EventHub.mu, one case of   *)
(* the handler's select, or one callback of the page.                       *)
(***************************************************************************)
EXTENDS Naturals, Sequences, FiniteSets

CONSTANTS
  Capacity,    \* of a subscriber's channel: 8 in the code
  MaxVersion,  \* bound: changes of the task
  MaxDrops,    \* bound: lost connections and lost replies
  MaxPolls,    \* bound: GET requests in flight; 0: no poll is due
  LateLogs,    \* may a publication of AppendGardenerLog be overtaken?
  DiskFaults,  \* may persisting the task fail?
  Crowded,     \* may the hub have no place for another subscriber?
  Continues    \* may the user continue the task, on this page or another?

ASSUME CapacityAssumption == Capacity \in Nat \ {0}
ASSUME BoundAssumption == {MaxVersion, MaxDrops, MaxPolls} \subseteq Nat
ASSUME FlagAssumption == {LateLogs, DiskFaults, Crowded, Continues} \subseteq BOOLEAN

VARIABLES
  latest,   \* the task in Store.tasks
  held,     \* copies AppendGardenerLog took and has not published yet
  es,       \* the page's EventSource and the handler that serves it
  chan,     \* the channel of the subscription
  pending,  \* handleEvents' pending, as a sequence of at most one copy
  wire,     \* events written and not yet received by the page
  shown,    \* the task as the page has it
  poller,   \* is activeRefreshPoller set?
  asked,    \* GET requests that the server has not served yet
  replies,  \* replies to GET requests under way to the page
  posting,  \* the task the page showed before its POST, not served yet
  answer,   \* what the reply, under way to the page, will make it show
  drops     \* connections and replies lost so far

storeVars == <<latest, held>>
streamVars == <<es, chan, pending, wire>>
pollVars == <<asked, replies>>
postVars == <<posting, answer>>
pageVars == <<shown, poller>>
vars == <<storeVars, streamVars, pageVars, pollVars, postVars, drops>>

Copy == [version : Nat, finished : BOOLEAN]

\* "connecting": no handler yet; "subscribed": it has its channel; "open": it
\* has sent its snapshot; "closed": it was refused, the browser gives up.
Connection == {"connecting", "subscribed", "open", "closed"}

Init ==
  /\ latest = [version |-> 0, finished |-> FALSE]
  /\ held = {}
  /\ es = "connecting"
  /\ chan = <<>> /\ pending = <<>> /\ wire = <<>>
  /\ shown = latest
  /\ poller = TRUE
  /\ asked = 0 /\ replies = {}
  /\ posting = <<>> /\ answer = <<>>
  /\ drops = 0

-----------------------------------------------------------------------------
(* The store and the hub.                                                   *)

\* Mutant: a channel without end.
PublishAlways(c) ==
  chan' = IF es \in {"subscribed", "open"} THEN Append(chan, c) ELSE chan

\* EventHub.Publish: a full channel drops the copy.
Publish(c) ==
  chan' = IF es \in {"subscribed", "open"} /\ Len(chan) < Capacity
          THEN Append(chan, c) ELSE chan

\* The next change of the task; f: it is Finished afterwards.
Changed(f) == [version |-> latest.version + 1, finished |-> f]

MayChange ==
  /\ latest.version + Len(posting) < MaxVersion
  /\ LateLogs \/ held = {}

\* UpdateTask changes, persists and publishes under Store.mu.  When the task
\* cannot be persisted it returns before it publishes.
UpdateTask(f) ==
  /\ MayChange
  /\ latest' = Changed(f)
  /\ \/ Publish(latest')
     \/ DiskFaults /\ UNCHANGED chan

\* An update by a run or a handler: only a message of the user takes a task
\* out of Finished.
ServerUpdate ==
  /\ \E f \in BOOLEAN : (latest.finished /\ ~Continues => f) /\ UpdateTask(f)
  /\ UNCHANGED <<held, es, pending, wire, pageVars, pollVars, postVars, drops>>

\* AppendGardenerLog copies the task under Store.mu ...
LogUpdate ==
  /\ MayChange
  /\ latest' = Changed(latest.finished)
  /\ held' = held \cup {latest'}
  /\ UNCHANGED <<streamVars, pageVars, pollVars, postVars, drops>>

\* ... and publishes the copy after it has written the log file.
LogPublish ==
  /\ \E c \in held : Publish(c) /\ held' = held \ {c}
  /\ UNCHANGED <<latest, es, pending, wire, pageVars, pollVars, postVars, drops>>

-----------------------------------------------------------------------------
(* The SSE handler.                                                         *)

Subscribe ==
  /\ es = "connecting"
  /\ es' = "subscribed"
  /\ UNCHANGED <<storeVars, chan, pending, wire, pageVars, pollVars, postVars, drops>>

\* 64 subscribers already: status 429, after which a browser does not retry.
Refuse ==
  /\ Crowded
  /\ es = "connecting"
  /\ es' = "closed"
  /\ UNCHANGED <<storeVars, chan, pending, wire, pageVars, pollVars, postVars, drops>>

Snapshot ==
  /\ es = "subscribed"
  /\ es' = "open"
  /\ wire' = Append(wire, latest)
  /\ UNCHANGED <<storeVars, chan, pending, pageVars, pollVars, postVars, drops>>

\* Mutant: what is pending stays pending.
ReceiveOldest ==
  /\ es = "open" /\ chan # <<>>
  /\ chan' = Tail(chan)
  /\ \/ /\ wire' = Append(wire, Head(chan))
        /\ pending' = <<>>
     \/ /\ ~Head(chan).finished
        /\ pending' = IF pending = <<>> THEN <<Head(chan)>> ELSE pending
        /\ UNCHANGED wire
  /\ UNCHANGED <<storeVars, es, pageVars, pollVars, postVars, drops>>

\* case task := <-ch: Finished is written at once, anything else when 650 ms
\* have passed since the last flush.
Receive ==
  /\ es = "open" /\ chan # <<>>
  /\ chan' = Tail(chan)
  /\ \/ /\ wire' = Append(wire, Head(chan))
        /\ pending' = <<>>
     \/ /\ ~Head(chan).finished
        /\ pending' = <<Head(chan)>>
        /\ UNCHANGED wire
  /\ UNCHANGED <<storeVars, es, pageVars, pollVars, postVars, drops>>

\* Mutant: only Finished is worth a flush.
TickFinished ==
  /\ es = "open" /\ pending # <<>> /\ Head(pending).finished
  /\ wire' = wire \o pending
  /\ pending' = <<>>
  /\ UNCHANGED <<storeVars, es, chan, pageVars, pollVars, postVars, drops>>

\* case <-flushTicker.C (and <-keepalive.C): write what is pending.
Tick ==
  /\ es = "open" /\ pending # <<>>
  /\ wire' = wire \o pending
  /\ pending' = <<>>
  /\ UNCHANGED <<storeVars, es, chan, pageVars, pollVars, postVars, drops>>

\* The connection breaks: the handler returns and unsubscribes, the browser
\* connects again by itself.
Disconnect ==
  /\ es \in {"subscribed", "open"}
  /\ drops < MaxDrops
  /\ drops' = drops + 1
  /\ es' = "connecting"
  /\ chan' = <<>> /\ pending' = <<>> /\ wire' = <<>>
  /\ UNCHANGED <<storeVars, pageVars, pollVars, postVars>>

-----------------------------------------------------------------------------
(* The page.                                                                *)

\* upsertTask, and stopActiveRefreshPoller on Finished.  Nothing compares the
\* copy with the one shown, and nothing starts the poller again.
Show(c) ==
  /\ shown' = c
  /\ poller' = (poller /\ ~c.finished)

\* Mutant: the first event of the stream stops the poller.
DeliverStops ==
  /\ wire # <<>>
  /\ wire' = Tail(wire)
  /\ shown' = Head(wire) /\ poller' = FALSE
  /\ UNCHANGED <<storeVars, es, chan, pending, pollVars, postVars, drops>>

\* The listener of "task" events.
Deliver ==
  /\ wire # <<>>
  /\ wire' = Tail(wire)
  /\ Show(Head(wire))
  /\ UNCHANGED <<storeVars, es, chan, pending, pollVars, postVars, drops>>

\* Mutant: the page polls only without a stream.
PollClosed ==
  /\ poller /\ es = "closed"
  /\ asked + Cardinality(replies) < MaxPolls
  /\ asked' = asked + 1
  /\ UNCHANGED <<storeVars, streamVars, pageVars, replies, postVars, drops>>

\* The interval timer calls loadActiveTask, earlier requests answered or not.
Poll ==
  /\ poller
  /\ asked + Cardinality(replies) < MaxPolls
  /\ asked' = asked + 1
  /\ UNCHANGED <<storeVars, streamVars, pageVars, replies, postVars, drops>>

ServeGet ==
  /\ asked > 0
  /\ asked' = asked - 1
  /\ replies' = replies \cup {latest}
  /\ UNCHANGED <<storeVars, streamVars, pageVars, postVars, drops>>

LoseGet ==
  /\ asked > 0 /\ drops < MaxDrops
  /\ asked' = asked - 1
  /\ drops' = drops + 1
  /\ UNCHANGED <<storeVars, streamVars, pageVars, replies, postVars>>

GetReturns ==
  /\ \E c \in replies : Show(c) /\ replies' = replies \ {c}
  /\ UNCHANGED <<storeVars, streamVars, asked, postVars, drops>>

\* The user writes a message or continues the task: the page shows it Running
\* before the server knows.
Post ==
  /\ Continues
  /\ posting = <<>> /\ answer = <<>>
  /\ latest.version < MaxVersion
  /\ posting' = <<shown>>
  /\ shown' = [shown EXCEPT !.finished = FALSE]
  /\ UNCHANGED <<storeVars, streamVars, poller, pollVars, answer, drops>>

\* SendMessage and ResumeTask: Running again, or as it was when the message
\* only asks for the progress.  An error makes the page show its old copy.
ServePost ==
  /\ posting # <<>>
  /\ LateLogs \/ held = {}
  /\ \E f \in {FALSE, latest.finished} : latest' = Changed(f)
  /\ \/ Publish(latest') /\ answer' = <<latest'>>
     \/ DiskFaults /\ answer' = posting /\ UNCHANGED chan
  /\ posting' = <<>>
  /\ UNCHANGED <<held, es, pending, wire, pageVars, pollVars, drops>>

\* The reply is shown; it neither stops nor starts the poller.
PostReturns ==
  /\ answer # <<>>
  /\ shown' = Head(answer)
  /\ answer' = <<>>
  /\ UNCHANGED <<storeVars, streamVars, poller, pollVars, posting, drops>>

-----------------------------------------------------------------------------
HandlerStep == Subscribe \/ Snapshot \/ Receive
GetStep == ServeGet \/ GetReturns

Next ==
  \/ ServerUpdate \/ LogUpdate \/ LogPublish
  \/ HandlerStep \/ Refuse \/ Tick \/ Disconnect
  \/ Deliver \/ Poll \/ GetStep \/ LoseGet
  \/ Post \/ ServePost \/ PostReturns

Spec == Init /\ [][Next]_vars

\* Goroutines and callbacks run, timers fire, the network delivers what it
\* does not lose.  The task need not change and the user need not write.
FairSpec ==
  /\ Spec
  /\ WF_vars(LogPublish) /\ WF_vars(HandlerStep) /\ WF_vars(Tick) /\ WF_vars(Deliver)
  /\ WF_vars(Poll) /\ WF_vars(ServeGet) /\ WF_vars(GetReturns)
  /\ WF_vars(ServePost) /\ WF_vars(PostReturns)

-----------------------------------------------------------------------------
(* Properties.                                                              *)

\* The type of every variable; the channel keeps to its capacity.
TypeOK ==
  /\ latest \in Copy /\ held \subseteq Copy
  /\ es \in Connection
  /\ chan \in Seq(Copy) /\ Len(chan) <= Capacity
  /\ pending \in Seq(Copy) /\ Len(pending) <= 1
  /\ wire \in Seq(Copy)
  /\ shown \in Copy /\ poller \in BOOLEAN
  /\ asked \in Nat /\ replies \subseteq Copy
  /\ posting \in Seq(Copy) /\ answer \in Seq(Copy) /\ Len(posting) + Len(answer) <= 1
  /\ drops \in Nat

\* The copy of the task that the stream will leave on the page when nothing
\* more happens.
StreamEnd ==
  IF chan # <<>> THEN chan[Len(chan)]
  ELSE IF pending # <<>> THEN pending[Len(pending)]
  ELSE IF wire # <<>> THEN wire[Len(wire)]
  ELSE shown

\* An open stream ends with the task as it is, wherever the handler and the
\* connection are with it: neither the moment between subscription and
\* snapshot nor the merging of copies loses the last change.
StreamCarriesLatest == es = "open" /\ held = {} => StreamEnd = latest

\* In the end the page shows the task as it is.
PageConverges == <>[](shown = latest)

\* As long as the poller is not stopped it repairs whatever the stream lost,
\* reordered or was refused.
PollerConverges == <>[]poller => <>[](shown = latest)

\* A task that ends is at some time seen to have ended, even when its last event
\* was dropped (the reply of an earlier poll may take it back).
EndIsSeen == <>[]latest.finished => <>shown.finished
=============================================================================
