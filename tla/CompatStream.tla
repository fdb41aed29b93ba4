---------------------------- MODULE CompatStream ----------------------------
(***************************************************************************)
(* The compatibility proxy: one request of the Codex CLI in the Responses    *)
(* form, sent on to a provider as a chat request, and the provider's chat    *)
(* stream turned back into Responses events while it arrives.               *)
(*                                                                          *)
(* A text or the arguments of a tool call come in pieces, numbered in the    *)
(* order they arrive.  A chunk with several deltas is handled one delta      *)
(* after the other, and is here several chunks; lines the proxy skips        *)
(* (comments, what is not JSON) and the token counts are left out.           *)
(***************************************************************************)
EXTENDS Integers, Sequences, SequencesExt, FiniteSets

CONSTANTS
  MaxIndex,  \* bound: tool calls have indices 0..MaxIndex
  MaxItems,  \* bound: items of a request
  MaxDeltas  \* bound: deltas of a stream

ASSUME BoundAssumption == {MaxIndex, MaxItems, MaxDeltas} \subseteq Nat

VARIABLES
  phase,   \* "new", "forward", "stream", "closed"
  req,     \* the request
  chat,    \* the messages sent to the provider
  status,  \* of the answer, 0 before it begins
  text,    \* the pieces of the message, as at most one sequence
  calls,   \* toolCalls, by index, each at most one record
  events,  \* the events written to the CLI
  deltas   \* history: what the provider sent

vars == <<phase, req, chat, status, text, calls, events, deltas>>
streamVars == <<text, calls, events, deltas>>

Index == 0..MaxIndex
None == 0

-----------------------------------------------------------------------------
(* The request.                                                             *)

Problems == {"method", "path", "provider", "token", "size", "json", "sampling"}

\* handle: the answer to a request that is not sent on.
StatusOf(problem) ==
  CASE problem = "method" -> 405
    [] problem \in {"path", "provider"} -> 404
    [] problem = "token" -> 401
    [] problem = "size" -> 413
    [] OTHER -> 400

\* The items of an input, by role; a call and its output share an id.
Items ==
  [role : {"user", "assistant", "developer", "system"}, id : {None}, empty : BOOLEAN]
  \cup [role : {"call", "output"}, id : {1, 2}, empty : {FALSE}]
  \cup [role : {"reasoning"}, id : {None}, empty : {FALSE}]

NoRequest == [problem |-> "none", instructions |-> FALSE, string |-> FALSE, items |-> <<>>]

Requests ==
  [problem : Problems, instructions : {FALSE}, string : {FALSE}, items : {<<>>}]
  \cup [problem : {"none"}, instructions : BOOLEAN, string : {TRUE}, items : {<<>>}]
  \cup [problem : {"none"}, instructions : BOOLEAN, string : {FALSE},
        items : UNION {[1..n -> Items] : n \in 0..MaxItems}]

Message(role, parts) == [role |-> role, parts |-> parts]

\* One item of the input as messages; parts are the positions in the input its
\* content is from.  An item of another type is left out.
ItemMessages(items, i) ==
  LET item == items[i]
      parts == IF item.empty THEN <<>> ELSE <<i>>
  IN CASE item.role \in {"developer", "system"} -> <<Message("system", parts)>>
       [] item.role = "reasoning" -> <<>>
       [] OTHER -> <<Message(item.role, parts)>>

IsSystem(m) == m.role = "system" /\ m.parts # <<>>

\* The elements of s at the positions of keep, in order.
At(s, keep) == FlattenSeq([i \in 1..Len(s) |-> IF i \in keep THEN <<s[i]>> ELSE <<>>])

Systems(messages) == {i \in 1..Len(messages) : IsSystem(messages[i])}
Rest(messages) == At(messages, 1..Len(messages) \ Systems(messages))

\* The contents of the system messages, joined.
SystemParts(messages) ==
  FlattenSeq([i \in 1..Len(messages) |->
                IF i \in Systems(messages) THEN messages[i].parts ELSE <<>>])

\* Mutant: the system message moves to the end of the list.
SystemLast(messages) ==
  IF Systems(messages) = {} THEN Rest(messages)
  ELSE Rest(messages) \o <<Message("system", SystemParts(messages))>>

\* normalizeChatMessages: one system message, in front.
Normalize(messages) ==
  IF Systems(messages) = {} THEN Rest(messages)
  ELSE <<Message("system", SystemParts(messages))>> \o Rest(messages)

\* responseMessages; the instructions are part 0.
ChatMessages(r) ==
  LET first == IF r.instructions THEN <<Message("system", <<0>>)>> ELSE <<>>
  IN IF r.items = <<>>
     THEN first \o (IF r.string THEN <<Message("user", <<1>>)>> ELSE <<>>)
     ELSE Normalize(first \o FlattenSeq([i \in 1..Len(r.items) |-> ItemMessages(r.items, i)]))

-----------------------------------------------------------------------------
(* Events: kind, item, output index, and the pieces of its text.            *)

\* The ids of items: those of the provider are positive, the proxy's negative.
MessageItem == -(MaxIndex + 2)
Generated(i) == -(i + 1)

Event(kind, item, index, pieces) ==
  [kind |-> kind, item |-> item, index |-> index, pieces |-> pieces]

Init ==
  /\ phase = "new" /\ req \in Requests /\ chat = <<>> /\ status = 0
  /\ text = <<>> /\ calls = [i \in Index |-> <<>>] /\ events = <<>> /\ deltas = <<>>

\* The request is refused, or sent on.
Handle ==
  /\ phase = "new"
  /\ IF req.problem = "none"
     THEN phase' = "forward" /\ chat' = ChatMessages(req) /\ UNCHANGED status
     ELSE phase' = "closed" /\ status' = StatusOf(req.problem) /\ UNCHANGED chat
  /\ UNCHANGED <<req, streamVars>>

\* forwardChatStream: 502, or the status of the provider.
ErrorStatus(answer) == IF answer = "unreachable" THEN 502 ELSE 429

ProviderFails(answer) ==
  /\ phase = "forward"
  /\ phase' = "closed" /\ status' = ErrorStatus(answer)
  /\ UNCHANGED <<req, chat, streamVars>>

\* The request is not used any more.
StreamBegins ==
  /\ phase = "forward"
  /\ phase' = "stream" /\ status' = 200
  /\ events' = <<Event("created", None, 0, <<>>)>>
  /\ req' = NoRequest /\ chat' = <<>>
  /\ UNCHANGED <<text, calls, deltas>>

-----------------------------------------------------------------------------
(* The stream.                                                              *)

Piece == Len(deltas) + 1

Content ==
  /\ phase = "stream" /\ Len(deltas) < MaxDeltas
  /\ deltas' = Append(deltas, [index |-> MaxIndex + 1, id |-> None, name |-> FALSE, args |-> TRUE])
  /\ text' = <<IF text = <<>> THEN <<Piece>> ELSE Append(text[1], Piece)>>
  /\ events' = events
       \o (IF text = <<>> THEN <<Event("added", MessageItem, 0, <<>>)>> ELSE <<>>)
       \o <<Event("delta", MessageItem, 0, <<Piece>>)>>
  /\ UNCHANGED <<phase, req, chat, status, calls>>

NewCall(d) ==
  [id |-> d.id, item |-> IF d.id # None THEN d.id ELSE Generated(d.index),
   named |-> FALSE, started |-> FALSE, pieces |-> <<>>]

\* Mutant: arguments that come before the name are lost.
MergeNamed(call, d) ==
  LET named == call.named \/ d.name
  IN [id |-> IF d.id # None THEN d.id ELSE call.id,
      item |-> IF d.id # None THEN d.id ELSE call.item,
      named |-> named, started |-> named,
      pieces |-> IF d.args /\ named THEN Append(call.pieces, Piece) ELSE call.pieces]

\* A fragment adds to the call of its index what it has.
Merge(call, d) ==
  LET named == call.named \/ d.name
  IN [id |-> IF d.id # None THEN d.id ELSE call.id,
      item |-> IF d.id # None THEN d.id ELSE call.item,
      named |-> named, started |-> named,
      pieces |-> IF d.args THEN Append(call.pieces, Piece) ELSE call.pieces]

\* An item is announced once its name is known, the arguments as they come.
Fragment(d) ==
  /\ phase = "stream" /\ Len(deltas) < MaxDeltas
  /\ deltas' = Append(deltas, d)
  /\ LET old == IF calls[d.index] = <<>> THEN NewCall(d) ELSE calls[d.index][1]
         new == Merge(old, d)
     IN /\ calls' = [calls EXCEPT ![d.index] = <<new>>]
        /\ events' = events
             \o (IF new.named /\ ~old.started THEN <<Event("added", new.item, 0, <<>>)>> ELSE <<>>)
             \o (IF d.args THEN <<Event("delta", new.item, 0, <<Piece>>)>> ELSE <<>>)
  /\ UNCHANGED <<phase, req, chat, status, text>>

Known == {i \in Index : calls[i] # <<>>}

\* Mutant: the count is taken for the last index but one.
CallsButLast == At([k \in 1..(MaxIndex + 1) |-> k - 1],
                   {k \in 1..(Cardinality(Known) - 1) : k - 1 \in Known})

\* orderedToolCalls: the indices below the number of calls.
OrderedCalls == At([k \in 1..(MaxIndex + 1) |-> k - 1],
                   {k \in 1..Cardinality(Known) : k - 1 \in Known})

\* outputIndex after the message.
AfterMessage == IF text = <<>> THEN 0 ELSE 1

Closing(item, index, pieces) ==
  <<Event("done", item, index, pieces), Event("item", item, index, pieces)>>

CallEvents(call, index) ==
  (IF call.started THEN <<>> ELSE <<Event("added", call.item, index, <<>>)>>)
  \o Closing(call.item, index, call.pieces)

\* [DONE], the end of the stream, an error or a line too long: everything is
\* closed and the answer is completed, alike.
Finish ==
  /\ phase = "stream"
  /\ phase' = "closed"
  /\ events' = events
       \o (IF text = <<>> THEN <<>> ELSE Closing(MessageItem, 0, text[1]))
       \o FlattenSeq([k \in 1..Len(OrderedCalls) |->
            CallEvents(calls[OrderedCalls[k]][1], AfterMessage + k - 1)])
       \o <<Event("completed", None, 0, <<>>)>>
  /\ UNCHANGED <<req, chat, status, text, calls, deltas>>

\* The ids a provider may use for the call of an index: its own, or another.
Fragments ==
  {d \in [index : Index, id : 0..(2 * MaxIndex + 2), name : BOOLEAN, args : BOOLEAN] :
     d.id \in {None, d.index + 1, d.index + MaxIndex + 2}}

Next ==
  \/ Handle \/ StreamBegins \/ Content \/ Finish
  \/ \E answer \in {"unreachable", "error"} : ProviderFails(answer)
  \/ \E d \in Fragments : Fragment(d)

Spec == Init /\ [][Next]_vars

-----------------------------------------------------------------------------
(* Properties.                                                              *)

Ascending(pieces) == \A a, b \in DOMAIN pieces : a < b => pieces[a] < pieces[b]
Says(m) == {m.parts[k] : k \in DOMAIN m.parts}

\* What the provider is told: all that is system and says something, in one
\* message, in front; the rest in the order of the input, so that no result of a
\* tool comes before its call unless it did there; and nothing is left out.
ConversationKept ==
  phase = "forward" =>
    /\ \A i \in DOMAIN chat : IsSystem(chat[i]) => i = 1
    /\ \A i \in DOMAIN chat : Ascending(chat[i].parts)
    /\ \A i, j \in DOMAIN chat : i < j /\ ~IsSystem(chat[i]) =>
         \A a \in Says(chat[i]), b \in Says(chat[j]) : a < b
    /\ \A i \in DOMAIN req.items :
         req.items[i].role # "reasoning" /\ ~req.items[i].empty =>
           \E k \in DOMAIN chat : i \in Says(chat[k])
    /\ req.instructions => \E k \in DOMAIN chat : 0 \in Says(chat[k])

Completed == phase = "closed" /\ status = 200

\* The calls whose id the provider did not change after it was used: it came with
\* the first fragment, or never.
IsFirst(k, i) == deltas[k].index = i /\ \A m \in 1..(k - 1) : deltas[m].index # i
Steady(i) ==
  \A k, m \in DOMAIN deltas :
    IsFirst(k, i) /\ deltas[m].index = i /\ deltas[m].id # None => deltas[m].id = deltas[k].id

\* No index is left out by the provider.
Contiguous == \A i \in Known : \A j \in 0..i : j \in Known

Where(kind, item) == {k \in DOMAIN events : events[k].kind = kind /\ events[k].item = item}
Once(item) == \A kind \in {"added", "done", "item"} : \E k \in DOMAIN events : Where(kind, item) = {k}

\* A completed answer has announced and closed the message, if there is one, and
\* every tool call the provider made exactly once, under one id, if the provider
\* counted its calls without a gap and gave each its id with the first fragment or
\* never; the name may come late.
EveryCallClosed ==
  Completed =>
    /\ text # <<>> => Once(MessageItem)
    /\ Contiguous => \A i \in Known : Steady(i) => Once(calls[i][1].item)

\* The closing event of an item holds all that was streamed for its index, in
\* order, whatever came late or in between; and each output index has one.
Streamed(index) == {k \in DOMAIN deltas : deltas[k].index = index /\ deltas[k].args}
Whole(pieces, index) ==
  Ascending(pieces) /\ {pieces[k] : k \in DOMAIN pieces} = Streamed(index)

Order == (IF text = <<>> THEN <<>> ELSE <<MaxIndex + 1>>) \o OrderedCalls

DoneIsWhole ==
  Completed =>
    /\ \A k \in DOMAIN events : events[k].kind = "item" =>
         Whole(events[k].pieces, Order[events[k].index + 1])
    /\ \A n \in DOMAIN Order : \E k \in DOMAIN events :
         events[k].kind = "item" /\ events[k].index = n - 1
=============================================================================
