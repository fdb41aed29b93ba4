------------------------- MODULE EventStream_proofs -------------------------
(* Theorems about EventStream, for every value of its constants.             *)
EXTENDS EventStream, FiniteSetTheorems, SequenceTheorems, TLAPS

-----------------------------------------------------------------------------
(* Type correctness.                                                        *)

\* A publication leaves the channel within its capacity.
LEMMA PublishType ==
  ASSUME TypeOK, NEW c \in Copy, Publish(c)
  PROVE  chan' \in Seq(Copy) /\ Len(chan') <= Capacity
<1>1. CASE es \in {"subscribed", "open"} /\ Len(chan) < Capacity
  <2>1. chan' = Append(chan, c)
    BY <1>1 DEF Publish
  <2>2. chan \in Seq(Copy)
    BY DEF TypeOK
  <2>3. Append(chan, c) \in Seq(Copy) /\ Len(Append(chan, c)) = Len(chan) + 1
    BY <2>2
  <2> QED BY <1>1, <2>1, <2>2, <2>3, CapacityAssumption
<1>2. CASE ~(es \in {"subscribed", "open"} /\ Len(chan) < Capacity)
  BY <1>2 DEF Publish, TypeOK
<1> QED BY <1>1, <1>2

\* What Changed returns is a copy.
LEMMA ChangedType ==
  ASSUME TypeOK, NEW f \in BOOLEAN
  PROVE  Changed(f) \in Copy
BY DEF TypeOK, Copy, Changed

\* An update keeps the type of the task and of the channel.
LEMMA UpdateType ==
  ASSUME TypeOK, NEW f \in BOOLEAN, UpdateTask(f)
  PROVE  latest' \in Copy /\ chan' \in Seq(Copy) /\ Len(chan') <= Capacity
<1>1. latest' \in Copy
  BY ChangedType DEF UpdateTask
<1>2. CASE Publish(latest')
  BY <1>1, <1>2, PublishType
<1>3. CASE UNCHANGED chan
  BY <1>1, <1>3 DEF TypeOK
<1> QED BY <1>1, <1>2, <1>3 DEF UpdateTask

\* Every step keeps the types.
LEMMA TypeStep == TypeOK /\ [Next]_vars => TypeOK'
<1> SUFFICES ASSUME TypeOK, [Next]_vars PROVE TypeOK'
  OBVIOUS
<1> USE DEF vars, storeVars, streamVars, pollVars, postVars, pageVars
<1>1. CASE ServerUpdate
  <2>1. PICK f \in BOOLEAN : UpdateTask(f)
    BY <1>1 DEF ServerUpdate
  <2> QED BY <1>1, <2>1, UpdateType DEF ServerUpdate, TypeOK
<1>2. CASE LogUpdate
  <2>1. latest' \in Copy
    BY <1>2, ChangedType DEF LogUpdate, TypeOK, Copy
  <2> QED BY <1>2, <2>1 DEF LogUpdate, TypeOK
<1>3. CASE LogPublish
  <2>1. PICK c \in held : Publish(c) /\ held' = held \ {c}
    BY <1>3 DEF LogPublish
  <2>2. c \in Copy
    BY <2>1 DEF TypeOK
  <2> QED BY <1>3, <2>1, <2>2, PublishType DEF LogPublish, TypeOK
<1>4. CASE Subscribe
  BY <1>4 DEF Subscribe, TypeOK, Connection
<1>5. CASE Snapshot
  BY <1>5 DEF Snapshot, TypeOK, Connection
<1>6. CASE Receive
  <2>1. chan \in Seq(Copy) /\ chan # <<>> /\ wire \in Seq(Copy)
    BY <1>6 DEF Receive, TypeOK
  <2>2. /\ Head(chan) \in Copy /\ Tail(chan) \in Seq(Copy)
        /\ Len(Tail(chan)) = Len(chan) - 1
    BY <2>1
  <2>3. /\ Append(wire, Head(chan)) \in Seq(Copy)
        /\ <<Head(chan)>> \in Seq(Copy) /\ Len(<<Head(chan)>>) = 1
    BY <2>1, <2>2
  <2>4. wire' \in Seq(Copy) /\ pending' \in Seq(Copy) /\ Len(pending') <= 1
    <3>1. CASE wire' = Append(wire, Head(chan)) /\ pending' = <<>>
      BY <3>1, <2>3
    <3>2. CASE pending' = <<Head(chan)>> /\ wire' = wire
      BY <3>2, <2>1, <2>3
    <3> QED BY <1>6, <3>1, <3>2 DEF Receive
  <2>5. chan' = Tail(chan)
    BY <1>6 DEF Receive
  <2>6. Len(chan) \in Nat /\ Len(chan) <= Capacity
    BY <2>1 DEF TypeOK
  <2>7. Len(Tail(chan)) <= Capacity
    BY <2>2, <2>6, CapacityAssumption
  <2>8. chan' \in Seq(Copy) /\ Len(chan') <= Capacity
    BY ONLY <2>2, <2>5, <2>7
  <2> QED BY <1>6, <2>4, <2>8 DEF Receive, TypeOK
<1>7. CASE Refuse
  BY <1>7 DEF Refuse, TypeOK, Connection
<1>8. CASE Tick
  BY <1>8 DEF Tick, TypeOK
<1>9. CASE Disconnect
  BY <1>9, CapacityAssumption DEF Disconnect, TypeOK, Connection
<1>10. CASE Deliver
  BY <1>10 DEF Deliver, Show, TypeOK
<1>11. CASE Poll
  BY <1>11 DEF Poll, TypeOK
<1>12. CASE GetStep
  <2>1. CASE ServeGet
    BY <2>1 DEF ServeGet, TypeOK
  <2>2. CASE GetReturns
    BY <2>2 DEF GetReturns, Show, TypeOK
  <2> QED BY <1>12, <2>1, <2>2 DEF GetStep
<1>13. CASE LoseGet
  BY <1>13 DEF LoseGet, TypeOK
<1>14. CASE Post
  <2>1. shown' \in Copy
    BY <1>14 DEF Post, TypeOK, Copy
  <2>2. posting' \in Seq(Copy) /\ Len(posting') + Len(answer') <= 1
    BY <1>14 DEF Post, TypeOK
  <2> QED BY <1>14, <2>1, <2>2 DEF Post, TypeOK
<1>15. CASE ServePost
  <2>1. latest' \in Copy
    BY <1>15, ChangedType DEF ServePost, TypeOK, Copy
  <2>2. chan' \in Seq(Copy) /\ Len(chan') <= Capacity
    <3>1. CASE Publish(latest')
      BY <2>1, <3>1, PublishType
    <3>2. CASE UNCHANGED chan
      BY <3>2 DEF TypeOK
    <3> QED BY <1>15, <3>1, <3>2 DEF ServePost
  <2>3. answer' \in Seq(Copy) /\ Len(answer') <= 1
    BY <1>15, <2>1 DEF ServePost, TypeOK
  <2> QED BY <1>15, <2>1, <2>2, <2>3 DEF ServePost, TypeOK
<1>16. CASE PostReturns
  BY <1>16 DEF PostReturns, TypeOK
<1>17. CASE UNCHANGED vars
  BY <1>17 DEF TypeOK
<1> QED BY <1>1, <1>2, <1>3, <1>4, <1>5, <1>6, <1>7, <1>8, <1>9, <1>10,
           <1>11, <1>12, <1>13, <1>14, <1>15, <1>16, <1>17 DEF Next, HandlerStep

\* TypeOK is an invariant of the specification.
THEOREM TypeCorrect == Spec => []TypeOK
<1>1. Init => TypeOK
  BY CapacityAssumption DEF Init, TypeOK, Copy, Connection
<1> QED BY <1>1, TypeStep, PTL DEF Spec


-----------------------------------------------------------------------------
(* The last elements of sequences.                                          *)

LEMMA AppendLast ==
  ASSUME NEW S, NEW s \in Seq(S), NEW e \in S
  PROVE  Append(s, e) # <<>> /\ Append(s, e)[Len(Append(s, e))] = e
<1>1. Len(s) \in Nat /\ Len(Append(s, e)) = Len(s) + 1
  OBVIOUS
<1>2. Append(s, e)[Len(s) + 1] = e
  OBVIOUS
<1> QED BY <1>1, <1>2

LEMMA TailLast ==
  ASSUME NEW S, NEW s \in Seq(S), s # <<>>
  PROVE  /\ Len(s) \in Nat \ {0} /\ Len(Tail(s)) = Len(s) - 1
         /\ Tail(s) # <<>> => Tail(s)[Len(Tail(s))] = s[Len(s)]
         /\ Tail(s) = <<>> => Head(s) = s[Len(s)]
<1>1. Len(s) \in Nat \ {0} /\ Tail(s) \in Seq(S) /\ Len(Tail(s)) = Len(s) - 1
  OBVIOUS
<1>2. \A i \in 1 .. Len(s) - 1 : Tail(s)[i] = s[i + 1]
  BY <1>1
<1>3. ASSUME Tail(s) # <<>> PROVE Tail(s)[Len(Tail(s))] = s[Len(s)]
  <2>1. Len(Tail(s)) \in 1 .. Len(s) - 1
    BY <1>1, <1>3
  <2>2. Tail(s)[Len(Tail(s))] = s[Len(Tail(s)) + 1]
    BY <1>2, <2>1
  <2>3. Len(Tail(s)) + 1 = Len(s)
    BY <1>1
  <2> QED BY <2>2, <2>3
<1>4. ASSUME Tail(s) = <<>> PROVE Head(s) = s[Len(s)]
  <2>1. Len(Tail(s)) = 0
    BY ONLY <1>4, EmptySeq
  <2>2. Len(s) - 1 = 0 /\ Len(s) \in Nat
    BY ONLY <1>1, <2>1
  <2>3. Len(s) = 1
    BY ONLY <2>2
  <2>4. Head(s) = s[1]
    BY <1>1
  <2> QED BY <2>3, <2>4
<1> QED BY <1>1, <1>3, <1>4

LEMMA ConcatLast ==
  ASSUME NEW S, NEW s \in Seq(S), NEW t \in Seq(S), t # <<>>
  PROVE  s \o t # <<>> /\ (s \o t)[Len(s \o t)] = t[Len(t)]
<1>1. Len(s) \in Nat /\ Len(t) \in Nat \ {0} /\ Len(s \o t) = Len(s) + Len(t)
  OBVIOUS
<1>2. (s \o t)[Len(s) + Len(t)] = t[Len(t)]
  BY <1>1
<1> QED BY <1>1, <1>2

-----------------------------------------------------------------------------
(* What an open stream leaves on the page.                                  *)

\* The conditions under which the stream alone keeps the page current: no
\* publication is overtaken or lost, the channel has room for every change,
\* and nothing but the stream writes to the page.
Undisturbed ==
  /\ LateLogs = FALSE /\ DiskFaults = FALSE /\ Continues = FALSE
  /\ MaxPolls = 0
  /\ MaxVersion <= Capacity

\* Nothing but the stream has written to the page.
StreamOnly == asked = 0 /\ replies = {} /\ posting = <<>> /\ answer = <<>>

\* The copy that is not published yet is the task as it is.
HeldIsLatest == held \subseteq {latest}

\* The channel has room for what is to be published.
Room ==
  /\ latest.version <= MaxVersion
  /\ Len(chan) <= latest.version
  /\ held # {} => Len(chan) < latest.version

\* Without a subscription the channel is empty, without a loop nothing is pending.
Idle ==
  /\ es \notin {"subscribed", "open"} => chan = <<>>
  /\ es # "open" => pending = <<>>

\* Before the snapshot the channel, if it holds anything, ends with the task.
ChanCarries ==
  es = "subscribed" /\ held = {} /\ chan # <<>> => chan[Len(chan)] = latest

StreamInv ==
  TypeOK /\ StreamOnly /\ HeldIsLatest /\ Room /\ Idle /\ ChanCarries /\ StreamCarriesLatest

\* With room in the channel a publication becomes its last element.
LEMMA Published ==
  ASSUME TypeOK, NEW c \in Copy, Publish(c), Len(chan) < Capacity
  PROVE  /\ es \in {"subscribed", "open"} =>
              /\ chan' # <<>> /\ chan'[Len(chan')] = c
              /\ Len(chan') = Len(chan) + 1
         /\ es \notin {"subscribed", "open"} => chan' = chan
<1>1. chan \in Seq(Copy)
  BY DEF TypeOK
<1>2. /\ Append(chan, c) \in Seq(Copy) /\ Append(chan, c) # <<>>
      /\ Len(Append(chan, c)) = Len(chan) + 1
      /\ Append(chan, c)[Len(chan) + 1] = c
  BY <1>1
<1>3. CASE es \in {"subscribed", "open"}
  <2>1. chan' = Append(chan, c)
    BY <1>3 DEF Publish
  <2> QED BY <1>2, <1>3, <2>1
<1> QED BY <1>3 DEF Publish

\* The steps that the conditions leave.
LEMMA StreamSteps ==
  ASSUME Undisturbed, StreamOnly, [Next]_vars
  PROVE  \/ ServerUpdate \/ LogUpdate \/ LogPublish
         \/ HandlerStep \/ Refuse \/ Tick \/ Disconnect \/ Deliver
         \/ UNCHANGED vars
<1>1. ~Poll
  BY FS_EmptySet DEF Poll, Undisturbed, StreamOnly
<1>2. ~ServeGet /\ ~GetReturns /\ ~LoseGet
  BY DEF ServeGet, GetReturns, LoseGet, StreamOnly
<1>3. ~Post /\ ~ServePost /\ ~PostReturns
  BY DEF Post, ServePost, PostReturns, Undisturbed, StreamOnly
<1> QED BY <1>1, <1>2, <1>3 DEF Next, GetStep

\* Only the stream writes to the page.
LEMMA StreamOnlyStep ==
  ASSUME Undisturbed, StreamOnly, [Next]_vars
  PROVE  StreamOnly'
BY StreamSteps DEF StreamOnly, ServerUpdate, LogUpdate, LogPublish, HandlerStep, Subscribe,
     Snapshot, Receive, Refuse, Tick, Disconnect, Deliver, vars, pollVars, postVars

\* An update meets no unpublished copy and finds room in the channel.
LEMMA UpdateStep ==
  ASSUME Undisturbed, StreamInv, NEW f \in BOOLEAN, UpdateTask(f)
  PROVE  /\ held = {} /\ latest' \in Copy /\ Publish(latest')
         /\ latest'.version = latest.version + 1
         /\ latest'.version <= MaxVersion /\ Len(chan) < Capacity
<1>2. /\ latest.version \in Nat /\ MaxVersion \in Nat /\ Capacity \in Nat
      /\ Len(chan) \in Nat /\ MaxVersion <= Capacity /\ Len(chan) <= latest.version
  BY BoundAssumption, CapacityAssumption DEF StreamInv, TypeOK, Copy, Room, Undisturbed
<1>1. latest.version < MaxVersion
  BY <1>2 DEF StreamInv, StreamOnly, UpdateTask, MayChange
<1>3. held = {} /\ Publish(latest')
  BY DEF Undisturbed, UpdateTask, MayChange
<1>4. latest' = Changed(f)
  BY DEF UpdateTask
<1>5. latest' \in Copy /\ latest'.version = latest.version + 1
  BY <1>2, <1>4 DEF Changed, Copy
<1> QED BY <1>1, <1>2, <1>3, <1>5

\* Every step of an undisturbed stream keeps the invariant.
LEMMA StreamStep ==
  ASSUME Undisturbed, StreamInv, [Next]_vars
  PROVE  StreamInv'
<1> USE DEF vars, storeVars, streamVars, pageVars
<1>1. TypeOK /\ TypeOK' /\ StreamOnly'
  BY TypeStep, StreamOnlyStep DEF StreamInv
<1>2. /\ latest.version \in Nat /\ MaxVersion \in Nat /\ Capacity \in Nat
      /\ MaxVersion <= Capacity
      /\ chan \in Seq(Copy) /\ pending \in Seq(Copy) /\ wire \in Seq(Copy)
      /\ Len(pending) <= 1
  BY <1>1, BoundAssumption, CapacityAssumption DEF TypeOK, Copy, Undisturbed
<1> SUFFICES HeldIsLatest' /\ Room' /\ Idle' /\ ChanCarries' /\ StreamCarriesLatest'
  BY <1>1 DEF StreamInv
<1>3. CASE ServerUpdate
  <2>1. PICK f \in BOOLEAN : UpdateTask(f)
    BY <1>3 DEF ServerUpdate
  <2>2. /\ held = {} /\ latest' \in Copy /\ Publish(latest')
        /\ latest'.version = latest.version + 1
        /\ latest'.version <= MaxVersion /\ Len(chan) < Capacity
    BY <2>1, UpdateStep
  <2>3. /\ es \in {"subscribed", "open"} =>
             /\ chan' # <<>> /\ chan'[Len(chan')] = latest'
             /\ Len(chan') = Len(chan) + 1
        /\ es \notin {"subscribed", "open"} => chan' = chan
    BY <1>1, <2>2, Published
  <2>4. held' = {} /\ UNCHANGED <<es, pending, wire, shown>>
    BY <1>3, <2>2 DEF ServerUpdate
  <2>5. Room'
    BY <1>2, <2>2, <2>3, <2>4 DEF StreamInv, Room
  <2>6. HeldIsLatest' /\ Idle'
    BY <2>3, <2>4 DEF StreamInv, HeldIsLatest, Idle
  <2>7. ChanCarries' /\ StreamCarriesLatest'
    BY <2>3, <2>4 DEF ChanCarries, StreamCarriesLatest, StreamEnd
  <2> QED BY <2>5, <2>6, <2>7
<1>4. CASE LogUpdate
  <2>1. held = {} /\ latest.version < MaxVersion
    BY <1>2, <1>4 DEF LogUpdate, MayChange, Undisturbed, StreamInv, StreamOnly
  <2>2. latest'.version = latest.version + 1 /\ held' = {latest'}
    BY <1>2, <1>4, <2>1 DEF LogUpdate, Changed
  <2>3. UNCHANGED <<es, chan, pending>>
    BY <1>4 DEF LogUpdate
  <2>4. Room'
    <3>1. Len(chan) \in Nat /\ Len(chan) <= latest.version
      BY <1>2 DEF StreamInv, Room
    <3> QED BY <1>2, <2>1, <2>2, <2>3, <3>1 DEF Room
  <2>5. HeldIsLatest' /\ ChanCarries' /\ StreamCarriesLatest'
    BY <2>2 DEF HeldIsLatest, ChanCarries, StreamCarriesLatest
  <2>6. Idle'
    BY <2>3 DEF StreamInv, Idle
  <2> QED BY <2>4, <2>5, <2>6
<1>5. CASE LogPublish
  <2>1. PICK c \in held : Publish(c) /\ held' = held \ {c}
    BY <1>5 DEF LogPublish
  <2>2. c = latest /\ c \in Copy /\ held' = {} /\ latest' = latest
    BY <1>1, <1>5, <2>1 DEF LogPublish, StreamInv, HeldIsLatest, TypeOK
  <2>3. /\ Len(chan) \in Nat /\ Len(chan) < latest.version
        /\ latest.version <= MaxVersion
    BY <1>2, <2>1 DEF StreamInv, Room
  <2>4. Len(chan) < Capacity
    BY <1>2, <2>3
  <2>5. /\ es \in {"subscribed", "open"} =>
             /\ chan' # <<>> /\ chan'[Len(chan')] = latest'
             /\ Len(chan') = Len(chan) + 1
        /\ es \notin {"subscribed", "open"} => chan' = chan
    BY <1>1, <2>1, <2>2, <2>4, Published
  <2>6. UNCHANGED <<es, pending>>
    BY <1>5 DEF LogPublish
  <2>7. Room'
    BY <1>2, <2>2, <2>3, <2>5 DEF Room
  <2>8. HeldIsLatest' /\ Idle'
    BY <2>2, <2>5, <2>6 DEF StreamInv, HeldIsLatest, Idle
  <2>9. ChanCarries' /\ StreamCarriesLatest'
    BY <2>5, <2>6 DEF ChanCarries, StreamCarriesLatest, StreamEnd
  <2> QED BY <2>7, <2>8, <2>9
<1>6. CASE Subscribe
  <2>1. es = "connecting" /\ es' = "subscribed" /\ chan = <<>> /\ pending = <<>>
    BY <1>6 DEF Subscribe, StreamInv, Idle
  <2>2. UNCHANGED <<latest, held, chan, pending>>
    BY <1>6 DEF Subscribe
  <2> QED BY <2>1, <2>2 DEF StreamInv, HeldIsLatest, Room, Idle, ChanCarries,
                            StreamCarriesLatest
<1>7. CASE Snapshot
  <2>1. /\ es = "subscribed" /\ es' = "open" /\ pending = <<>>
        /\ wire' = Append(wire, latest)
    BY <1>7 DEF Snapshot, StreamInv, Idle
  <2>2. UNCHANGED <<latest, held, chan, pending>>
    BY <1>7 DEF Snapshot
  <2>3. wire' # <<>> /\ wire'[Len(wire')] = latest
    <3>1. latest \in Copy
      BY <1>1 DEF TypeOK
    <3> QED BY <1>2, <2>1, <3>1, AppendLast
  <2> QED BY <2>1, <2>2, <2>3 DEF StreamInv, HeldIsLatest, Room, Idle, ChanCarries,
                                 StreamCarriesLatest, StreamEnd
<1>8. CASE Receive
  <2>1. es = "open" /\ chan # <<>> /\ chan' = Tail(chan)
    BY <1>8 DEF Receive
  <2>2. UNCHANGED <<latest, held, es>>
    BY <1>8 DEF Receive
  <2>3. /\ Len(chan) \in Nat \ {0} /\ Len(chan') = Len(chan) - 1
        /\ chan' # <<>> => chan'[Len(chan')] = chan[Len(chan)]
        /\ chan' = <<>> => Head(chan) = chan[Len(chan)]
    BY <1>2, <2>1, TailLast
  <2>4. Room' /\ HeldIsLatest' /\ Idle' /\ ChanCarries'
    <3>1. Room'
      BY <1>2, <2>2, <2>3 DEF StreamInv, Room
    <3> QED BY <2>1, <2>2, <3>1 DEF StreamInv, HeldIsLatest, Idle, ChanCarries
  <2>5. held = {} => chan[Len(chan)] = latest
    BY <2>1 DEF StreamInv, StreamCarriesLatest, StreamEnd
  <2>6. CASE wire' = Append(wire, Head(chan)) /\ pending' = <<>>
    <3>1. Head(chan) \in Copy
      BY <1>2, <2>1
    <3>2. wire' # <<>> /\ wire'[Len(wire')] = Head(chan)
      BY <1>2, <2>6, <3>1, AppendLast
    <3>3. StreamCarriesLatest'
      BY <2>2, <2>3, <2>5, <2>6, <3>2 DEF StreamCarriesLatest, StreamEnd
    <3> QED BY <2>4, <3>3
  <2>7. CASE pending' = <<Head(chan)>>
    <3>1. pending' # <<>> /\ pending'[Len(pending')] = Head(chan)
      BY <2>7
    <3>2. StreamCarriesLatest'
      BY <2>2, <2>3, <2>5, <3>1 DEF StreamCarriesLatest, StreamEnd
    <3> QED BY <2>4, <3>2
  <2> QED BY <1>8, <2>6, <2>7 DEF Receive
<1>9. CASE Refuse
  <2>1. /\ es = "connecting" /\ es' = "closed"
        /\ UNCHANGED <<latest, held, chan, pending>>
    BY <1>9 DEF Refuse
  <2> QED BY <2>1 DEF StreamInv, HeldIsLatest, Room, Idle, ChanCarries, StreamCarriesLatest
<1>10. CASE Tick
  <2>1. /\ es = "open" /\ pending # <<>> /\ pending' = <<>> /\ wire' = wire \o pending
        /\ UNCHANGED <<latest, held, es, chan>>
    BY <1>10 DEF Tick
  <2>3. wire' # <<>> /\ wire'[Len(wire')] = pending[Len(pending)]
    BY <1>2, <2>1, ConcatLast
  <2> QED BY <2>1, <2>3 DEF StreamInv, HeldIsLatest, Room, Idle, ChanCarries,
                            StreamCarriesLatest, StreamEnd
<1>11. CASE Disconnect
  <2>1. /\ es' = "connecting" /\ chan' = <<>> /\ pending' = <<>>
        /\ UNCHANGED <<latest, held>>
    BY <1>11 DEF Disconnect
  <2>2. Room'
    <3>1. Len(chan) \in Nat /\ Len(chan') = 0
      BY <1>2, <2>1
    <3> QED BY <1>2, <2>1, <3>1 DEF StreamInv, Room
  <2> QED BY <2>1, <2>2 DEF StreamInv, HeldIsLatest, Idle, ChanCarries, StreamCarriesLatest
<1>12. CASE Deliver
  <2>1. /\ wire # <<>> /\ wire' = Tail(wire) /\ shown' = Head(wire)
        /\ UNCHANGED <<latest, held, es, chan, pending>>
    BY <1>12 DEF Deliver, Show
  <2>2. /\ wire' # <<>> => wire'[Len(wire')] = wire[Len(wire)]
        /\ wire' = <<>> => shown' = wire[Len(wire)]
    BY <1>2, <2>1, TailLast
  <2> QED BY <2>1, <2>2 DEF StreamInv, HeldIsLatest, Room, Idle, ChanCarries,
                            StreamCarriesLatest, StreamEnd
<1>13. CASE UNCHANGED vars
  BY <1>13 DEF StreamInv, HeldIsLatest, Room, Idle, ChanCarries, StreamCarriesLatest,
               StreamEnd
<1> QED BY <1>3, <1>4, <1>5, <1>6, <1>7, <1>8, <1>9, <1>10, <1>11, <1>12, <1>13,
           StreamSteps DEF StreamInv, HandlerStep

\* Undisturbed, an open stream always ends with the task as it is: the order of
\* subscription and snapshot and the merging of copies lose no change.
THEOREM Carries ==
  ASSUME Undisturbed
  PROVE  Spec => []StreamCarriesLatest
<1>1. Init => StreamInv
  <2> SUFFICES ASSUME Init PROVE StreamInv
    OBVIOUS
  <2>1. TypeOK
    BY CapacityAssumption DEF Init, TypeOK, Copy, Connection
  <2>2. Room
    BY BoundAssumption DEF Init, Room
  <2> QED BY <2>1, <2>2 DEF Init, StreamInv, StreamOnly, HeldIsLatest, Idle, ChanCarries,
                           StreamCarriesLatest
<1>2. StreamInv /\ [Next]_vars => StreamInv'
  BY StreamStep
<1>3. StreamInv => StreamCarriesLatest
  BY DEF StreamInv
<1> QED BY <1>1, <1>2, <1>3, PTL DEF Spec
=============================================================================
