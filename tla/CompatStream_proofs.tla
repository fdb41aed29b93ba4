------------------------- MODULE CompatStream_proofs -------------------------
(* Theorems about CompatStream, for any number of items, tool calls and         *)
(* deltas: what the provider is told is the conversation, and a completed       *)
(* answer has closed every item whole.                                          *)
EXTENDS CompatStream, SequenceInduction, FiniteSetTheorems, SequenceTheorems

-----------------------------------------------------------------------------
(* Elements picked from a sequence.                                         *)

\* at says where each element of At(s, keep) is from.
Picks(s, keep, at) ==
  /\ at \in [1..Len(At(s, keep)) -> keep]
  /\ \A p \in 1..Len(At(s, keep)) : At(s, keep)[p] = s[at[p]]
  /\ \A p, q \in 1..Len(At(s, keep)) : p < q => at[p] < at[q]
  /\ \A i \in keep : \E p \in 1..Len(At(s, keep)) : at[p] = i

\* At picks the elements of keep, each once, in order.
LEMMA AtPicks ==
  ASSUME NEW T, NEW s \in Seq(T), NEW keep \in SUBSET (1..Len(s))
  PROVE  At(s, keep) \in Seq(T) /\ \E at : Picks(s, keep, at)
<1> DEFINE n == Len(s)
           ss == [i \in 1..n |-> IF i \in keep THEN <<s[i]>> ELSE <<>>]
           F == FlattenSeq(ss)
<1>1. n \in Nat /\ ss \in [1..n -> Seq(T)] /\ At(s, keep) = F
  BY DEF At
<1>2. \A i \in 1..n : Len(ss[i]) = (IF i \in keep THEN 1 ELSE 0) /\ (i \in keep => ss[i][1] = s[i])
  OBVIOUS
<1> HIDE DEF ss, n, F
<1>3. F \in Seq(T) /\ \E block, place : Layout(F, n, ss, block, place)
  BY <1>1, FlattenLayout DEF F
<1>4. PICK block, place : Layout(F, n, ss, block, place)
  BY <1>3
<1> DEFINE L == Len(F)
<1>5. L \in Nat
  BY <1>3
<1>6. \A p \in 1..L : block[p] \in keep /\ place[p] = 1 /\ F[p] = s[block[p]]
  <2> TAKE p \in 1..L
  <2>1. block[p] \in 1..n /\ place[p] \in Nat \ {0} /\ place[p] <= Len(ss[block[p]])
        /\ F[p] = ss[block[p]][place[p]]
    BY <1>4 DEF Layout
  <2> QED
    BY <1>2, <2>1
<1>7. \A p, q \in 1..L : p < q => block[p] < block[q]
  BY <1>4, <1>6 DEF Layout
<1>8. \A i \in keep : \E p \in 1..L : block[p] = i
  <2> TAKE i \in keep
  <2>1. i \in 1..n /\ 1 \in 1..Len(ss[i])
    BY <1>2 DEF n
  <2> QED
    BY <1>4, <2>1 DEF Layout
<1>9. block \in [1..L -> keep]
  BY <1>4, <1>6 DEF Layout
<1>10. Picks(s, keep, block)
  BY <1>1, <1>6, <1>7, <1>8, <1>9 DEF Picks
<1> QED
  BY <1>1, <1>3, <1>10

-----------------------------------------------------------------------------
(* The request.                                                             *)

Roles == {"user", "assistant", "developer", "system", "call", "output", "reasoning"}
Messages == [role : Roles, parts : Seq(Nat)]
InputItems == [role : Roles, id : {0, 1, 2}, empty : BOOLEAN]
Received ==
  [problem : Problems \cup {"none"}, instructions : BOOLEAN, string : BOOLEAN,
   items : Seq(InputItems)]

\* Messages that say what they say in the order of the input.
InOrder(ms) ==
  /\ \A i \in 1..Len(ms) : Ascending(ms[i].parts)
  /\ \A i, j \in 1..Len(ms) : i < j => \A a \in Says(ms[i]), b \in Says(ms[j]) : a < b

SaysAll(r, ms) ==
  /\ \A i \in 1..Len(r.items) :
       r.items[i].role # "reasoning" /\ ~r.items[i].empty => \E k \in 1..Len(ms) : i \in Says(ms[k])
  /\ r.instructions => \E k \in 1..Len(ms) : 0 \in Says(ms[k])

\* The contents of the system messages stay in order when they are joined.
LEMMA SystemJoined ==
  ASSUME NEW ms \in Seq(Messages), InOrder(ms)
  PROVE  /\ SystemParts(ms) \in Seq(Nat) /\ Ascending(SystemParts(ms))
         /\ \A i \in Systems(ms) : \A a \in Says(ms[i]) :
              \E k \in DOMAIN SystemParts(ms) : SystemParts(ms)[k] = a
<1> DEFINE n == Len(ms)
           ss == [i \in 1..n |-> IF i \in Systems(ms) THEN ms[i].parts ELSE <<>>]
           F == SystemParts(ms)
<1>1. /\ n \in Nat
      /\ \A i \in 1..n : /\ ms[i].parts \in Seq(Nat)
                         /\ DOMAIN ms[i].parts = 1..Len(ms[i].parts)
  <2>1. \A i \in 1..n : ms[i] \in Messages
    OBVIOUS
  <2> QED
    BY <2>1 DEF Messages
<1>2. ss \in [1..n -> Seq(Nat)] /\ F = FlattenSeq(ss)
  BY <1>1 DEF SystemParts
<1>3. \A i \in 1..n : (i \in Systems(ms) => ss[i] = ms[i].parts) /\ (i \notin Systems(ms) => ss[i] = <<>>)
  OBVIOUS
<1> HIDE DEF ss, F, n
<1>4. F \in Seq(Nat) /\ \E block, place : Layout(F, n, ss, block, place)
  BY <1>1, <1>2, FlattenLayout
<1>5. PICK block, place : Layout(F, n, ss, block, place)
  BY <1>4
<1>6. ASSUME NEW p \in 1..Len(F)
      PROVE  /\ block[p] \in Systems(ms) /\ block[p] \in 1..n
             /\ place[p] \in 1..Len(ms[block[p]].parts) /\ F[p] = ms[block[p]].parts[place[p]]
  <2>1. block[p] \in 1..n /\ place[p] \in Nat \ {0} /\ place[p] <= Len(ss[block[p]])
        /\ F[p] = ss[block[p]][place[p]]
    BY <1>5 DEF Layout
  <2>2. block[p] \in Systems(ms)
    BY <1>3, <2>1
  <2>3. ss[block[p]] = ms[block[p]].parts /\ Len(ms[block[p]].parts) \in Nat
    BY <1>1, <1>3, <2>1, <2>2
  <2> HIDE DEF Systems
  <2> QED
    BY <2>1, <2>2, <2>3
<1>7. ASSUME NEW p \in 1..Len(F) PROVE F[p] \in Says(ms[block[p]])
  <2>1. place[p] \in DOMAIN ms[block[p]].parts
    BY <1>1, <1>6
  <2> QED
    BY <1>6, <2>1 DEF Says
<1>8. Ascending(F)
  <2> SUFFICES ASSUME NEW p \in 1..Len(F), NEW q \in 1..Len(F), p < q
               PROVE  F[p] < F[q]
    BY <1>4 DEF Ascending
  <2>1. block[p] < block[q] \/ (block[p] = block[q] /\ place[p] < place[q])
    BY <1>5 DEF Layout
  <2>2. CASE block[p] < block[q]
    <3>1. F[p] \in Says(ms[block[p]]) /\ F[q] \in Says(ms[block[q]])
      BY <1>7
    <3> QED
      BY <1>6, <2>2, <3>1 DEF InOrder, n
  <2>3. CASE block[p] = block[q] /\ place[p] < place[q]
    <3>1. Ascending(ms[block[p]].parts)
      BY <1>6 DEF InOrder, n
    <3>2. \A a, b \in 1..Len(ms[block[p]].parts) :
            a < b => ms[block[p]].parts[a] < ms[block[p]].parts[b]
      BY <1>1, <1>6, <3>1 DEF Ascending
    <3>3. /\ place[p] \in 1..Len(ms[block[p]].parts) /\ F[p] = ms[block[p]].parts[place[p]]
          /\ place[q] \in 1..Len(ms[block[p]].parts) /\ F[q] = ms[block[p]].parts[place[q]]
      BY <1>6, <2>3
    <3> QED
      BY <2>3, <3>2, <3>3
  <2> QED
    BY <2>1, <2>2, <2>3
<1>9. ASSUME NEW i \in Systems(ms), NEW a \in Says(ms[i])
      PROVE  \E k \in DOMAIN F : F[k] = a
  <2>1. i \in 1..n
    BY DEF Systems, n
  <2>2. PICK l \in 1..Len(ms[i].parts) : ms[i].parts[l] = a
    BY <1>1, <2>1 DEF Says
  <2>3. PICK p \in 1..Len(F) : block[p] = i /\ place[p] = l
    BY <1>3, <1>5, <2>1 DEF Layout
  <2>4. F[p] = a /\ p \in DOMAIN F
    BY <1>4, <1>6, <2>2, <2>3
  <2> QED
    BY <2>4
<1> QED
  BY <1>4, <1>8, <1>9 DEF F

\* What normalizeChatMessages makes of messages in order.
LEMMA NormalizeKeeps ==
  ASSUME NEW ms \in Seq(Messages), InOrder(ms)
  PROVE  LET c == Normalize(ms) IN
         /\ c \in Seq(Messages)
         /\ \A i \in 1..Len(c) : IsSystem(c[i]) => i = 1
         /\ \A i \in 1..Len(c) : Ascending(c[i].parts)
         /\ \A i, j \in 1..Len(c) : i < j /\ ~IsSystem(c[i]) =>
              \A a \in Says(c[i]), b \in Says(c[j]) : a < b
         /\ \A i \in 1..Len(ms) : \A a \in Says(ms[i]) : \E k \in 1..Len(c) : a \in Says(c[k])
<1> DEFINE keep == 1..Len(ms) \ Systems(ms)
           R == Rest(ms)
           P == SystemParts(ms)
           m == Message("system", P)
<1>1. R \in Seq(Messages) /\ \E at : Picks(ms, keep, at)
  BY AtPicks DEF Rest
<1>2. PICK at : Picks(ms, keep, at)
  BY <1>1
<1>3. /\ Len(R) \in Nat
      /\ \A p \in 1..Len(R) : at[p] \in keep /\ R[p] = ms[at[p]]
      /\ \A p, q \in 1..Len(R) : p < q => at[p] < at[q]
      /\ \A i \in keep : \E p \in 1..Len(R) : at[p] = i
  <2>1. R = At(ms, keep)
    BY DEF Rest
  <2> HIDE DEF R, keep
  <2>2. \A p \in 1..Len(R) : at[p] \in keep /\ R[p] = ms[at[p]]
    BY <1>2, <2>1 DEF Picks
  <2>3. Len(R) \in Nat
    BY <1>1
  <2> QED
    BY <1>2, <2>1, <2>2, <2>3 DEF Picks
<1>4. \A p \in 1..Len(R) : ~IsSystem(R[p]) /\ Ascending(R[p].parts)
  BY <1>3 DEF Systems, InOrder
<1>5. \A p, q \in 1..Len(R) : p < q => \A a \in Says(R[p]), b \in Says(R[q]) : a < b
  <2> SUFFICES ASSUME NEW p \in 1..Len(R), NEW q \in 1..Len(R), p < q
               PROVE  \A a \in Says(R[p]), b \in Says(R[q]) : a < b
    OBVIOUS
  <2>1. at[p] \in 1..Len(ms) /\ at[q] \in 1..Len(ms) /\ at[p] < at[q]
    BY <1>3
  <2>2. R[p] = ms[at[p]] /\ R[q] = ms[at[q]]
    BY <1>3
  <2> QED
    BY <2>1, <2>2 DEF InOrder
<1>6. \A i \in keep : \A a \in Says(ms[i]) : \E k \in 1..Len(R) : a \in Says(R[k])
  BY <1>3
<1> HIDE DEF R, P
<1>7. CASE Systems(ms) = {}
  <2>1. Normalize(ms) = R /\ keep = 1..Len(ms)
    BY <1>7 DEF Normalize, R
  <2> QED
    BY <1>1, <1>4, <1>5, <1>6, <2>1
<1>8. CASE Systems(ms) # {}
  <2> DEFINE c == <<m>> \o R
  <2>1. Normalize(ms) = c
    BY <1>8 DEF Normalize, R, P
  <2>2. /\ P \in Seq(Nat) /\ Ascending(P)
        /\ \A i \in Systems(ms) : \A a \in Says(ms[i]) : \E k \in DOMAIN P : P[k] = a
    BY SystemJoined DEF P
  <2>3. m \in Messages /\ m.parts = P /\ m.role = "system"
    BY <2>2 DEF Messages, Message, Roles
  <2>4. P # <<>>
    <3>1. PICK i \in Systems(ms) : TRUE
      BY <1>8
    <3>2. i \in 1..Len(ms) /\ ms[i].parts # <<>>
      BY DEF Systems, IsSystem
    <3>3. ms[i] \in Messages
      BY <3>2
    <3>4. ms[i].parts \in Seq(Nat)
      BY <3>3 DEF Messages
    <3>5. 1 \in DOMAIN ms[i].parts
      BY <3>2, <3>4
    <3>6. ms[i].parts[1] \in Says(ms[i])
      BY <3>5 DEF Says
    <3>7. PICK k \in DOMAIN P : P[k] = ms[i].parts[1]
      BY <2>2, <3>6
    <3> QED
      BY <3>7
  <2>5. IsSystem(m)
    BY <2>3, <2>4 DEF IsSystem
  <2> HIDE DEF m
  <2>6. /\ c \in Seq(Messages) /\ Len(c) = Len(R) + 1 /\ c[1] = m
        /\ \A p \in 2..Len(c) : p - 1 \in 1..Len(R) /\ c[p] = R[p - 1]
        /\ \A p \in 1..Len(R) : p + 1 \in 2..Len(c) /\ c[p + 1] = R[p]
    BY <1>1, <1>3, <2>3
  <2> HIDE DEF c
  <2>7. \A i \in 1..Len(c) : i # 1 => i \in 2..Len(c)
    BY <1>3, <2>6
  <2>8. \A i \in 1..Len(c) : IsSystem(c[i]) => i = 1
    BY <1>4, <2>6, <2>7
  <2>9. \A i \in 1..Len(c) : Ascending(c[i].parts)
    BY <1>4, <2>2, <2>3, <2>6, <2>7
  <2>10. \A i, j \in 1..Len(c) : i < j /\ ~IsSystem(c[i]) =>
           \A a \in Says(c[i]), b \in Says(c[j]) : a < b
    <3> SUFFICES ASSUME NEW i \in 1..Len(c), NEW j \in 1..Len(c), i < j, ~IsSystem(c[i])
                 PROVE  \A a \in Says(c[i]), b \in Says(c[j]) : a < b
      OBVIOUS
    <3>1. i \in 2..Len(c) /\ j \in 2..Len(c)
      BY <2>5, <2>6, <2>7
    <3>2. i - 1 \in 1..Len(R) /\ j - 1 \in 1..Len(R) /\ i - 1 < j - 1
      BY <2>6, <3>1
    <3> QED
      BY <1>5, <2>6, <3>1, <3>2
  <2>11. ASSUME NEW i \in 1..Len(ms), NEW a \in Says(ms[i])
         PROVE  \E k \in 1..Len(c) : a \in Says(c[k])
    <3>1. CASE i \in Systems(ms)
      <4>1. a \in Says(m)
        BY <2>2, <2>3, <3>1 DEF Says
      <4> QED
        BY <1>3, <2>6, <4>1
    <3>2. CASE i \notin Systems(ms)
      <4>1. PICK k \in 1..Len(R) : a \in Says(R[k])
        BY <1>6, <3>2
      <4>2. k + 1 \in 1..Len(c) /\ a \in Says(c[k + 1])
        BY <1>3, <2>6, <4>1
      <4> QED
        BY <4>2
    <3> QED
      BY <3>1, <3>2
  <2> QED
    BY <2>1, <2>6, <2>8, <2>9, <2>10, <2>11
<1> QED
  BY <1>7, <1>8

\* The messages of the items say each item once, in order.
LEMMA ItemsInOrder ==
  ASSUME NEW items \in Seq(InputItems)
  PROVE  LET F == FlattenSeq([i \in 1..Len(items) |-> ItemMessages(items, i)]) IN
         /\ F \in Seq(Messages) /\ InOrder(F)
         /\ \A k \in 1..Len(F) : Says(F[k]) \subseteq 1..Len(items)
         /\ \A i \in 1..Len(items) : items[i].role # "reasoning" /\ ~items[i].empty =>
              \E k \in 1..Len(F) : i \in Says(F[k])
<1>0. /\ Len(items) \in Nat
      /\ \A i \in 1..Len(items) : items[i] \in InputItems
  OBVIOUS
<1> DEFINE n == Len(items)
           ss == [i \in 1..n |-> ItemMessages(items, i)]
           F == FlattenSeq(ss)
<1>1. ASSUME NEW i \in 1..n
      PROVE  /\ ItemMessages(items, i) \in Seq(Messages)
             /\ Len(ItemMessages(items, i)) <= 1
             /\ \A l \in 1..Len(ItemMessages(items, i)) :
                  LET m == ItemMessages(items, i)[l]
                  IN  Ascending(m.parts) /\ Says(m) = IF items[i].empty THEN {} ELSE {i}
             /\ items[i].role # "reasoning" => Len(ItemMessages(items, i)) = 1
  <2> DEFINE parts == IF items[i].empty THEN <<>> ELSE <<i>>
  <2>1. /\ parts \in Seq(Nat) /\ \A a, b \in DOMAIN parts : a = b
        /\ {parts[k] : k \in DOMAIN parts} = IF items[i].empty THEN {} ELSE {i}
    BY <1>0
  <2>2. items[i].role \in Roles
    <3>1. items[i] \in InputItems
      BY <1>0
    <3> QED
      BY <3>1 DEF InputItems
  <2>3. ItemMessages(items, i) =
          IF items[i].role = "reasoning" THEN <<>>
          ELSE <<Message(IF items[i].role \in {"developer", "system"} THEN "system"
                         ELSE items[i].role, parts)>>
    BY <2>2 DEF ItemMessages, Roles
  <2> HIDE DEF parts
  <2>4. ASSUME NEW role \in Roles
        PROVE  /\ Message(role, parts) \in Messages /\ Ascending(Message(role, parts).parts)
               /\ Says(Message(role, parts)) = IF items[i].empty THEN {} ELSE {i}
    <3>1. Message(role, parts) \in Messages /\ Message(role, parts).parts = parts
      BY <2>1 DEF Message, Messages
    <3>2. \A a, b \in DOMAIN parts : ~(a < b)
      BY <2>1
    <3> QED
      BY <2>1, <3>1, <3>2 DEF Ascending, Says
  <2>5. CASE items[i].role = "reasoning"
    BY <2>3, <2>5
  <2>6. CASE items[i].role # "reasoning"
    <3> DEFINE role == IF items[i].role \in {"developer", "system"} THEN "system" ELSE items[i].role
               m == Message(role, parts)
    <3>1. role \in Roles /\ ItemMessages(items, i) = <<m>>
      BY <2>2, <2>3, <2>6 DEF Roles
    <3>2. m \in Messages /\ Ascending(m.parts) /\ Says(m) = IF items[i].empty THEN {} ELSE {i}
      BY <2>4, <3>1
    <3> HIDE DEF m, role, n, ss, F
    <3>3. Len(<<m>>) = 1 /\ <<m>>[1] = m /\ <<m>> \in Seq(Messages)
          /\ \A l \in 1..Len(<<m>>) : l = 1
      BY <3>2
    <3> DEFINE B == ItemMessages(items, i)
    <3>4. B = <<m>>
      BY <3>1
    <3> HIDE DEF B
    <3>5. /\ B \in Seq(Messages) /\ Len(B) <= 1
          /\ items[i].role # "reasoning" => Len(B) = 1
      BY <3>3, <3>4
    <3>6. \A l \in 1..Len(B) : B[l] = m
      BY <3>3, <3>4
    <3> QED
      BY <3>2, <3>5, <3>6 DEF B
  <2> QED
    BY <2>5, <2>6
<1>2. ss \in [1..n -> Seq(Messages)] /\ \A i \in 1..n : ss[i] = ItemMessages(items, i)
  BY <1>1
<1>9. n \in Nat
  BY <1>0
<1> HIDE DEF n, ss, F
<1>3. F \in Seq(Messages) /\ \E block, place : Layout(F, n, ss, block, place)
  BY <1>2, <1>9, FlattenLayout DEF F
<1>4. PICK block, place : Layout(F, n, ss, block, place)
  BY <1>3
<1>5. ASSUME NEW p \in 1..Len(F)
      PROVE  /\ block[p] \in 1..n /\ place[p] = 1 /\ Ascending(F[p].parts)
             /\ Says(F[p]) \subseteq {block[p]}
             /\ ~items[block[p]].empty => Says(F[p]) = {block[p]}
  <2>1. block[p] \in 1..n /\ place[p] \in Nat \ {0} /\ place[p] <= Len(ss[block[p]])
        /\ F[p] = ss[block[p]][place[p]]
    BY <1>4 DEF Layout
  <2> DEFINE i == block[p]
             B == ItemMessages(items, i)
  <2>2. i \in 1..n /\ ss[i] = B
    BY <1>2, <2>1
  <2> HIDE DEF i
  <2>3. /\ B \in Seq(Messages) /\ Len(B) <= 1
        /\ \A l \in 1..Len(B) :
             LET m == B[l] IN Ascending(m.parts) /\ Says(m) = IF items[i].empty THEN {} ELSE {i}
    BY <1>1, <2>2
  <2> HIDE DEF B
  <2>4. Len(B) \in Nat /\ place[p] <= Len(B)
    BY <2>1, <2>2, <2>3 DEF i
  <2>5. place[p] = 1 /\ 1 \in 1..Len(B)
    BY <2>1, <2>3, <2>4
  <2>6. F[p] = B[1]
    BY <2>1, <2>2, <2>5 DEF i
  <2>7. Ascending(B[1].parts) /\ Says(B[1]) = IF items[i].empty THEN {} ELSE {i}
    BY <2>3, <2>5
  <2> QED
    BY <2>1, <2>5, <2>6, <2>7 DEF i
<1>6. \A p, q \in 1..Len(F) : p < q => block[p] < block[q]
  BY <1>4, <1>5 DEF Layout
<1>7. InOrder(F)
  <2> SUFFICES ASSUME NEW p \in 1..Len(F), NEW q \in 1..Len(F), p < q,
                      NEW a \in Says(F[p]), NEW b \in Says(F[q])
               PROVE  a < b
    BY <1>5 DEF InOrder
  <2>1. a = block[p] /\ b = block[q]
    BY <1>5
  <2> QED
    BY <1>6, <2>1
<1>8. ASSUME NEW i \in 1..n, items[i].role # "reasoning", ~items[i].empty
      PROVE  \E k \in 1..Len(F) : i \in Says(F[k])
  <2>0. ss[i] = ItemMessages(items, i) /\ Len(ItemMessages(items, i)) = 1
    BY <1>1, <1>2, <1>8
  <2>1. Len(ss[i]) = 1 /\ 1 \in 1..Len(ss[i])
    BY <2>0
  <2>2. PICK p \in 1..Len(F) : block[p] = i
    BY <1>4, <2>1 DEF Layout
  <2> QED
    BY <1>5, <1>8, <2>2
<1> QED
  BY <1>3, <1>5, <1>7, <1>8 DEF F, ss, n

Kept(r, c) ==
  /\ \A i \in 1..Len(c) : IsSystem(c[i]) => i = 1
  /\ \A i \in 1..Len(c) : Ascending(c[i].parts)
  /\ \A i, j \in 1..Len(c) : i < j /\ ~IsSystem(c[i]) =>
       \A a \in Says(c[i]), b \in Says(c[j]) : a < b
  /\ SaysAll(r, c)

\* responseMessages keeps the conversation.
LEMMA TranslationKeeps ==
  ASSUME NEW r \in Received
  PROVE  ChatMessages(r) \in Seq(Messages) /\ Kept(r, ChatMessages(r))
<1> DEFINE s == Message("system", <<0>>)
           u == Message("user", <<1>>)
           first == IF r.instructions THEN <<s>> ELSE <<>>
           F == FlattenSeq([i \in 1..Len(r.items) |-> ItemMessages(r.items, i)])
           M == first \o F
<1>1. /\ r.instructions \in BOOLEAN /\ r.string \in BOOLEAN
      /\ r.items \in Seq(InputItems)
  BY DEF Received
<1>2. /\ s \in Messages /\ Says(s) = {0} /\ Ascending(s.parts) /\ IsSystem(s)
      /\ u \in Messages /\ Says(u) = {1} /\ Ascending(u.parts) /\ ~IsSystem(u)
  BY DEF Message, Messages, Roles, Says, Ascending, IsSystem
<1>3. CASE r.items = <<>>
  <2> DEFINE second == IF r.string THEN <<u>> ELSE <<>>
             c == first \o second
  <2>1. ChatMessages(r) = c
    BY <1>3 DEF ChatMessages
  <2> HIDE DEF s, u
  <2>2. /\ first \in Seq(Messages) /\ second \in Seq(Messages)
        /\ Len(first) = (IF r.instructions THEN 1 ELSE 0) /\ (r.instructions => first[1] = s)
        /\ Len(second) = (IF r.string THEN 1 ELSE 0) /\ (r.string => second[1] = u)
    BY <1>2
  <2> HIDE DEF first, second
  <2>3. /\ c \in Seq(Messages) /\ Len(c) = Len(first) + Len(second)
        /\ \A i \in 1..Len(c) : c[i] = IF i <= Len(first) THEN first[i] ELSE second[i - Len(first)]
        /\ Len(first) \in Nat
        /\ \A i \in 1..Len(c) : i > Len(first) => i - Len(first) \in 1..Len(second)
    <3>1. c \in Seq(Messages) /\ Joined(first, second, c)
      BY <2>2, ConcatFacts
    <3> HIDE DEF c
    <3> QED
      BY <3>1 DEF Joined
  <2> HIDE DEF c
  <2>4. \A i \in 1..Len(c) :
          \/ i = 1 /\ r.instructions /\ c[i] = s
          \/ i = Len(first) + 1 /\ c[i] = u
    BY <1>1, <2>2, <2>3
  <2>5. r.instructions => 1 \in 1..Len(c) /\ c[1] = s
    BY <1>1, <2>2, <2>3
  <2> QED
    BY <1>2, <1>3, <2>1, <2>2, <2>3, <2>4, <2>5 DEF Kept, SaysAll
<1>4. CASE r.items # <<>>
  <2>1. ChatMessages(r) = Normalize(M)
    BY <1>4 DEF ChatMessages
  <2>2. /\ F \in Seq(Messages) /\ InOrder(F)
        /\ \A k \in 1..Len(F) : Says(F[k]) \subseteq 1..Len(r.items)
        /\ \A i \in 1..Len(r.items) : r.items[i].role # "reasoning" /\ ~r.items[i].empty =>
             \E k \in 1..Len(F) : i \in Says(F[k])
    BY <1>1, ItemsInOrder
  <2> HIDE DEF F, s, u
  <2>3. /\ first \in Seq(Messages)
        /\ Len(first) = (IF r.instructions THEN 1 ELSE 0) /\ (r.instructions => first[1] = s)
    BY <1>1, <1>2
  <2> HIDE DEF first
  <2>4. /\ M \in Seq(Messages) /\ Len(M) = Len(first) + Len(F)
        /\ \A i \in 1..Len(M) : i <= Len(first) => r.instructions /\ i = 1 /\ M[i] = s
        /\ \A i \in 1..Len(M) : i > Len(first) => i - Len(first) \in 1..Len(F) /\ M[i] = F[i - Len(first)]
        /\ \A k \in 1..Len(F) : k + Len(first) \in 1..Len(M) /\ M[k + Len(first)] = F[k]
        /\ r.instructions => 1 \in 1..Len(M) /\ M[1] = s
    <3>1. /\ M \in Seq(Messages) /\ Len(M) = Len(first) + Len(F)
          /\ Len(first) \in Nat /\ Len(F) \in Nat
          /\ \A i \in 1..Len(first) : i \in 1..Len(M) /\ M[i] = first[i]
          /\ \A i \in 1..Len(F) : Len(first) + i \in 1..Len(M) /\ M[Len(first) + i] = F[i]
          /\ \A i \in 1..Len(M) : i > Len(first) => i - Len(first) \in 1..Len(F) /\ M[i] = F[i - Len(first)]
          /\ \A i \in 1..Len(M) : i <= Len(first) => i \in 1..Len(first) /\ M[i] = first[i]
      <4>1. M \in Seq(Messages) /\ Joined(first, F, M)
        BY <2>2, <2>3, ConcatFacts
      <4> HIDE DEF M
      <4> QED
        BY <4>1 DEF Joined
    <3> HIDE DEF M
    <3>2. \A i \in 1..Len(first) : r.instructions /\ i = 1 /\ first[i] = s
      BY <1>1, <2>3
    <3>3. \A k \in 1..Len(F) : k + Len(first) = Len(first) + k
      BY <3>1
    <3>4. r.instructions => 1 \in 1..Len(first)
      BY <2>3
    <3>5. r.instructions => 1 \in 1..Len(M) /\ M[1] = s
      BY <2>3, <3>1, <3>4
    <3>6. \A i \in 1..Len(M) : i <= Len(first) => r.instructions /\ i = 1 /\ M[i] = s
      BY <3>1, <3>2
    <3> QED
      BY <3>1, <3>3, <3>5, <3>6
  <2> HIDE DEF M
  <2>5. InOrder(M)
    <3>1. ASSUME NEW i \in 1..Len(M) PROVE Ascending(M[i].parts)
      <4>1. CASE i <= Len(first)
        BY <1>2, <2>4, <4>1
      <4>2. CASE i > Len(first)
        <5>1. i - Len(first) \in 1..Len(F) /\ M[i] = F[i - Len(first)]
          BY <2>4, <4>2
        <5> QED
          BY <2>2, <5>1 DEF InOrder
      <4> QED
        BY <2>3, <4>1, <4>2
    <3>2. ASSUME NEW i \in 1..Len(M), NEW j \in 1..Len(M), i < j,
                 NEW a \in Says(M[i]), NEW b \in Says(M[j])
          PROVE  a < b
      <4>1. CASE i > Len(first)
        <5>1. i - Len(first) \in 1..Len(F) /\ j - Len(first) \in 1..Len(F)
              /\ i - Len(first) < j - Len(first)
              /\ M[i] = F[i - Len(first)] /\ M[j] = F[j - Len(first)]
          BY <2>2, <2>3, <2>4, <3>2, <4>1
        <5> QED
          BY <2>2, <3>2, <5>1 DEF InOrder
      <4>2. CASE i <= Len(first)
        <5>1. i = 1 /\ a = 0 /\ Len(first) = 1
          BY <1>1, <1>2, <2>3, <2>4, <3>2, <4>2
        <5>2. j - Len(first) \in 1..Len(F) /\ M[j] = F[j - Len(first)]
          BY <2>4, <3>2, <5>1
        <5>3. b \in 1..Len(r.items)
          BY <2>2, <3>2, <5>2
        <5> QED
          BY <5>1, <5>3
      <4> QED
        BY <2>3, <4>1, <4>2
    <3> QED
      BY <3>1, <3>2 DEF InOrder
  <2>6. SaysAll(r, M)
    <3>1. ASSUME NEW i \in 1..Len(r.items), r.items[i].role # "reasoning", ~r.items[i].empty
          PROVE  \E k \in 1..Len(M) : i \in Says(M[k])
      <4>1. PICK k \in 1..Len(F) : i \in Says(F[k])
        BY <2>2, <3>1
      <4>2. k + Len(first) \in 1..Len(M) /\ i \in Says(M[k + Len(first)])
        BY <2>4, <4>1
      <4> QED
        BY <4>2
    <3>2. r.instructions => \E k \in 1..Len(M) : 0 \in Says(M[k])
      BY <1>2, <2>4
    <3> QED
      BY <3>1, <3>2 DEF SaysAll
  <2> DEFINE c == Normalize(M)
  <2>7. /\ c \in Seq(Messages)
        /\ \A i \in 1..Len(c) : IsSystem(c[i]) => i = 1
        /\ \A i \in 1..Len(c) : Ascending(c[i].parts)
        /\ \A i, j \in 1..Len(c) : i < j /\ ~IsSystem(c[i]) =>
             \A a \in Says(c[i]), b \in Says(c[j]) : a < b
        /\ \A i \in 1..Len(M) : \A a \in Says(M[i]) : \E k \in 1..Len(c) : a \in Says(c[k])
    BY <2>4, <2>5, NormalizeKeeps
  <2> HIDE DEF c
  <2>8. SaysAll(r, c)
    BY <2>6, <2>7 DEF SaysAll
  <2> QED
    BY <2>1, <2>7, <2>8 DEF Kept, c
<1> QED
  BY <1>3, <1>4

\* The request is one the proxy can get, and what is sent on is its translation.
ConversationInv == req \in Received /\ (phase = "forward" => chat = ChatMessages(req))

LEMMA RequestReceived == Requests \subseteq Received
<1>1. Items \subseteq InputItems
  BY DEF Items, InputItems, Roles, None
<1>2. ASSUME NEW n \in 0..MaxItems, NEW s \in [1..n -> Items] PROVE s \in Seq(InputItems)
  <2>1. n \in Nat
    BY BoundAssumption
  <2> QED
    BY <1>1, <2>1
<1>3. UNION {[1..n -> Items] : n \in 0..MaxItems} \subseteq Seq(InputItems)
  BY <1>2
<1>4. {<<>>} \subseteq Seq(InputItems)
  OBVIOUS
<1> QED
  BY <1>3, <1>4 DEF Requests, Received

LEMMA ConversationStep == ASSUME ConversationInv, [Next]_vars PROVE ConversationInv'
<1> USE DEF ConversationInv
<1>1. CASE Handle
  BY <1>1 DEF Handle
<1>2. CASE StreamBegins
  BY <1>2 DEF StreamBegins, NoRequest, Received
<1>3. CASE Content \/ Finish \/ \E d \in Fragments : Fragment(d)
  BY <1>3 DEF Content, Finish, Fragment
<1>4. CASE \E answer \in {"unreachable", "error"} : ProviderFails(answer)
  BY <1>4 DEF ProviderFails
<1>5. CASE UNCHANGED vars
  BY <1>5 DEF vars
<1> QED
  BY <1>1, <1>2, <1>3, <1>4, <1>5 DEF Next

LEMMA ConversationFollows == ASSUME ConversationInv PROVE ConversationKept
<1> SUFFICES ASSUME phase = "forward" PROVE Kept(req, chat) /\ chat \in Seq(Messages)
                                            /\ req.items \in Seq(InputItems)
  BY DEF ConversationKept, Kept, SaysAll
<1> QED
  BY TranslationKeeps DEF ConversationInv, Received

\* The provider is told the conversation: one system message with all that is
\* system, in front, the rest in the order of the input, and nothing left out.
THEOREM Conversation == Spec => []ConversationKept
<1>1. Init => ConversationInv
  BY RequestReceived DEF Init, ConversationInv
<1>2. ConversationInv /\ [Next]_vars => ConversationInv'
  BY ConversationStep
<1>3. ConversationInv => ConversationKept
  BY ConversationFollows
<1> QED
  BY <1>1, <1>2, <1>3, PTL DEF Spec

-----------------------------------------------------------------------------
(* The stream.                                                              *)

ToolCalls == [id : Nat, item : Int, named : BOOLEAN, started : BOOLEAN, pieces : Seq(Nat)]
ChatDeltas == [index : 0..(MaxIndex + 1), id : Nat, name : BOOLEAN, args : BOOLEAN]
Kinds == {"created", "added", "delta", "done", "item", "completed"}
ProxyEvents == [kind : Kinds, item : Int, index : Nat, pieces : Seq(Nat)]

StreamShape ==
  /\ calls \in [Index -> {<<>>} \cup {<<c>> : c \in ToolCalls}]
  /\ text \in {<<>>} \cup {<<p>> : p \in Seq(Nat)}
  /\ deltas \in Seq(ChatDeltas)

\* The ids an item of index i can have, and the one its first fragment gives it.
Names(i) == {i + 1, i + MaxIndex + 2, Generated(i)}
NameOf(d) == IF d.id # None THEN d.id ELSE Generated(d.index)

\* No delta of an index; and IsFirst, Steady and Whole of any deltas.
NoneOf(ds, i) == \A k \in 1..Len(ds) : ds[k].index # i
FirstIn(ds, k, i) ==
  k \in 1..Len(ds) /\ ds[k].index = i /\ \A m \in 1..(k - 1) : ds[m].index # i
SteadyIn(ds, i) ==
  \A k, m \in 1..Len(ds) :
    FirstIn(ds, k, i) /\ ds[m].index = i /\ ds[m].id # None => ds[m].id = ds[k].id
WholeIn(ds, pieces, i) ==
  /\ Ascending(pieces)
  /\ \A k \in 1..Len(pieces) : pieces[k] \in 1..Len(ds) /\ ds[pieces[k]].index = i /\ ds[pieces[k]].args
  /\ \A m \in 1..Len(ds) : ds[m].index = i /\ ds[m].args => \E k \in 1..Len(pieces) : pieces[k] = m

\* What one more delta changes in them.
LEMMA DeltaAdds ==
  ASSUME NEW ds \in Seq(ChatDeltas), NEW d \in ChatDeltas, NEW i
  PROVE  LET e == Append(ds, d) IN
         /\ SteadyIn(e, i) => SteadyIn(ds, i)
         /\ \A k \in 1..Len(ds) : FirstIn(ds, k, i) => FirstIn(e, k, i) /\ e[k] = ds[k]
         /\ d.index = i /\ NoneOf(ds, i)
              => FirstIn(e, Len(ds) + 1, i) /\ e[Len(ds) + 1] = d
         /\ \A k \in 1..Len(ds) :
              FirstIn(ds, k, i) /\ SteadyIn(e, i) /\ d.index = i /\ d.id # None => d.id = ds[k].id
<1> DEFINE e == Append(ds, d)
<1>1. /\ Len(ds) \in Nat /\ Len(e) = Len(ds) + 1 /\ e[Len(ds) + 1] = d
      /\ \A k \in 1..Len(ds) : e[k] = ds[k] /\ k \in 1..Len(e)
      /\ Len(ds) + 1 \in 1..Len(e)
  OBVIOUS
<1> HIDE DEF e
<1>2. \A k \in 1..Len(ds) : FirstIn(ds, k, i) <=> FirstIn(e, k, i)
  BY <1>1 DEF FirstIn
<1>3. SteadyIn(e, i) => SteadyIn(ds, i)
  BY <1>1, <1>2 DEF SteadyIn
<1>4. d.index = i /\ NoneOf(ds, i) => FirstIn(e, Len(ds) + 1, i)
  BY <1>1 DEF FirstIn, NoneOf
<1>5. \A k \in 1..Len(ds) :
        FirstIn(ds, k, i) /\ SteadyIn(e, i) /\ d.index = i /\ d.id # None => d.id = ds[k].id
  BY <1>1, <1>2 DEF SteadyIn
<1> QED
  BY <1>1, <1>2, <1>3, <1>4, <1>5 DEF e

\* A piece more, or a delta of another index.
LEMMA WholeGrows ==
  ASSUME NEW ds \in Seq(ChatDeltas), NEW d \in ChatDeltas, NEW i,
         NEW pieces \in Seq(Nat), WholeIn(ds, pieces, i)
  PROVE  /\ d.index = i /\ d.args => WholeIn(Append(ds, d), Append(pieces, Len(ds) + 1), i)
         /\ ~(d.index = i /\ d.args) => WholeIn(Append(ds, d), pieces, i)
<1> DEFINE e == Append(ds, d)
           q == Append(pieces, Len(ds) + 1)
<1>1. /\ Len(ds) \in Nat /\ Len(e) = Len(ds) + 1 /\ e[Len(ds) + 1] = d
      /\ \A k \in 1..Len(ds) : e[k] = ds[k]
  OBVIOUS
<1>2. /\ Len(pieces) \in Nat /\ Len(q) = Len(pieces) + 1 /\ q[Len(pieces) + 1] = Len(ds) + 1
      /\ \A k \in 1..Len(pieces) : q[k] = pieces[k]
      /\ DOMAIN pieces = 1..Len(pieces) /\ DOMAIN q = 1..Len(q)
  BY <1>1
<1> HIDE DEF e, q
<1>3. ASSUME d.index = i, d.args PROVE WholeIn(e, q, i)
  <2>1. Ascending(q)
    BY <1>1, <1>2 DEF WholeIn, Ascending
  <2>2. \A k \in 1..Len(q) : q[k] \in 1..Len(e) /\ e[q[k]].index = i /\ e[q[k]].args
    <3> SUFFICES ASSUME NEW k \in 1..Len(q)
                 PROVE  q[k] \in 1..Len(e) /\ e[q[k]].index = i /\ e[q[k]].args
      OBVIOUS
    <3>1. CASE k \in 1..Len(pieces)
      <4>1. q[k] \in 1..Len(ds) /\ ds[q[k]].index = i /\ ds[q[k]].args
        BY <1>2, <3>1 DEF WholeIn
      <4> QED
        BY <1>1, <4>1
    <3>2. CASE k = Len(pieces) + 1
      BY <1>1, <1>2, <1>3, <3>2
    <3> QED
      BY <1>2, <3>1, <3>2
  <2>3. \A m \in 1..Len(e) : e[m].index = i /\ e[m].args => \E k \in 1..Len(q) : q[k] = m
    <3> SUFFICES ASSUME NEW m \in 1..Len(e), e[m].index = i, e[m].args
                 PROVE  \E k \in 1..Len(q) : q[k] = m
      OBVIOUS
    <3>1. CASE m = Len(ds) + 1
      <4>1. Len(pieces) + 1 \in 1..Len(q) /\ q[Len(pieces) + 1] = m
        BY <1>2, <3>1
      <4> QED
        BY <4>1
    <3>2. CASE m # Len(ds) + 1
      <4>1. m \in 1..Len(ds) /\ ds[m].index = i /\ ds[m].args
        BY <1>1, <3>2
      <4>2. PICK k \in 1..Len(pieces) : pieces[k] = m
        BY <4>1 DEF WholeIn
      <4>3. k \in 1..Len(q) /\ q[k] = m
        BY <1>2, <4>2
      <4> QED
        BY <4>3
    <3> QED
      BY <3>1, <3>2
  <2> QED
    BY <2>1, <2>2, <2>3 DEF WholeIn
<1>4. ASSUME ~(d.index = i /\ d.args) PROVE WholeIn(e, pieces, i)
  <2>1. \A k \in 1..Len(pieces) : pieces[k] \in 1..Len(e) /\ e[pieces[k]].index = i /\ e[pieces[k]].args
    <3> SUFFICES ASSUME NEW k \in 1..Len(pieces)
                 PROVE  pieces[k] \in 1..Len(e) /\ e[pieces[k]].index = i /\ e[pieces[k]].args
      OBVIOUS
    <3>1. pieces[k] \in 1..Len(ds) /\ ds[pieces[k]].index = i /\ ds[pieces[k]].args
      BY DEF WholeIn
    <3> QED
      BY <1>1, <3>1
  <2>2. \A m \in 1..Len(e) : e[m].index = i /\ e[m].args => \E k \in 1..Len(pieces) : pieces[k] = m
    <3> SUFFICES ASSUME NEW m \in 1..Len(e), e[m].index = i, e[m].args
                 PROVE  \E k \in 1..Len(pieces) : pieces[k] = m
      OBVIOUS
    <3>1. m \in 1..Len(ds) /\ ds[m].index = i /\ ds[m].args
      <4>1. m # Len(ds) + 1
        BY <1>1, <1>4
      <4> QED
        BY <1>1, <4>1
    <3> QED
      BY <3>1 DEF WholeIn
  <2> QED
    BY <2>1, <2>2 DEF WholeIn
<1> QED
  BY <1>3, <1>4 DEF e, q

\* The events of a kind and an item: none, or one.
Nowhere(s, kind, item) == \A k \in 1..Len(s) : ~(s[k].kind = kind /\ s[k].item = item)
Single(s, kind, item) ==
  \E k \in 1..Len(s) : \A m \in 1..Len(s) : s[m].kind = kind /\ s[m].item = item <=> m = k

LEMMA SpotsJoined ==
  ASSUME NEW s \in Seq(ProxyEvents), NEW t \in Seq(ProxyEvents), NEW kind, NEW item
  PROVE  /\ Nowhere(s, kind, item) /\ Nowhere(t, kind, item) => Nowhere(s \o t, kind, item)
         /\ Single(s, kind, item) /\ Nowhere(t, kind, item) => Single(s \o t, kind, item)
         /\ Nowhere(s, kind, item) /\ Single(t, kind, item) => Single(s \o t, kind, item)
<1> DEFINE c == s \o t
<1>1. Joined(s, t, c)
  BY ConcatFacts
<1> HIDE DEF c
<1>2. Len(c) \in Nat /\ Len(s) \in Nat /\ Len(t) \in Nat
  BY <1>1 DEF Joined
<1>3. \A m \in 1..Len(c) : \/ m \in 1..Len(s) /\ c[m] = s[m]
                           \/ m > Len(s) /\ m - Len(s) \in 1..Len(t) /\ c[m] = t[m - Len(s)]
  <2> TAKE m \in 1..Len(c)
  <2>1. CASE m <= Len(s)
    BY <1>1, <2>1 DEF Joined
  <2>2. CASE m > Len(s)
    BY <1>1, <2>2 DEF Joined
  <2> QED
    BY <1>2, <2>1, <2>2
<1>4. ASSUME Nowhere(s, kind, item), Nowhere(t, kind, item) PROVE Nowhere(c, kind, item)
  BY <1>3, <1>4 DEF Nowhere
<1>5. ASSUME Single(s, kind, item), Nowhere(t, kind, item) PROVE Single(c, kind, item)
  <2>1. PICK k \in 1..Len(s) : \A m \in 1..Len(s) : s[m].kind = kind /\ s[m].item = item <=> m = k
    BY <1>5 DEF Single
  <2>2. k \in 1..Len(c) /\ c[k] = s[k]
    BY <1>1 DEF Joined
  <2>3. ASSUME NEW m \in 1..Len(c) PROVE c[m].kind = kind /\ c[m].item = item <=> m = k
    BY <1>2, <1>3, <1>5, <2>1, <2>2 DEF Nowhere
  <2> QED
    BY <2>2, <2>3 DEF Single
<1>6. ASSUME Nowhere(s, kind, item), Single(t, kind, item) PROVE Single(c, kind, item)
  <2>1. PICK k \in 1..Len(t) : \A m \in 1..Len(t) : t[m].kind = kind /\ t[m].item = item <=> m = k
    BY <1>6 DEF Single
  <2>2. Len(s) + k \in 1..Len(c) /\ c[Len(s) + k] = t[k]
    BY <1>1 DEF Joined
  <2>3. ASSUME NEW m \in 1..Len(c) PROVE c[m].kind = kind /\ c[m].item = item <=> m = Len(s) + k
    <3>1. CASE m \in 1..Len(s) /\ c[m] = s[m]
      <4>1. m # Len(s) + k
        BY <1>2, <3>1
      <4> QED
        BY <1>6, <3>1, <4>1 DEF Nowhere
    <3>2. CASE m > Len(s) /\ m - Len(s) \in 1..Len(t) /\ c[m] = t[m - Len(s)]
      <4>1. m - Len(s) = k <=> m = Len(s) + k
        BY <1>2
      <4> QED
        BY <2>1, <3>2, <4>1
    <3> QED
      BY <1>3, <3>1, <3>2
  <2> QED
    BY <2>2, <2>3 DEF Single
<1> QED
  BY <1>4, <1>5, <1>6 DEF c

\* The same for a list of blocks.
LEMMA SpotsFlattened ==
  ASSUME NEW n \in Nat, NEW ss \in [1..n -> Seq(ProxyEvents)], NEW kind, NEW item
  PROVE  /\ (\A k \in 1..n : Nowhere(ss[k], kind, item)) => Nowhere(FlattenSeq(ss), kind, item)
         /\ \A b \in 1..n :
              Single(ss[b], kind, item) /\ (\A k \in 1..n : k # b => Nowhere(ss[k], kind, item))
                => Single(FlattenSeq(ss), kind, item)
<1> DEFINE F == FlattenSeq(ss)
<1>1. F \in Seq(ProxyEvents) /\ \E block, place : Layout(F, n, ss, block, place)
  BY FlattenLayout
<1>2. PICK block, place : Layout(F, n, ss, block, place)
  BY <1>1
<1>3. Len(F) \in Nat
  BY <1>1
<1> HIDE DEF F
<1>4. \A p \in 1..Len(F) : /\ block[p] \in 1..n /\ place[p] \in 1..Len(ss[block[p]])
                           /\ F[p] = ss[block[p]][place[p]]
  <2> TAKE p \in 1..Len(F)
  <2>1. /\ block[p] \in 1..n /\ place[p] \in Nat \ {0} /\ place[p] <= Len(ss[block[p]])
        /\ F[p] = ss[block[p]][place[p]]
    BY <1>2 DEF Layout
  <2>2. Len(ss[block[p]]) \in Nat
    BY <2>1
  <2> QED
    BY <2>1, <2>2
<1>5. ASSUME \A k \in 1..n : Nowhere(ss[k], kind, item) PROVE Nowhere(F, kind, item)
  BY <1>4, <1>5 DEF Nowhere
<1>6. ASSUME NEW b \in 1..n, Single(ss[b], kind, item),
             \A k \in 1..n : k # b => Nowhere(ss[k], kind, item)
      PROVE  Single(F, kind, item)
  <2>1. PICK l \in 1..Len(ss[b]) :
          \A m \in 1..Len(ss[b]) : ss[b][m].kind = kind /\ ss[b][m].item = item <=> m = l
    BY <1>6 DEF Single
  <2>2. PICK p \in 1..Len(F) : block[p] = b /\ place[p] = l
    BY <1>2, <2>1 DEF Layout
  <2>3. ASSUME NEW q \in 1..Len(F), F[q].kind = kind, F[q].item = item PROVE q = p
    <3>1. block[q] = b
      BY <1>4, <1>6, <2>3 DEF Nowhere
    <3>2. place[q] = l
      BY <1>4, <2>1, <2>3, <3>1
    <3>3. /\ p < q => block[p] < block[q] \/ (block[p] = block[q] /\ place[p] < place[q])
          /\ q < p => block[q] < block[p] \/ (block[p] = block[q] /\ place[q] < place[p])
      BY <1>2 DEF Layout
    <3>4. ~(p < q) /\ ~(q < p)
      BY <2>1, <2>2, <3>1, <3>2, <3>3
    <3> QED
      BY <1>3, <3>4
  <2>4. F[p].kind = kind /\ F[p].item = item
    BY <1>4, <2>1, <2>2
  <2> QED
    BY <2>3, <2>4 DEF Single
<1> QED
  BY <1>5, <1>6 DEF F

\* The elements of a sequence, and of several.
Elements(s) == {s[k] : k \in 1..Len(s)}

LEMMA ElementsJoined ==
  ASSUME NEW s \in Seq(ProxyEvents), NEW t \in Seq(ProxyEvents)
  PROVE  Elements(s \o t) = Elements(s) \cup Elements(t)
<1> DEFINE c == s \o t
<1>1. Joined(s, t, c)
  BY ConcatFacts
<1> HIDE DEF c
<1>2. ASSUME NEW m \in 1..Len(c) PROVE c[m] \in Elements(s) \cup Elements(t)
  <2>1. CASE m <= Len(s)
    BY <1>1, <2>1 DEF Joined, Elements
  <2>2. CASE m > Len(s)
    <3>1. m - Len(s) \in 1..Len(t) /\ c[m] = t[m - Len(s)]
      BY <1>1, <2>2 DEF Joined
    <3> QED
      BY <3>1 DEF Elements
  <2> QED
    BY <1>1, <2>1, <2>2 DEF Joined
<1>3. \A k \in 1..Len(s) : s[k] \in Elements(c)
  BY <1>1 DEF Joined, Elements
<1>4. ASSUME NEW k \in 1..Len(t) PROVE t[k] \in Elements(c)
  <2>1. Len(s) + k \in 1..Len(c) /\ c[Len(s) + k] = t[k]
    BY <1>1 DEF Joined
  <2> QED
    BY <2>1 DEF Elements
<1>5. Elements(c) = Elements(s) \cup Elements(t)
  BY <1>2, <1>3, <1>4 DEF Elements
<1> QED
  BY <1>5 DEF c

LEMMA ElementsFlattened ==
  ASSUME NEW n \in Nat, NEW ss \in [1..n -> Seq(ProxyEvents)]
  PROVE  /\ FlattenSeq(ss) \in Seq(ProxyEvents)
         /\ Elements(FlattenSeq(ss)) = UNION {Elements(ss[b]) : b \in 1..n}
<1> DEFINE F == FlattenSeq(ss)
<1>1. F \in Seq(ProxyEvents) /\ \E block, place : Layout(F, n, ss, block, place)
  BY FlattenLayout
<1>2. PICK block, place : Layout(F, n, ss, block, place)
  BY <1>1
<1> HIDE DEF F
<1>3. ASSUME NEW p \in 1..Len(F) PROVE \E b \in 1..n : F[p] \in Elements(ss[b])
  <2>1. /\ block[p] \in 1..n /\ place[p] \in Nat \ {0} /\ place[p] <= Len(ss[block[p]])
        /\ F[p] = ss[block[p]][place[p]]
    BY <1>2 DEF Layout
  <2>2. Len(ss[block[p]]) \in Nat
    BY <2>1
  <2>3. place[p] \in 1..Len(ss[block[p]])
    BY <2>1, <2>2
  <2> QED
    BY <2>1, <2>3 DEF Elements
<1>4. ASSUME NEW b \in 1..n, NEW l \in 1..Len(ss[b]) PROVE ss[b][l] \in Elements(F)
  <2>1. PICK p \in 1..Len(F) : block[p] = b /\ place[p] = l
    BY <1>2 DEF Layout
  <2>2. F[p] = ss[b][l]
    BY <1>2, <2>1 DEF Layout
  <2> QED
    BY <2>1, <2>2 DEF Elements
<1>5. Elements(F) = UNION {Elements(ss[b]) : b \in 1..n}
  BY <1>3, <1>4 DEF Elements
<1> QED
  BY <1>1, <1>5 DEF F

\* The indices whose calls are closed: calls that are known, by index, and all of
\* them if none is left out.
Ordered(s) ==
  /\ s \in Seq(Known)
  /\ \A p, q \in 1..Len(s) : p < q => s[p] < s[q]
  /\ Contiguous => \A i \in Known : \E p \in 1..Len(s) : s[p] = i

LEMMA OrderedFacts == Ordered(OrderedCalls)
<1> DEFINE s == [k \in 1..(MaxIndex + 1) |-> k - 1]
           keep == {k \in 1..Cardinality(Known) : k - 1 \in Known}
<1>1. MaxIndex \in Nat
  BY BoundAssumption
<1>2. s \in Seq(Index) /\ Len(s) = MaxIndex + 1
  BY <1>1 DEF Index
<1>3. \A k \in 1..Len(s) : s[k] = k - 1
  BY <1>1
<1>4. Known \subseteq Index /\ IsFiniteSet(Known) /\ Cardinality(Known) \in Nat
  <2>1. Known \subseteq Index
    BY DEF Known
  <2>2. IsFiniteSet(0..MaxIndex)
    BY <1>1, FS_Interval
  <2>3. IsFiniteSet(Known)
    BY <2>1, <2>2, FS_Subset DEF Index
  <2> QED
    BY <2>1, <2>3, FS_CardinalityType
<1>5. keep \in SUBSET (1..Len(s))
  <2> SUFFICES ASSUME NEW k \in 1..Cardinality(Known), k - 1 \in Known PROVE k \in 1..Len(s)
    OBVIOUS
  <2>1. k - 1 \in 0..MaxIndex
    BY <1>4 DEF Index
  <2> HIDE DEF s
  <2> QED
    BY <1>1, <1>2, <1>4, <2>1
<1> DEFINE A == At(s, keep)
<1>6. A = OrderedCalls
  BY DEF OrderedCalls
<1> HIDE DEF s, keep, A
<1>7. A \in Seq(Index) /\ \E at : Picks(s, keep, at)
  BY <1>2, <1>5, AtPicks DEF A
<1>8. PICK at : Picks(s, keep, at)
  BY <1>7
<1>9. Len(A) \in Nat
  BY <1>7
<1>10. \A p \in 1..Len(A) : at[p] \in keep /\ A[p] = at[p] - 1 /\ A[p] \in Known
  <2> TAKE p \in 1..Len(A)
  <2>1. at[p] \in keep /\ A[p] = s[at[p]]
    BY <1>8 DEF Picks, A
  <2> QED
    BY <1>3, <1>5, <2>1 DEF keep
<1>11. A \in Seq(Known)
  BY <1>7, <1>9, <1>10
<1>12. \A p, q \in 1..Len(A) : p < q => A[p] < A[q]
  <2> SUFFICES ASSUME NEW p \in 1..Len(A), NEW q \in 1..Len(A), p < q PROVE A[p] < A[q]
    OBVIOUS
  <2>1. at[p] < at[q]
    BY <1>8 DEF Picks, A
  <2>2. at[p] \in Int /\ at[q] \in Int
    BY <1>10, <1>4 DEF keep
  <2> QED
    BY <1>10, <2>1, <2>2
<1>13. ASSUME Contiguous, NEW i \in Known PROVE \E p \in 1..Len(A) : A[p] = i
  <2>1. i \in Nat /\ 0..i \subseteq Known
    BY <1>4, <1>13 DEF Index, Contiguous
  <2>2. Cardinality(0..i) = i + 1
    BY <2>1, FS_Interval
  <2>3. Cardinality(0..i) <= Cardinality(Known)
    BY <1>4, <2>1, FS_Subset
  <2>4. i + 1 \in 1..Cardinality(Known) /\ (i + 1) - 1 = i
    BY <1>4, <2>1, <2>2, <2>3
  <2>5. i + 1 \in keep
    BY <2>4 DEF keep
  <2>6. PICK p \in 1..Len(A) : at[p] = i + 1
    BY <1>8, <2>5 DEF Picks, A
  <2> QED
    BY <1>10, <2>1, <2>6
<1> QED
  BY <1>6, <1>11, <1>12, <1>13 DEF Ordered

-----------------------------------------------------------------------------
(* What holds while the answer is streamed.                                 *)

\* A call, and the message, has all that came for it.
Collected ==
  /\ \A i \in Index :
       IF calls[i] = <<>> THEN NoneOf(deltas, i) ELSE WholeIn(deltas, calls[i][1].pieces, i)
  /\ IF text = <<>> THEN NoneOf(deltas, MaxIndex + 1) ELSE WholeIn(deltas, text[1], MaxIndex + 1)

\* A call has an id of its index, and the first it had if that never changed.
Named(i) ==
  /\ calls[i][1].item \in Names(i) /\ calls[i][1].started = calls[i][1].named
  /\ \E k \in 1..Len(deltas) :
       FirstIn(deltas, k, i) /\ (SteadyIn(deltas, i) => calls[i][1].item = NameOf(deltas[k]))

\* No id of a call that has not started is announced; that of one that has, once.
Started(i) == calls[i] # <<>> /\ calls[i][1].started
CallAnnounced(i) ==
  /\ ~Started(i) => \A x \in Names(i) : Nowhere(events, "added", x)
  /\ Started(i) /\ SteadyIn(deltas, i) => Single(events, "added", calls[i][1].item)

TextAnnounced ==
  IF text = <<>> THEN Nowhere(events, "added", MessageItem)
  ELSE Single(events, "added", MessageItem)

Open(s) == \A k \in 1..Len(s) : s[k].kind \in {"created", "added", "delta"}

Streaming ==
  /\ events \in Seq(ProxyEvents) /\ Open(events) /\ TextAnnounced
  /\ \A i \in Index : CallAnnounced(i)

StreamInv ==
  /\ StreamShape /\ Collected /\ \A i \in Known : Named(i)
  /\ phase \in {"new", "forward"} => text = <<>> /\ Known = {}
  /\ phase = "stream" => Streaming

\* The names of different items differ.
LEMMA NamesDiffer ==
  /\ \A i, j \in Index : i # j => Names(i) \cap Names(j) = {}
  /\ \A i \in Index : MessageItem \notin Names(i) /\ Names(i) \subseteq Int \ {None}
  /\ MessageItem \in Int \ {None}
BY BoundAssumption DEF Names, Index, Generated, MessageItem, None

\* One event.
LEMMA OneEvent ==
  ASSUME NEW kind \in Kinds, NEW item \in Int, NEW index \in Nat, NEW pieces \in Seq(Nat)
  PROVE  LET s == <<Event(kind, item, index, pieces)>> IN
         /\ s \in Seq(ProxyEvents) /\ Elements(s) = {Event(kind, item, index, pieces)}
         /\ Single(s, kind, item)
         /\ \A k, x : k # kind \/ x # item => Nowhere(s, k, x)
<1> DEFINE e == Event(kind, item, index, pieces)
           s == <<e>>
<1>1. e \in ProxyEvents /\ e.kind = kind /\ e.item = item
  BY DEF Event, ProxyEvents
<1> HIDE DEF e
<1>2. s \in Seq(ProxyEvents) /\ Len(s) = 1 /\ s[1] = e /\ 1 \in 1..Len(s) /\ \A m \in 1..Len(s) : m = 1
  BY <1>1
<1> HIDE DEF s
<1>3. Elements(s) = {e}
  BY <1>2 DEF Elements
<1>4. Single(s, kind, item)
  BY <1>1, <1>2 DEF Single
<1>5. \A k, x : k # kind \/ x # item => Nowhere(s, k, x)
  BY <1>1, <1>2 DEF Nowhere
<1> QED
  BY <1>2, <1>3, <1>4, <1>5 DEF s, e

LEMMA NoEvent ==
  /\ <<>> \in Seq(ProxyEvents) /\ Elements(<<>>) = {} /\ Open(<<>>)
  /\ \A k, x : Nowhere(<<>>, k, x)
BY DEF Elements, Nowhere, Open

LEMMA OpenIs ==
  ASSUME NEW s \in Seq(ProxyEvents)
  PROVE  Open(s) <=> \A e \in Elements(s) : e.kind \in {"created", "added", "delta"}
BY DEF Open, Elements

LEMMA NonePlus ==
  ASSUME NEW ds \in Seq(ChatDeltas), NEW d \in ChatDeltas, NEW i, NoneOf(ds, i)
  PROVE  WholeIn(ds, <<>>, i) /\ (d.index # i => NoneOf(Append(ds, d), i))
<1>1. WholeIn(ds, <<>>, i)
  BY DEF WholeIn, NoneOf, Ascending
<1> DEFINE e == Append(ds, d)
<1>2. \A k \in 1..Len(e) : (k \in 1..Len(ds) /\ e[k] = ds[k]) \/ e[k] = d
  OBVIOUS
<1> HIDE DEF e
<1>3. d.index # i => NoneOf(e, i)
  BY <1>2 DEF NoneOf
<1> QED
  BY <1>1, <1>3 DEF e

\* What the steps add to the events while the answer is streamed: announcing an
\* item, and a piece of one.
LEMMA TextEvents ==
  ASSUME NEW s \in Seq(ProxyEvents), Open(s), NEW item \in Int, NEW begins \in BOOLEAN,
         NEW p \in Seq(Nat), NEW delta \in BOOLEAN
  PROVE  LET t == s \o (IF begins THEN <<Event("added", item, 0, <<>>)>> ELSE <<>>)
                   \o (IF delta THEN <<Event("delta", item, 0, p)>> ELSE <<>>) IN
         /\ t \in Seq(ProxyEvents) /\ Open(t)
         /\ \A x : x # item \/ ~begins =>
              /\ Nowhere(s, "added", x) => Nowhere(t, "added", x)
              /\ Single(s, "added", x) => Single(t, "added", x)
         /\ begins /\ Nowhere(s, "added", item) => Single(t, "added", item)
<1> DEFINE a == IF begins THEN <<Event("added", item, 0, <<>>)>> ELSE <<>>
           b == IF delta THEN <<Event("delta", item, 0, p)>> ELSE <<>>
           u == s \o a
           t == u \o b
<1>1. /\ a \in Seq(ProxyEvents) /\ Elements(a) \subseteq {Event("added", item, 0, <<>>)}
      /\ begins => Single(a, "added", item)
      /\ \A x : x # item \/ ~begins => Nowhere(a, "added", x)
  <2>1. <<>> \in Seq(Nat) /\ "added" \in Kinds
    BY DEF Kinds
  <2>2. CASE begins
    <3> DEFINE e == <<Event("added", item, 0, <<>>)>>
    <3>1. /\ e \in Seq(ProxyEvents) /\ Elements(e) = {Event("added", item, 0, <<>>)}
          /\ Single(e, "added", item)
          /\ \A k, x : k # "added" \/ x # item => Nowhere(e, k, x)
      BY <2>1, OneEvent
    <3>2. a = e
      BY <2>2
    <3> HIDE DEF a, e
    <3> QED
      BY <2>2, <3>1, <3>2
  <2>3. CASE ~begins
    BY <2>3, NoEvent
  <2> QED
    BY <2>2, <2>3
<1>2. /\ b \in Seq(ProxyEvents) /\ Elements(b) \subseteq {Event("delta", item, 0, p)}
      /\ \A x : Nowhere(b, "added", x)
  <2>1. "delta" \in Kinds /\ "added" # "delta"
    BY DEF Kinds
  <2> QED
    BY <2>1, OneEvent, NoEvent
<1> HIDE DEF a, b
<1>3. u \in Seq(ProxyEvents) /\ Elements(u) = Elements(s) \cup Elements(a)
  BY <1>1, ElementsJoined
<1> HIDE DEF u
<1>4. t \in Seq(ProxyEvents) /\ Elements(t) = Elements(u) \cup Elements(b)
  BY <1>2, <1>3, ElementsJoined
<1>5. Open(t)
  <2>1. \A e \in Elements(a) \cup Elements(b) : e.kind \in {"added", "delta"}
    BY <1>1, <1>2 DEF Event
  <2> HIDE DEF t
  <2> QED
    BY <1>3, <1>4, <2>1, OpenIs
<1>6. ASSUME NEW x, x # item \/ ~begins
      PROVE  /\ Nowhere(s, "added", x) => Nowhere(t, "added", x)
             /\ Single(s, "added", x) => Single(t, "added", x)
  <2>1. /\ Nowhere(s, "added", x) => Nowhere(u, "added", x)
        /\ Single(s, "added", x) => Single(u, "added", x)
    BY <1>1, <1>6, SpotsJoined DEF u
  <2> QED
    BY <1>2, <1>3, <2>1, SpotsJoined
<1>7. ASSUME begins, Nowhere(s, "added", item) PROVE Single(t, "added", item)
  <2>1. Single(u, "added", item)
    BY <1>1, <1>7, SpotsJoined DEF u
  <2> QED
    BY <1>2, <1>3, <2>1, SpotsJoined
<1> HIDE DEF t
<1> QED
  BY <1>4, <1>5, <1>6, <1>7 DEF t, u, a, b

LEMMA CallType ==
  ASSUME StreamShape, NEW i \in Known
  PROVE  i \in Index /\ calls[i] # <<>> /\ calls[i][1] \in ToolCalls
BY DEF StreamShape, Known

\* A delta of another index leaves what is known of a call.
LEMMA NamedKept ==
  ASSUME deltas \in Seq(ChatDeltas), NEW d \in ChatDeltas, NEW i \in Known, Named(i),
         deltas' = Append(deltas, d), d.index # i, calls'[i] = calls[i]
  PROVE  Named(i)'
<1>1. PICK k \in 1..Len(deltas) :
        FirstIn(deltas, k, i) /\ (SteadyIn(deltas, i) => calls[i][1].item = NameOf(deltas[k]))
  BY DEF Named
<1>2. /\ SteadyIn(deltas', i) => SteadyIn(deltas, i)
      /\ FirstIn(deltas', k, i) /\ deltas'[k] = deltas[k]
  BY <1>1, DeltaAdds
<1>3. k \in 1..Len(deltas')
  BY <1>2 DEF FirstIn
<1> QED
  BY <1>1, <1>2, <1>3 DEF Named, NameOf

LEMMA ContentStep == ASSUME StreamInv, Content PROVE StreamInv'
<1> DEFINE d == [index |-> MaxIndex + 1, id |-> None, name |-> FALSE, args |-> TRUE]
           begins == text = <<>>
<1>0. MaxIndex \in Nat /\ \A i \in Index : i # MaxIndex + 1
  BY BoundAssumption DEF Index
<1>1. /\ phase = "stream" /\ phase' = "stream" /\ calls' = calls
      /\ StreamShape /\ Collected /\ Streaming /\ \A i \in Known : Named(i)
  BY DEF Content, StreamInv
<1>2. d \in ChatDeltas /\ deltas' = Append(deltas, d) /\ d.index = MaxIndex + 1 /\ d.args
  BY <1>0 DEF Content, ChatDeltas, None
<1>3. /\ deltas \in Seq(ChatDeltas) /\ Piece = Len(deltas) + 1 /\ Piece \in Nat
      /\ text = <<>> \/ (text = <<text[1]>> /\ text[1] \in Seq(Nat))
  BY <1>1 DEF StreamShape, Piece
<1> DEFINE old == IF begins THEN <<>> ELSE text[1]
           new == Append(old, Piece)
<1>4. old \in Seq(Nat) /\ new \in Seq(Nat) /\ text' = <<new>>
  <2>1. CASE begins
    <3>1. text' = <<<<Piece>>>> /\ old = <<>>
      BY <2>1 DEF Content
    <3>2. Append(<<>>, Piece) = <<Piece>> /\ <<Piece>> \in Seq(Nat) /\ <<>> \in Seq(Nat)
      BY <1>3
    <3> QED
      BY <3>1, <3>2
  <2>2. CASE ~begins
    <3>1. text' = <<Append(text[1], Piece)>> /\ old = text[1]
      BY <2>2 DEF Content
    <3> QED
      BY <1>3, <2>2, <3>1
  <2> QED
    BY <2>1, <2>2
<1> HIDE DEF d
<1>5. WholeIn(deltas', new, MaxIndex + 1)
  <2>1. WholeIn(deltas, old, MaxIndex + 1)
    BY <1>1, <1>2, <1>3, NonePlus DEF Collected
  <2> HIDE DEF old
  <2> QED
    BY <1>2, <1>3, <1>4, <2>1, WholeGrows
<1> HIDE DEF new, old
<1>6. StreamShape'
  <2>1. deltas' \in Seq(ChatDeltas)
    BY <1>2, <1>3
  <2>2. text' \in {<<>>} \cup {<<p>> : p \in Seq(Nat)}
    BY <1>4
  <2>3. calls' \in [Index -> {<<>>} \cup {<<c>> : c \in ToolCalls}]
    BY <1>1 DEF StreamShape
  <2> QED
    BY <2>1, <2>2, <2>3 DEF StreamShape
<1>7. Collected'
  <2>1. ASSUME NEW i \in Index
        PROVE  IF calls[i] = <<>> THEN NoneOf(deltas', i) ELSE WholeIn(deltas', calls[i][1].pieces, i)
    <3>1. d.index # i
      BY <1>0, <1>2
    <3>2. CASE calls[i] = <<>>
      BY <1>1, <1>2, <1>3, <3>1, <3>2, NonePlus DEF Collected
    <3>3. CASE calls[i] # <<>>
      <4>1. calls[i][1].pieces \in Seq(Nat)
        BY <1>1, <3>3, CallType DEF Known, ToolCalls
      <4>2. WholeIn(deltas, calls[i][1].pieces, i)
        BY <1>1, <3>3 DEF Collected
      <4> QED
        BY <1>2, <1>3, <3>1, <3>3, <4>1, <4>2, WholeGrows
    <3> QED
      BY <3>2, <3>3
  <2>2. text' # <<>> /\ text'[1] = new
    BY <1>4
  <2> QED
    BY <1>1, <1>5, <2>1, <2>2 DEF Collected
<1>8. Known' = Known
  BY <1>1 DEF Known
<1>9. \A i \in Known' : Named(i)'
  <2> SUFFICES ASSUME NEW i \in Known PROVE Named(i)'
    BY <1>8
  <2>1. d.index # i
    BY <1>0, <1>2 DEF Known
  <2> QED
    BY <1>1, <1>2, <1>3, <2>1, NamedKept
<1>10. /\ events' \in Seq(ProxyEvents) /\ Open(events')
       /\ \A x : x # MessageItem \/ ~begins =>
            /\ Nowhere(events, "added", x) => Nowhere(events', "added", x)
            /\ Single(events, "added", x) => Single(events', "added", x)
       /\ begins /\ Nowhere(events, "added", MessageItem) => Single(events', "added", MessageItem)
  <2>1. events \in Seq(ProxyEvents) /\ Open(events) /\ MessageItem \in Int /\ <<Piece>> \in Seq(Nat)
    BY <1>1, <1>3, NamesDiffer DEF Streaming
  <2>2. events' = events \o (IF begins THEN <<Event("added", MessageItem, 0, <<>>)>> ELSE <<>>)
                         \o (IF TRUE THEN <<Event("delta", MessageItem, 0, <<Piece>>)>> ELSE <<>>)
    BY DEF Content
  <2> HIDE DEF begins
  <2> DEFINE b == begins = TRUE
  <2> QED
    BY <2>1, <2>2, TextEvents
<1>11. TextAnnounced'
  <2>1. text' # <<>>
    BY <1>4
  <2>2. Single(events', "added", MessageItem)
    BY <1>1, <1>10 DEF Streaming, TextAnnounced
  <2> QED
    BY <2>1, <2>2 DEF TextAnnounced
<1>12. ASSUME NEW i \in Index PROVE CallAnnounced(i)'
  <2>1. Started(i)' <=> Started(i)
    BY <1>1 DEF Started
  <2>2. SteadyIn(deltas', i) => SteadyIn(deltas, i)
    BY <1>2, <1>3, DeltaAdds
  <2>3. \A x \in Names(i) : x # MessageItem
    BY NamesDiffer
  <2>4. ASSUME ~Started(i) PROVE \A x \in Names(i) : Nowhere(events', "added", x)
    BY <1>1, <1>10, <2>3, <2>4 DEF Streaming, CallAnnounced
  <2>5. ASSUME Started(i), SteadyIn(deltas, i) PROVE Single(events', "added", calls[i][1].item)
    <3>1. calls[i][1].item \in Names(i)
      BY <1>1, <2>5 DEF Started, Known, Named
    <3> QED
      BY <1>1, <1>10, <2>3, <2>5, <3>1 DEF Streaming, CallAnnounced
  <2> QED
    BY <1>1, <2>1, <2>2, <2>4, <2>5 DEF CallAnnounced, Names, Generated
<1> QED
  BY <1>1, <1>6, <1>7, <1>9, <1>10, <1>11, <1>12 DEF StreamInv, Streaming, Open

LEMMA FragmentStep == ASSUME StreamInv, NEW d \in Fragments, Fragment(d) PROVE StreamInv'
<1> DEFINE i0 == d.index
           old == IF calls[i0] = <<>> THEN NewCall(d) ELSE calls[i0][1]
           new == Merge(old, d)
           begins == new.named /\ ~old.started
<1>1. /\ phase = "stream" /\ phase' = "stream" /\ text' = text
      /\ StreamShape /\ Collected /\ Streaming /\ \A i \in Known : Named(i)
      /\ deltas' = Append(deltas, d) /\ calls' = [calls EXCEPT ![i0] = <<new>>]
  BY DEF Fragment, StreamInv
<1>2. /\ i0 \in Index /\ d \in ChatDeltas /\ d.name \in BOOLEAN /\ d.args \in BOOLEAN
      /\ d.id \in Nat /\ (d.id # None => d.id \in Names(i0))
      /\ i0 # MaxIndex + 1 /\ i0 \in Nat
  BY BoundAssumption DEF Fragments, ChatDeltas, Index, Names
<1>3. deltas \in Seq(ChatDeltas) /\ Piece = Len(deltas) + 1 /\ Piece \in Nat
  BY <1>1 DEF StreamShape, Piece
<1>4. /\ old \in ToolCalls /\ old.item \in Names(i0) /\ old.started = old.named
      /\ WholeIn(deltas, old.pieces, i0) /\ (old.started <=> Started(i0))
  <2>1. CASE calls[i0] = <<>>
    <3>1. /\ old = NewCall(d) /\ old.pieces = <<>> /\ old.item = NameOf(d) /\ old.id = d.id
          /\ old.named = FALSE /\ old.started = FALSE
      BY <2>1 DEF NewCall, NameOf
    <3>2. NameOf(d) \in Names(i0) /\ NameOf(d) \in Int
      BY <1>2 DEF NameOf, Names, Generated
    <3>3. NewCall(d) \in ToolCalls
      <4>1. <<>> \in Seq(Nat)
        OBVIOUS
      <4> QED
        BY <1>2, <3>2, <4>1 DEF NewCall, ToolCalls, NameOf
    <3>4. WholeIn(deltas, <<>>, i0)
      BY <1>1, <1>2, <1>3, <2>1, NonePlus DEF Collected
    <3> HIDE DEF old
    <3> QED
      BY <2>1, <3>1, <3>2, <3>3, <3>4 DEF Started
  <2>2. CASE calls[i0] # <<>>
    <3>1. i0 \in Known /\ old = calls[i0][1] /\ old \in ToolCalls
      BY <1>1, <1>2, <2>2, CallType DEF Known
    <3>2. Named(i0) /\ WholeIn(deltas, old.pieces, i0)
      BY <1>1, <1>2, <2>2, <3>1 DEF Collected
    <3> HIDE DEF old
    <3> QED
      BY <2>2, <3>1, <3>2 DEF Named, Started
  <2> QED
    BY <2>1, <2>2
<1>5. /\ new \in ToolCalls /\ new.item \in Names(i0) /\ new.started = new.named
      /\ new.named = (old.named \/ d.name)
      /\ new.item = IF d.id # None THEN d.id ELSE old.item
      /\ new.pieces = IF d.args THEN Append(old.pieces, Piece) ELSE old.pieces
  <2> HIDE DEF old
  <2>1. /\ old.id \in Nat /\ old.item \in Int /\ old.named \in BOOLEAN /\ old.started \in BOOLEAN
        /\ old.pieces \in Seq(Nat)
    BY <1>4 DEF ToolCalls
  <2>2. Append(old.pieces, Piece) \in Seq(Nat)
    BY <1>3, <2>1
  <2>3. /\ new.id = (IF d.id # None THEN d.id ELSE old.id)
        /\ new.item = (IF d.id # None THEN d.id ELSE old.item)
        /\ new.named = (old.named \/ d.name) /\ new.started = (old.named \/ d.name)
        /\ new.pieces = (IF d.args THEN Append(old.pieces, Piece) ELSE old.pieces)
    BY DEF Merge
  <2>4. new \in ToolCalls
    BY <1>2, <2>1, <2>2 DEF Merge, ToolCalls
  <2> HIDE DEF new
  <2> QED
    BY <1>2, <1>4, <2>3, <2>4
<1>6. events' = events \o (IF begins THEN <<Event("added", new.item, 0, <<>>)>> ELSE <<>>)
                       \o (IF d.args THEN <<Event("delta", new.item, 0, <<Piece>>)>> ELSE <<>>)
  BY DEF Fragment
<1>7. calls[i0] = <<>> => old.item = NameOf(d)
  BY DEF NewCall, NameOf
<1>8. calls[i0] # <<>> => old = calls[i0][1]
  OBVIOUS
<1> HIDE DEF old, new
<1>9. /\ begins \in BOOLEAN /\ d.args \in BOOLEAN /\ new.item \in Int
      /\ new.started \in BOOLEAN /\ old.started \in BOOLEAN
  BY <1>2, <1>4, <1>5 DEF ToolCalls
<1>10. /\ \A i \in Index : i # i0 => calls'[i] = calls[i]
       /\ calls'[i0] = <<new>> /\ calls'[i0][1] = new /\ calls'[i0] # <<>>
  BY <1>1, <1>2 DEF StreamShape
<1>11. StreamShape'
  <2>1. deltas' \in Seq(ChatDeltas)
    BY <1>1, <1>2, <1>3
  <2>2. calls' \in [Index -> {<<>>} \cup {<<c>> : c \in ToolCalls}]
    BY <1>1, <1>2, <1>5 DEF StreamShape
  <2> QED
    BY <1>1, <2>1, <2>2 DEF StreamShape
<1>12. Collected'
  <2>1. WholeIn(deltas', new.pieces, i0)
    <3>1. old.pieces \in Seq(Nat)
      BY <1>4 DEF ToolCalls
    <3> QED
      <4>1. CASE d.args
        BY <1>1, <1>2, <1>3, <1>4, <1>5, <3>1, <4>1, WholeGrows
      <4>2. CASE ~d.args
        BY <1>1, <1>2, <1>3, <1>4, <1>5, <3>1, <4>2, WholeGrows
      <4> QED
        BY <4>1, <4>2
  <2>2. ASSUME NEW i \in Index, i # i0
        PROVE  IF calls[i] = <<>> THEN NoneOf(deltas', i) ELSE WholeIn(deltas', calls[i][1].pieces, i)
    <3>1. CASE calls[i] = <<>>
      BY <1>1, <1>2, <1>3, <2>2, <3>1, NonePlus DEF Collected
    <3>2. CASE calls[i] # <<>>
      <4>1. calls[i][1].pieces \in Seq(Nat)
        BY <1>1, <3>2, CallType DEF Known, ToolCalls
      <4>2. WholeIn(deltas, calls[i][1].pieces, i)
        BY <1>1, <3>2 DEF Collected
      <4> QED
        BY <1>1, <1>2, <1>3, <2>2, <3>2, <4>1, <4>2, WholeGrows
    <3> QED
      BY <3>1, <3>2
  <2>3. IF text = <<>> THEN NoneOf(deltas', MaxIndex + 1) ELSE WholeIn(deltas', text[1], MaxIndex + 1)
    <3>1. CASE text = <<>>
      BY <1>1, <1>2, <1>3, <3>1, NonePlus DEF Collected
    <3>2. CASE text # <<>>
      <4>1. text[1] \in Seq(Nat) /\ WholeIn(deltas, text[1], MaxIndex + 1)
        BY <1>1, <3>2 DEF StreamShape, Collected
      <4> QED
        BY <1>1, <1>2, <1>3, <3>2, <4>1, WholeGrows
    <3> QED
      BY <3>1, <3>2
  <2>4. ASSUME NEW i \in Index
        PROVE  IF calls'[i] = <<>> THEN NoneOf(deltas', i) ELSE WholeIn(deltas', calls'[i][1].pieces, i)
    <3>1. CASE i = i0
      BY <1>10, <2>1, <3>1
    <3>2. CASE i # i0
      BY <1>10, <2>2, <3>2
    <3> QED
      BY <3>1, <3>2
  <2> QED
    BY <1>1, <2>3, <2>4 DEF Collected
\* While the id of the call does not change, its item does not.
<1>13. calls[i0] # <<>> /\ SteadyIn(deltas', i0) => SteadyIn(deltas, i0) /\ new.item = calls[i0][1].item
  <2> SUFFICES ASSUME calls[i0] # <<>>, SteadyIn(deltas', i0)
               PROVE  SteadyIn(deltas, i0) /\ new.item = calls[i0][1].item
    OBVIOUS
  <2>1. i0 \in Known
    BY <1>2 DEF Known
  <2>2. PICK k \in 1..Len(deltas) :
          FirstIn(deltas, k, i0) /\ (SteadyIn(deltas, i0) => calls[i0][1].item = NameOf(deltas[k]))
    BY <1>1, <2>1 DEF Named
  <2>3. SteadyIn(deltas, i0) /\ (d.id # None => d.id = deltas[k].id)
    BY <1>1, <1>2, <1>3, <2>2, DeltaAdds
  <2> QED
    BY <1>5, <1>8, <2>2, <2>3 DEF NameOf
<1>14. Known' = Known \cup {i0}
  BY <1>2, <1>10 DEF Known
<1>15. ASSUME NEW i \in Known' PROVE Named(i)'
  <2>1. CASE i # i0
    <3>1. i \in Known /\ calls'[i] = calls[i]
      BY <1>10, <1>14, <2>1 DEF Known
    <3> QED
      BY <1>1, <1>2, <1>3, <2>1, <3>1, NamedKept
  <2>2. CASE i = i0
    <3>1. \E k \in 1..Len(deltas') :
            FirstIn(deltas', k, i0) /\ (SteadyIn(deltas', i0) => new.item = NameOf(deltas'[k]))
      <4>1. CASE calls[i0] = <<>>
        <5>1. FirstIn(deltas', Len(deltas) + 1, i0) /\ deltas'[Len(deltas) + 1] = d
          BY <1>1, <1>2, <1>3, <4>1, DeltaAdds DEF Collected
        <5>2. new.item = NameOf(d)
          BY <1>5, <1>7, <4>1 DEF NameOf
        <5> QED
          BY <5>1, <5>2 DEF FirstIn
      <4>2. CASE calls[i0] # <<>>
        <5>1. i0 \in Known
          BY <1>2, <4>2 DEF Known
        <5>2. PICK k \in 1..Len(deltas) :
                FirstIn(deltas, k, i0) /\ (SteadyIn(deltas, i0) => calls[i0][1].item = NameOf(deltas[k]))
          BY <1>1, <5>1 DEF Named
        <5>3. FirstIn(deltas', k, i0) /\ deltas'[k] = deltas[k]
          BY <1>1, <1>2, <1>3, <5>2, DeltaAdds
        <5> QED
          BY <1>13, <4>2, <5>2, <5>3 DEF FirstIn
      <4> QED
        BY <4>1, <4>2
    <3> QED
      BY <1>5, <1>10, <2>2, <3>1 DEF Named, Names, Generated
  <2> QED
    BY <2>1, <2>2
<1>16. /\ events' \in Seq(ProxyEvents) /\ Open(events')
       /\ \A x : x # new.item \/ ~begins =>
            /\ Nowhere(events, "added", x) => Nowhere(events', "added", x)
            /\ Single(events, "added", x) => Single(events', "added", x)
       /\ begins /\ Nowhere(events, "added", new.item) => Single(events', "added", new.item)
  <2>1. events \in Seq(ProxyEvents) /\ Open(events) /\ <<Piece>> \in Seq(Nat)
    BY <1>1, <1>3 DEF Streaming
  <2> HIDE DEF begins
  <2> QED
    BY <1>6, <1>9, <2>1, TextEvents
<1>17. TextAnnounced'
  <2>1. new.item # MessageItem
    BY <1>2, <1>5, NamesDiffer
  <2>2. TextAnnounced
    BY <1>1 DEF Streaming
  <2> QED
    BY <1>1, <1>16, <2>1, <2>2 DEF TextAnnounced, MessageItem
<1>18. ASSUME NEW i \in Index, i # i0 PROVE CallAnnounced(i)'
  <2>1. CallAnnounced(i) /\ (Started(i)' <=> Started(i)) /\ calls'[i] = calls[i]
    BY <1>1, <1>10, <1>18 DEF Started, Streaming
  <2>2. SteadyIn(deltas', i) => SteadyIn(deltas, i)
    BY <1>1, <1>2, <1>3, DeltaAdds
  <2>3. \A x \in Names(i) : x # new.item
    BY <1>2, <1>5, <1>18, NamesDiffer
  <2>4. ASSUME ~Started(i) PROVE \A x \in Names(i) : Nowhere(events', "added", x)
    BY <1>16, <2>1, <2>3, <2>4 DEF CallAnnounced
  <2>5. ASSUME Started(i), SteadyIn(deltas, i) PROVE Single(events', "added", calls[i][1].item)
    <3>1. calls[i][1].item \in Names(i)
      BY <1>1, <2>5 DEF Started, Known, Named
    <3> QED
      BY <1>16, <2>1, <2>3, <2>5, <3>1 DEF CallAnnounced
  <2> QED
    BY <2>1, <2>2, <2>4, <2>5 DEF CallAnnounced, Names, Generated
<1>19. CallAnnounced(i0)'
  <2>0. CallAnnounced(i0) /\ (Started(i0)' <=> new.started)
    BY <1>1, <1>2, <1>10 DEF Streaming, Started
  <2>1. ASSUME ~new.started PROVE \A x \in Names(i0) : Nowhere(events', "added", x)
    <3>1. ~begins /\ ~Started(i0)
      BY <1>4, <1>5, <1>9, <2>1
    <3> QED
      BY <1>16, <2>0, <3>1 DEF CallAnnounced
  <2>2. ASSUME new.started, SteadyIn(deltas', i0) PROVE Single(events', "added", new.item)
    <3>1. CASE Started(i0)
      <4>1. SteadyIn(deltas, i0) /\ new.item = calls[i0][1].item /\ ~begins
        BY <1>4, <1>13, <2>2, <3>1 DEF Started
      <4> QED
        BY <1>16, <2>0, <3>1, <4>1 DEF CallAnnounced
    <3>2. CASE ~Started(i0)
      <4>1. begins
        BY <1>4, <1>5, <2>2, <3>2
      <4> QED
        BY <1>5, <1>16, <2>0, <3>2, <4>1 DEF CallAnnounced
    <3> QED
      BY <3>1, <3>2
  <2> QED
    BY <1>10, <2>0, <2>1, <2>2 DEF CallAnnounced, Names, Generated
<1> QED
  BY <1>1, <1>11, <1>12, <1>15, <1>16, <1>17, <1>18, <1>19 DEF StreamInv, Streaming, Open

-----------------------------------------------------------------------------
(* The end of the stream.                                                   *)

\* s closes one item: all its events are of the item and the index, one of each
\* kind, and what the last one holds is the item's; announced or not before.
Closes(s, item, index, pieces, begins) ==
  /\ s \in Seq(ProxyEvents)
  /\ Single(s, "done", item) /\ Single(s, "item", item)
  /\ IF begins THEN Single(s, "added", item) ELSE Nowhere(s, "added", item)
  /\ \A kind, x : x # item => Nowhere(s, kind, x)
  /\ \A e \in Elements(s) : e.kind = "item" => e.index = index /\ e.pieces = pieces
  /\ \E e \in Elements(s) : e.kind = "item" /\ e.index = index

LEMMA ClosingCloses ==
  ASSUME NEW item \in Int, NEW index \in Nat, NEW pieces \in Seq(Nat)
  PROVE  Closes(Closing(item, index, pieces), item, index, pieces, FALSE)
<1> DEFINE s == Closing(item, index, pieces)
           d == Event("done", item, index, pieces)
           e == Event("item", item, index, pieces)
<1>1. /\ d \in ProxyEvents /\ d.kind = "done" /\ d.item = item
      /\ e \in ProxyEvents /\ e.kind = "item" /\ e.item = item /\ e.index = index /\ e.pieces = pieces
  BY DEF Event, ProxyEvents, Kinds
<1>2. s = <<d, e>>
  BY DEF Closing
<1> HIDE DEF s, d, e
<1>3. /\ s \in Seq(ProxyEvents) /\ Len(s) = 2 /\ s[1] = d /\ s[2] = e
      /\ 1 \in 1..Len(s) /\ 2 \in 1..Len(s) /\ \A m \in 1..Len(s) : m = 1 \/ m = 2
  BY <1>1, <1>2
<1>4. Single(s, "done", item) /\ Single(s, "item", item)
  BY <1>1, <1>3 DEF Single
<1>5. Nowhere(s, "added", item) /\ \A kind, x : x # item => Nowhere(s, kind, x)
  BY <1>1, <1>3 DEF Nowhere
<1>6. Elements(s) = {d, e}
  BY <1>3 DEF Elements
<1> QED
  BY <1>1, <1>3, <1>4, <1>5, <1>6 DEF Closes, s

LEMMA CallCloses ==
  ASSUME NEW c \in ToolCalls, NEW index \in Nat
  PROVE  Closes(CallEvents(c, index), c.item, index, c.pieces, ~c.started)
<1> DEFINE a == IF c.started THEN <<>> ELSE <<Event("added", c.item, index, <<>>)>>
           b == Closing(c.item, index, c.pieces)
           s == a \o b
<1>1. c.item \in Int /\ c.pieces \in Seq(Nat) /\ c.started \in BOOLEAN
  BY DEF ToolCalls
<1>2. Closes(b, c.item, index, c.pieces, FALSE)
  BY <1>1, ClosingCloses
<1>3. /\ a \in Seq(ProxyEvents) /\ \A e \in Elements(a) : e.kind # "item"
      /\ \A kind, x : kind # "added" \/ x # c.item => Nowhere(a, kind, x)
      /\ IF c.started THEN Nowhere(a, "added", c.item) ELSE Single(a, "added", c.item)
  <2>1. <<>> \in Seq(Nat) /\ "added" \in Kinds
    BY DEF Kinds
  <2> DEFINE one == <<Event("added", c.item, index, <<>>)>>
  <2>2. /\ one \in Seq(ProxyEvents) /\ Elements(one) = {Event("added", c.item, index, <<>>)}
        /\ Single(one, "added", c.item)
        /\ \A k, x : k # "added" \/ x # c.item => Nowhere(one, k, x)
    BY <1>1, <2>1, OneEvent
  <2>3. Event("added", c.item, index, <<>>).kind = "added"
    BY DEF Event
  <2>4. CASE c.started
    <3>1. a = <<>>
      BY <2>4
    <3> HIDE DEF a
    <3> QED
      BY <2>4, <3>1, NoEvent
  <2>5. CASE ~c.started
    <3>1. a = one
      BY <2>5
    <3> HIDE DEF a, one
    <3> QED
      BY <2>2, <2>3, <2>5, <3>1
  <2> QED
    BY <2>4, <2>5
<1> HIDE DEF a, b
<1>4. s = CallEvents(c, index)
  BY DEF CallEvents, a, b
<1>5. s \in Seq(ProxyEvents) /\ Elements(s) = Elements(a) \cup Elements(b)
  <2>1. b \in Seq(ProxyEvents)
    BY <1>2 DEF Closes
  <2> QED
    BY <1>3, <2>1, ElementsJoined, ConcatFacts
<1>6. b \in Seq(ProxyEvents) /\ a \in Seq(ProxyEvents)
  BY <1>2, <1>3 DEF Closes
<1>7. Single(s, "done", c.item) /\ Single(s, "item", c.item)
  BY <1>2, <1>3, <1>6, SpotsJoined DEF Closes
<1>8. IF ~c.started THEN Single(s, "added", c.item) ELSE Nowhere(s, "added", c.item)
  BY <1>2, <1>3, <1>6, SpotsJoined DEF Closes
<1>9. \A kind, x : x # c.item => Nowhere(s, kind, x)
  BY <1>2, <1>3, <1>6, SpotsJoined DEF Closes
<1> HIDE DEF s
<1>10. Closes(s, c.item, index, c.pieces, ~c.started)
  BY <1>2, <1>3, <1>5, <1>7, <1>8, <1>9 DEF Closes
<1> QED
  BY <1>4, <1>10

OnceIn(s, item) ==
  \A kind \in {"added", "done", "item"} :
    \E k \in DOMAIN s : {m \in DOMAIN s : s[m].kind = kind /\ s[m].item = item} = {k}

LEMMA OnceIs ==
  ASSUME NEW s \in Seq(ProxyEvents), NEW item,
         Single(s, "added", item), Single(s, "done", item), Single(s, "item", item)
  PROVE  OnceIn(s, item)
<1>1. DOMAIN s = 1..Len(s)
  OBVIOUS
<1>2. ASSUME NEW kind, Single(s, kind, item)
      PROVE  \E k \in DOMAIN s : {m \in DOMAIN s : s[m].kind = kind /\ s[m].item = item} = {k}
  <2>1. PICK k \in 1..Len(s) : \A m \in 1..Len(s) : s[m].kind = kind /\ s[m].item = item <=> m = k
    BY <1>2 DEF Single
  <2>2. {m \in DOMAIN s : s[m].kind = kind /\ s[m].item = item} = {k}
    BY <1>1, <2>1
  <2> QED
    BY <1>1, <2>2
<1> QED
  BY <1>2 DEF OnceIn

LEMMA WholeIs ==
  ASSUME NEW ds \in Seq(ChatDeltas), NEW pieces \in Seq(Nat), NEW i, WholeIn(ds, pieces, i)
  PROVE  /\ Ascending(pieces)
         /\ {pieces[k] : k \in DOMAIN pieces} = {k \in DOMAIN ds : ds[k].index = i /\ ds[k].args}
<1>1. DOMAIN ds = 1..Len(ds) /\ DOMAIN pieces = 1..Len(pieces)
  OBVIOUS
<1> QED
  BY <1>1 DEF WholeIn

\* The events of the end: those before, the message's, the calls', the last.
MessageBlock == IF text = <<>> THEN <<>> ELSE Closing(MessageItem, 0, text[1])
CallBlocks ==
  [k \in 1..Len(OrderedCalls) |-> CallEvents(calls[OrderedCalls[k]][1], AfterMessage + k - 1)]
Ending == events \o MessageBlock \o FlattenSeq(CallBlocks) \o <<Event("completed", None, 0, <<>>)>>

\* Every item is closed once, and with what it has, at its index.
EndsWell(e, s) ==
  /\ e \in Seq(ProxyEvents)
  /\ text # <<>> => OnceIn(e, MessageItem)
  /\ Contiguous => \A i \in Known : SteadyIn(deltas, i) => OnceIn(e, calls[i][1].item)
  /\ \A x \in Elements(e) : x.kind = "item" =>
       \/ text # <<>> /\ x.index = 0 /\ x.pieces = text[1]
       \/ \E k \in 1..Len(s) : x.index = AfterMessage + k - 1 /\ x.pieces = calls[s[k]][1].pieces
  /\ text # <<>> => \E x \in Elements(e) : x.kind = "item" /\ x.index = 0
  /\ \A k \in 1..Len(s) : \E x \in Elements(e) : x.kind = "item" /\ x.index = AfterMessage + k - 1

LEMMA Ends == ASSUME StreamInv, phase = "stream" PROVE EndsWell(Ending, OrderedCalls)
<1> DEFINE s == OrderedCalls
           M == MessageBlock
           ss == CallBlocks
           e == Ending
<1>0. /\ M = (IF text = <<>> THEN <<>> ELSE Closing(MessageItem, 0, text[1]))
      /\ ss = [k \in 1..Len(s) |-> CallEvents(calls[s[k]][1], AfterMessage + k - 1)]
      /\ e = events \o M \o FlattenSeq(ss) \o <<Event("completed", None, 0, <<>>)>>
  BY DEF MessageBlock, CallBlocks, Ending
<1> DEFINE n == Len(s)
           F == FlattenSeq(ss)
           C == <<Event("completed", None, 0, <<>>)>>
           e1 == events \o M
           e2 == e1 \o F
           item(i) == calls[i][1].item
<1>1. StreamShape /\ Streaming /\ (\A i \in Known : Named(i)) /\ events \in Seq(ProxyEvents)
  BY DEF StreamInv, Streaming
<1>2. /\ s \in Seq(Known) /\ \A p, q \in 1..n : p < q => s[p] < s[q]
      /\ Contiguous => \A i \in Known : \E p \in 1..n : s[p] = i
  BY OrderedFacts DEF Ordered
<1>3. n \in Nat /\ \A k \in 1..n : s[k] \in Known
  BY <1>2
<1>4. AfterMessage \in {0, 1} /\ \A k \in 1..n : AfterMessage + k - 1 \in Nat
  BY <1>3 DEF AfterMessage
<1>5. ASSUME NEW i \in Known
      PROVE  i \in Index /\ i \in Nat /\ calls[i][1] \in ToolCalls /\ item(i) \in Names(i) /\ item(i) # MessageItem
  BY <1>1, CallType, NamesDiffer DEF Named, Index
<1>6. \A i, j \in Known : i # j => item(i) # item(j)
  BY <1>5, NamesDiffer
<1>7. ASSUME NEW k \in 1..n
      PROVE  Closes(ss[k], item(s[k]), AfterMessage + k - 1, calls[s[k]][1].pieces, ~calls[s[k]][1].started)
  <2>1. calls[s[k]][1] \in ToolCalls /\ AfterMessage + k - 1 \in Nat
    BY <1>3, <1>4, <1>5
  <2>2. ss[k] = CallEvents(calls[s[k]][1], AfterMessage + k - 1)
    BY <1>0
  <2> QED
    BY <2>1, <2>2, CallCloses
<1>8. ss \in [1..n -> Seq(ProxyEvents)]
  BY <1>0, <1>7 DEF Closes
<1>9. /\ M \in Seq(ProxyEvents)
      /\ text = <<>> => M = <<>>
      /\ text # <<>> => Closes(M, MessageItem, 0, text[1], FALSE)
  <2>1. CASE text = <<>>
    BY <1>0, <2>1, NoEvent
  <2>2. CASE text # <<>>
    <3>1. text[1] \in Seq(Nat) /\ MessageItem \in Int
      BY <1>1, <2>2, NamesDiffer DEF StreamShape
    <3>2. Closes(M, MessageItem, 0, text[1], FALSE)
      BY <1>0, <2>2, <3>1, ClosingCloses
    <3> QED
      BY <2>2, <3>2 DEF Closes
  <2> QED
    BY <2>1, <2>2
<1>10. \A x, kind : x # MessageItem => Nowhere(M, kind, x)
  BY <1>9, NoEvent DEF Closes
<1> HIDE DEF n, item, s, M, ss, e
<1>11. /\ C \in Seq(ProxyEvents) /\ Elements(C) = {Event("completed", None, 0, <<>>)}
       /\ \A kind, x : kind # "completed" => Nowhere(C, kind, x)
  <2>1. "completed" \in Kinds /\ None \in Int /\ <<>> \in Seq(Nat)
    BY DEF Kinds, None
  <2> QED
    BY <2>1, OneEvent
<1>12. /\ F \in Seq(ProxyEvents) /\ Elements(F) = UNION {Elements(ss[b]) : b \in 1..n}
  BY <1>3, <1>8, ElementsFlattened
<1>13. ASSUME NEW kind, NEW x, \A k \in 1..n : x # item(s[k]) PROVE Nowhere(F, kind, x)
  <2>1. \A k \in 1..n : Nowhere(ss[k], kind, x)
    BY <1>7, <1>13 DEF Closes
  <2> QED
    BY <1>3, <1>8, <2>1, SpotsFlattened
<1>14. ASSUME NEW b \in 1..n
       PROVE  /\ Single(F, "done", item(s[b])) /\ Single(F, "item", item(s[b]))
              /\ IF calls[s[b]][1].started THEN Nowhere(F, "added", item(s[b]))
                 ELSE Single(F, "added", item(s[b]))
  <2>1. Closes(ss[b], item(s[b]), AfterMessage + b - 1, calls[s[b]][1].pieces, ~calls[s[b]][1].started)
    BY <1>7
  <2>2. ASSUME NEW kind, NEW k \in 1..n, k # b PROVE Nowhere(ss[k], kind, item(s[b]))
    <3>1. s[k] # s[b]
      <4>1. k \in Nat /\ b \in Nat /\ s[k] \in Nat /\ s[b] \in Nat
        BY <1>3, <1>5
      <4>2. k < b => s[k] < s[b]
        BY <1>2
      <4>3. b < k => s[b] < s[k]
        BY <1>2
      <4> QED
        BY <2>2, <4>1, <4>2, <4>3
    <3>2. item(s[k]) # item(s[b])
      BY <1>3, <1>6, <3>1
    <3> QED
      BY <1>7, <3>2 DEF Closes
  <2>3. Single(F, "done", item(s[b])) /\ Single(F, "item", item(s[b]))
    BY <1>3, <1>8, <2>1, <2>2, SpotsFlattened DEF Closes
  <2>4. CASE calls[s[b]][1].started
    <3>1. \A k \in 1..n : Nowhere(ss[k], "added", item(s[b]))
      BY <2>1, <2>2, <2>4 DEF Closes
    <3> QED
      BY <1>3, <1>8, <2>3, <2>4, <3>1, SpotsFlattened
  <2>5. CASE ~calls[s[b]][1].started
    BY <1>3, <1>8, <2>1, <2>2, <2>3, <2>5, SpotsFlattened DEF Closes
  <2> QED
    BY <2>4, <2>5
<1> HIDE DEF F, C
<1>15. e1 \in Seq(ProxyEvents) /\ e2 \in Seq(ProxyEvents) /\ e = e2 \o C /\ e \in Seq(ProxyEvents)
  <2>1. e1 \in Seq(ProxyEvents)
    BY <1>1, <1>9, ConcatFacts
  <2>2. e2 \in Seq(ProxyEvents)
    BY <1>12, <2>1, ConcatFacts
  <2>3. e = e2 \o C
    BY <1>0 DEF F, C
  <2> QED
    BY <1>11, <2>1, <2>2, <2>3, ConcatFacts
<1>16. Elements(e) = ((Elements(events) \cup Elements(M)) \cup Elements(F)) \cup Elements(C)
  <2>1. Elements(e1) = Elements(events) \cup Elements(M)
    BY <1>1, <1>9, ElementsJoined
  <2> HIDE DEF e1
  <2>2. Elements(e2) = Elements(e1) \cup Elements(F)
    BY <1>12, <1>15, ElementsJoined
  <2> HIDE DEF e2
  <2>3. Elements(e) = Elements(e2) \cup Elements(C)
    BY <1>11, <1>15, ElementsJoined
  <2> QED
    BY <2>1, <2>2, <2>3
\* Three ways an event is the only one of its kind and item.
<1>17. ASSUME NEW kind, NEW x, kind # "completed"
       PROVE  /\ Single(events, kind, x) /\ Nowhere(M, kind, x) /\ Nowhere(F, kind, x) => Single(e, kind, x)
              /\ Nowhere(events, kind, x) /\ Single(M, kind, x) /\ Nowhere(F, kind, x) => Single(e, kind, x)
              /\ Nowhere(events, kind, x) /\ Nowhere(M, kind, x) /\ Single(F, kind, x) => Single(e, kind, x)
  <2>1. Nowhere(C, kind, x)
    BY <1>11, <1>17
  <2>2. Single(e2, kind, x) => Single(e, kind, x)
    BY <1>11, <1>15, <2>1, SpotsJoined
  <2> HIDE DEF e2
  <2>3. /\ Single(e1, kind, x) /\ Nowhere(F, kind, x) => Single(e2, kind, x)
        /\ Nowhere(e1, kind, x) /\ Single(F, kind, x) => Single(e2, kind, x)
    BY <1>12, <1>15, SpotsJoined DEF e2
  <2> HIDE DEF e1
  <2>4. /\ Single(events, kind, x) /\ Nowhere(M, kind, x) => Single(e1, kind, x)
        /\ Nowhere(events, kind, x) /\ Single(M, kind, x) => Single(e1, kind, x)
        /\ Nowhere(events, kind, x) /\ Nowhere(M, kind, x) => Nowhere(e1, kind, x)
    BY <1>1, <1>9, SpotsJoined DEF e1
  <2> QED
    BY <2>2, <2>3, <2>4
<1> HIDE DEF e1, e2
<1>18. \A x : Nowhere(events, "done", x) /\ Nowhere(events, "item", x)
  BY <1>1 DEF Streaming, Open, Nowhere
<1>19. ASSUME text # <<>> PROVE OnceIn(e, MessageItem)
  <2>1. \A kind : Nowhere(F, kind, MessageItem)
    BY <1>3, <1>5, <1>13
  <2>2. Single(events, "added", MessageItem)
    BY <1>1, <1>19 DEF Streaming, TextAnnounced
  <2>3. /\ Single(M, "done", MessageItem) /\ Single(M, "item", MessageItem)
        /\ Nowhere(M, "added", MessageItem)
    BY <1>9, <1>19 DEF Closes
  <2>4. /\ Single(e, "added", MessageItem) /\ Single(e, "done", MessageItem)
        /\ Single(e, "item", MessageItem)
    BY <1>17, <1>18, <2>1, <2>2, <2>3
  <2> QED
    BY <1>15, <2>4, OnceIs
<1>20. ASSUME Contiguous, NEW i \in Known, SteadyIn(deltas, i) PROVE OnceIn(e, item(i))
  <2>1. PICK b \in 1..n : s[b] = i
    BY <1>2, <1>20
  <2>2. \A kind : Nowhere(M, kind, item(i))
    BY <1>5, <1>10
  <2>3. Single(e, "done", item(i)) /\ Single(e, "item", item(i))
    BY <1>14, <1>17, <1>18, <2>1, <2>2
  <2>4. Single(e, "added", item(i))
    <3>1. /\ Started(i) <=> calls[i][1].started
          /\ CallAnnounced(i) /\ item(i) \in Names(i)
      BY <1>1, <1>5 DEF Started, Streaming, Known
    <3>2. CASE Started(i)
      <4>1. Single(events, "added", item(i))
        BY <1>20, <3>1, <3>2 DEF CallAnnounced, item
      <4>2. Nowhere(F, "added", item(i))
        BY <1>14, <2>1, <3>1, <3>2
      <4> QED
        BY <1>17, <2>2, <4>1, <4>2
    <3>3. CASE ~Started(i)
      <4>1. Nowhere(events, "added", item(i))
        BY <3>1, <3>3 DEF CallAnnounced
      <4>2. Single(F, "added", item(i))
        BY <1>14, <2>1, <3>1, <3>3
      <4> QED
        BY <1>17, <2>2, <4>1, <4>2
    <3> QED
      BY <3>2, <3>3
  <2> QED
    BY <1>15, <2>3, <2>4, OnceIs
<1>21. ASSUME NEW x \in Elements(e), x.kind = "item"
       PROVE  \/ text # <<>> /\ x.index = 0 /\ x.pieces = text[1]
              \/ \E k \in 1..n : x.index = AfterMessage + k - 1 /\ x.pieces = calls[s[k]][1].pieces
  <2>1. x \notin Elements(events)
    BY <1>1, <1>21, OpenIs DEF Streaming
  <2>2. x \notin Elements(C)
    BY <1>11, <1>21 DEF Event
  <2>3. CASE x \in Elements(M)
    <3>1. text # <<>>
      BY <1>9, <2>3, NoEvent
    <3> QED
      BY <1>9, <1>21, <2>3, <3>1 DEF Closes
  <2>4. CASE x \in Elements(F)
    <3>1. PICK b \in 1..n : x \in Elements(ss[b])
      BY <1>12, <2>4
    <3> QED
      BY <1>7, <1>21, <3>1 DEF Closes
  <2> QED
    BY <1>16, <2>1, <2>2, <2>3, <2>4
<1>22. text # <<>> => \E x \in Elements(e) : x.kind = "item" /\ x.index = 0
  BY <1>9, <1>16 DEF Closes
<1>23. ASSUME NEW k \in 1..n
       PROVE  \E x \in Elements(e) : x.kind = "item" /\ x.index = AfterMessage + k - 1
  <2>1. PICK x \in Elements(ss[k]) : x.kind = "item" /\ x.index = AfterMessage + k - 1
    BY <1>7 DEF Closes
  <2>2. x \in Elements(e)
    BY <1>12, <1>16, <2>1
  <2> QED
    BY <2>1, <2>2
<1> QED
  BY <1>15, <1>19, <1>20, <1>21, <1>22, <1>23 DEF EndsWell, n, item, s, e

LEMMA FinishStep == ASSUME StreamInv, Finish PROVE EveryCallClosed' /\ DoneIsWhole'
<1> DEFINE s == OrderedCalls
           n == Len(s)
           e == Ending
           O == Order
<1>1. /\ phase = "stream" /\ events' = e
      /\ text' = text /\ calls' = calls /\ deltas' = deltas
  BY DEF Finish, Ending, MessageBlock, CallBlocks
<1>2. /\ e \in Seq(ProxyEvents)
      /\ text # <<>> => OnceIn(e, MessageItem)
      /\ Contiguous => \A i \in Known : SteadyIn(deltas, i) => OnceIn(e, calls[i][1].item)
      /\ \A x \in Elements(e) : x.kind = "item" =>
           \/ text # <<>> /\ x.index = 0 /\ x.pieces = text[1]
           \/ \E k \in 1..n : x.index = AfterMessage + k - 1 /\ x.pieces = calls[s[k]][1].pieces
      /\ text # <<>> => \E x \in Elements(e) : x.kind = "item" /\ x.index = 0
      /\ \A k \in 1..n : \E x \in Elements(e) : x.kind = "item" /\ x.index = AfterMessage + k - 1
  BY <1>1, Ends DEF EndsWell
<1>3. s \in Seq(Known) /\ n \in Nat /\ \A k \in 1..n : s[k] \in Known
  BY OrderedFacts DEF Ordered
<1>4. StreamShape /\ Collected
  BY DEF StreamInv
<1> HIDE DEF s, n, e
<1>5. Known' = Known /\ (Contiguous' <=> Contiguous) /\ Order' = Order
  BY <1>1 DEF Known, Contiguous, Order, OrderedCalls
<1>6. \A i : Steady(i)' => SteadyIn(deltas, i)
  <2>1. DOMAIN deltas = 1..Len(deltas)
    BY <1>4 DEF StreamShape
  <2> QED
    BY <1>1, <2>1 DEF Steady, IsFirst, SteadyIn, FirstIn
<1>7. \A x : OnceIn(e, x) => Once(x)'
  BY <1>1 DEF OnceIn, Once, Where
<1>8. EveryCallClosed'
  <2>1. text # <<>> => Once(MessageItem)'
    BY <1>2, <1>7
  <2>2. ASSUME Contiguous, NEW i \in Known, Steady(i)' PROVE Once(calls[i][1].item)'
    BY <1>1, <1>2, <1>6, <1>7, <2>2
  <2> QED
    BY <1>1, <1>5, <2>1, <2>2 DEF EveryCallClosed
\* The output indices: the message's, if there is one, and the calls'.
<1>9. /\ Len(O) = AfterMessage + n /\ DOMAIN O = 1..Len(O) /\ AfterMessage \in {0, 1}
      /\ AfterMessage = 0 <=> text = <<>>
      /\ text # <<>> => O[1] = MaxIndex + 1
      /\ \A k \in 1..n : O[AfterMessage + k] = s[k]
  <2> DEFINE a == IF text = <<>> THEN <<>> ELSE <<MaxIndex + 1>>
  <2>1. O = a \o s
    BY DEF Order, s
  <2>2. a \in Seq(Nat) /\ Len(a) = AfterMessage /\ AfterMessage \in {0, 1}
        /\ (AfterMessage = 0 <=> text = <<>>) /\ (text # <<>> => a[1] = MaxIndex + 1)
    BY BoundAssumption DEF AfterMessage
  <2>3. s \in Seq(Nat)
    <3>1. Known \subseteq Nat
      BY DEF Known, Index
    <3>2. \A k \in 1..Len(s) : s[k] \in Nat
      BY <1>3, <3>1 DEF n
    <3> QED
      BY <1>3, <3>2
  <2>4. O \in Seq(Nat) /\ Joined(a, s, O)
    BY <2>1, <2>2, <2>3, ConcatFacts
  <2> HIDE DEF a, O
  <2>5. text # <<>> => 1 \in 1..Len(a)
    BY <2>2
  <2> QED
    BY <2>2, <2>4, <2>5 DEF Joined, n
<1> HIDE DEF O
<1>10. ASSUME NEW x \in Elements(e), x.kind = "item"
       PROVE  x.pieces \in Seq(Nat) /\ WholeIn(deltas, x.pieces, O[x.index + 1])
  <2>1. CASE text # <<>> /\ x.index = 0 /\ x.pieces = text[1]
    <3>1. text[1] \in Seq(Nat) /\ WholeIn(deltas, text[1], MaxIndex + 1)
      BY <1>4, <2>1 DEF StreamShape, Collected
    <3> QED
      BY <1>9, <2>1, <3>1
  <2>2. ASSUME NEW k \in 1..n, x.index = AfterMessage + k - 1, x.pieces = calls[s[k]][1].pieces
        PROVE  x.pieces \in Seq(Nat) /\ WholeIn(deltas, x.pieces, O[x.index + 1])
    <3>1. /\ s[k] \in Index /\ calls[s[k]] # <<>> /\ calls[s[k]][1] \in ToolCalls
      BY <1>3, <1>4, CallType
    <3>2. calls[s[k]][1].pieces \in Seq(Nat) /\ WholeIn(deltas, calls[s[k]][1].pieces, s[k])
      BY <1>4, <3>1 DEF ToolCalls, Collected
    <3>3. x.index + 1 = AfterMessage + k
      BY <1>3, <1>9, <2>2
    <3> QED
      BY <1>9, <2>2, <3>2, <3>3
  <2> QED
    BY <1>2, <1>10, <2>1, <2>2
<1>11. ASSUME NEW m \in 1..Len(O) PROVE \E x \in Elements(e) : x.kind = "item" /\ x.index = m - 1
  <2>1. CASE m <= AfterMessage
    <3>1. m = 1 /\ text # <<>> /\ m - 1 = 0
      BY <1>3, <1>9, <2>1
    <3> QED
      BY <1>2, <3>1
  <2>2. CASE m > AfterMessage
    <3>1. m - AfterMessage \in 1..n /\ AfterMessage + (m - AfterMessage) - 1 = m - 1
      BY <1>3, <1>9, <2>2
    <3> QED
      BY <1>2, <3>1
  <2> QED
    BY <1>3, <1>9, <2>1, <2>2
<1>12. DOMAIN e = 1..Len(e)
  BY <1>2
<1>13. DoneIsWhole'
  <2>1. ASSUME NEW k \in DOMAIN e, e[k].kind = "item"
        PROVE  Ascending(e[k].pieces) /\ {e[k].pieces[l] : l \in DOMAIN e[k].pieces} =
                 {l \in DOMAIN deltas : deltas[l].index = O[e[k].index + 1] /\ deltas[l].args}
    <3>1. e[k] \in Elements(e)
      BY <1>12 DEF Elements
    <3>2. e[k].pieces \in Seq(Nat) /\ WholeIn(deltas, e[k].pieces, O[e[k].index + 1])
      BY <1>10, <2>1, <3>1
    <3>3. deltas \in Seq(ChatDeltas)
      BY <1>4 DEF StreamShape
    <3> QED
      BY <3>2, <3>3, WholeIs
  <2>2. ASSUME NEW m \in DOMAIN O PROVE \E k \in DOMAIN e : e[k].kind = "item" /\ e[k].index = m - 1
    BY <1>9, <1>11, <1>12, <2>2 DEF Elements
  <2>3. Order' = O
    BY <1>5 DEF O
  <2>4. \A k \in DOMAIN events' : events'[k].kind = "item" =>
          Ascending(events'[k].pieces) /\ {events'[k].pieces[l] : l \in DOMAIN events'[k].pieces} =
            {l \in DOMAIN deltas' : deltas'[l].index = Order'[events'[k].index + 1] /\ deltas'[l].args}
    BY <1>1, <2>1, <2>3
  <2>5. \A m \in DOMAIN Order' : \E k \in DOMAIN events' :
          events'[k].kind = "item" /\ events'[k].index = m - 1
    BY <1>1, <2>2, <2>3
  <2> QED
    BY <2>4, <2>5 DEF DoneIsWhole, Whole, Streamed, Ascending
<1> QED
  BY <1>8, <1>13

LEMMA QuietSteps ==
  ASSUME StreamInv, \/ Handle \/ Finish \/ UNCHANGED vars
                    \/ \E answer \in {"unreachable", "error"} : ProviderFails(answer)
  PROVE  StreamInv'
<1>1. /\ text' = text /\ calls' = calls /\ deltas' = deltas
      /\ phase' \in {"new", "forward"} => phase \in {"new", "forward"}
      /\ phase' = "stream" => phase = "stream" /\ events' = events
  BY DEF Handle, Finish, ProviderFails, vars, streamVars
<1>2. Known' = Known
  BY <1>1 DEF Known
<1>3. StreamShape' /\ Collected' /\ \A i \in Known : Named(i)'
  BY <1>1 DEF StreamInv, StreamShape, Collected, Named, Names, Generated
<1>4. phase' = "stream" => Streaming'
  BY <1>1 DEF StreamInv, Streaming, TextAnnounced, CallAnnounced, Started, Names, Generated,
              MessageItem, Open
<1> QED
  BY <1>1, <1>2, <1>3, <1>4 DEF StreamInv

LEMMA BeginsStep == ASSUME StreamInv, StreamBegins PROVE StreamInv'
<1>1. /\ phase = "forward" /\ phase' = "stream" /\ events' = <<Event("created", None, 0, <<>>)>>
      /\ text' = text /\ calls' = calls /\ deltas' = deltas /\ text = <<>> /\ Known = {}
  BY DEF StreamBegins, StreamInv
<1>2. Known' = Known /\ \A i \in Index : ~Started(i)'
  BY <1>1 DEF Known, Started
<1>3. StreamShape' /\ Collected' /\ \A i \in Known : Named(i)'
  BY <1>1 DEF StreamInv, StreamShape, Collected, Named, Names, Generated
<1>4. /\ events' \in Seq(ProxyEvents) /\ Open(events') /\ \A x : Nowhere(events', "added", x)
  <2> DEFINE e == Event("created", None, 0, <<>>)
  <2>1. e \in ProxyEvents /\ e.kind = "created"
    BY DEF Event, ProxyEvents, Kinds, None
  <2> HIDE DEF e
  <2>2. events' \in Seq(ProxyEvents) /\ \A k \in 1..Len(events') : events'[k] = e
    BY <1>1, <2>1 DEF e
  <2> QED
    BY <2>1, <2>2 DEF Open, Nowhere
<1>5. TextAnnounced' /\ \A i \in Index : CallAnnounced(i)'
  BY <1>1, <1>2, <1>4 DEF TextAnnounced, CallAnnounced, Names, Generated, MessageItem
<1> QED
  BY <1>1, <1>2, <1>3, <1>4, <1>5 DEF StreamInv, Streaming, Open

\* What a completed answer is, is settled when the stream ends.
AnswerInv == StreamInv /\ EveryCallClosed /\ DoneIsWhole

LEMMA InitAnswer == Init => AnswerInv
<1> SUFFICES ASSUME Init PROVE AnswerInv
  OBVIOUS
<1>1. /\ phase = "new" /\ text = <<>> /\ calls = [i \in Index |-> <<>>] /\ deltas = <<>>
  BY DEF Init
<1>2. Known = {}
  BY <1>1 DEF Known
<1>3. StreamShape
  BY <1>1 DEF StreamShape
<1>4. Collected
  BY <1>1 DEF Collected, NoneOf
<1>5. ~Completed
  BY <1>1 DEF Completed
<1> QED
  BY <1>1, <1>2, <1>3, <1>4, <1>5 DEF AnswerInv, StreamInv, EveryCallClosed, DoneIsWhole

LEMMA AnswerStep == ASSUME AnswerInv, [Next]_vars PROVE AnswerInv'
<1> USE DEF AnswerInv
<1>1. CASE Finish
  BY <1>1, FinishStep, QuietSteps
<1>2. CASE Handle \/ \E answer \in {"unreachable", "error"} : ProviderFails(answer)
  <2>1. ~Completed'
    BY <1>2 DEF Completed, Handle, ProviderFails, StatusOf, ErrorStatus
  <2> QED
    BY <1>2, <2>1, QuietSteps DEF EveryCallClosed, DoneIsWhole
<1>3. CASE StreamBegins
  <2>1. ~Completed'
    BY <1>3 DEF Completed, StreamBegins
  <2> QED
    BY <1>3, <2>1, BeginsStep DEF EveryCallClosed, DoneIsWhole
<1>4. CASE Content \/ \E d \in Fragments : Fragment(d)
  <2>1. ~Completed'
    BY <1>4 DEF Completed, Content, Fragment
  <2> QED
    BY <1>4, <2>1, ContentStep, FragmentStep DEF EveryCallClosed, DoneIsWhole
<1>5. CASE UNCHANGED vars
  <2>1. EveryCallClosed' /\ DoneIsWhole'
    <3>1. /\ phase' = phase /\ status' = status /\ text' = text /\ calls' = calls
          /\ events' = events /\ deltas' = deltas
      BY <1>5 DEF vars
    <3>2. Known' = Known /\ Order' = Order /\ (Completed' <=> Completed) /\ (Contiguous' <=> Contiguous)
      BY <3>1 DEF Known, Order, OrderedCalls, Completed, Contiguous
    <3>3. \A i : Steady(i)' <=> Steady(i)
      BY <3>1 DEF Steady, IsFirst
    <3>4. \A x : Once(x)' <=> Once(x)
      BY <3>1 DEF Once, Where
    <3>5. EveryCallClosed'
      BY <3>1, <3>2, <3>3, <3>4 DEF EveryCallClosed, MessageItem
    <3>6. DoneIsWhole'
      BY <3>1, <3>2 DEF DoneIsWhole, Whole, Streamed, Ascending
    <3> QED
      BY <3>5, <3>6
  <2> QED
    BY <1>5, <2>1, QuietSteps
<1> QED
  BY <1>1, <1>2, <1>3, <1>4, <1>5 DEF Next

LEMMA Answered == Spec => []AnswerInv
<1>1. AnswerInv /\ [Next]_vars => AnswerInv'
  BY AnswerStep
<1> QED
  BY InitAnswer, <1>1, PTL DEF Spec

\* A completed answer has announced and closed the message and every tool call
\* once, under one id, if the provider counts its calls without a gap and gives
\* each its id with the first fragment or never.
THEOREM CallsClosed == Spec => []EveryCallClosed
<1>1. AnswerInv => EveryCallClosed
  BY DEF AnswerInv
<1> QED
  BY <1>1, Answered, PTL

\* What closes an item holds all that was streamed for its index, in order, and
\* each output index is closed, whatever the provider sends.
THEOREM ClosedWhole == Spec => []DoneIsWhole
<1>1. AnswerInv => DoneIsWhole
  BY DEF AnswerInv
<1> QED
  BY <1>1, Answered, PTL
=============================================================================
