-------------------------- MODULE SequenceInduction --------------------------
(* Induction over numbers and sequences, as facts about sets: the provers      *)
(* cannot instantiate a fact about a predicate, but they can one about a set.  *)
(* From it, that recursions along a sequence are well defined, and what        *)
(* FlattenSeq of the community modules returns.                                *)
EXTENDS Integers, Sequences, SequencesExt, WellFoundedInduction, TLAPS

\* A set with 0 that is closed under successor holds every natural number.
LEMMA NatInduct ==
  ASSUME NEW S, 0 \in S, \A n \in Nat : n \in S => n + 1 \in S
  PROVE  Nat \subseteq S
<1> DEFINE T == Nat \ S
           R == OpToRel(<, Nat)
<1> SUFFICES ASSUME T # {} PROVE FALSE
  OBVIOUS
<1>1. PICK x \in T : \A y \in T : <<y, x>> \notin R
  <2> HIDE DEF R
  <2>1. IsWellFoundedOn(R, Nat)
    BY NatLessThanWellFounded DEF R
  <2>2. T \subseteq Nat
    OBVIOUS
  <2> QED
    BY <2>1, <2>2, WFMin
<1>2. x \in Nat /\ x # 0 /\ x - 1 \in Nat
  OBVIOUS
<1>3. x - 1 \in T
  <2>1. x - 1 \in S => (x - 1) + 1 \in S
    BY <1>2
  <2> QED
  BY <1>2, <2>1
<1>4. <<x - 1, x>> \in R
  BY <1>2 DEF OpToRel
<1> QED
  BY <1>1, <1>3, <1>4

-----------------------------------------------------------------------------
\* The functions g that compute a value from the value before and the position,
\* and the values that g computes in n steps from b.
Steps(S, n) == [S \X (1..n) -> S]
Runs(S, b, n, g) == {f \in [0..n -> S] : f[0] = b /\ \A k \in 1..n : f[k] = g[<<f[k - 1], k>>]}

\* There are such values: a recursion along n positions is well defined.
LEMMA RecursionExists ==
  ASSUME NEW S, NEW b \in S, NEW n \in Nat, NEW g \in Steps(S, n)
  PROVE  Runs(S, b, n, g) # {}
<1> DEFINE Good(m, f) == f[0] = b /\ \A k \in 1..m : f[k] = g[<<f[k - 1], k>>]
           Some(m) == \E f \in [0..m -> S] : Good(m, f)
           D == {m \in Nat : m <= n => Some(m)}
<1>0. g \in [S \X (1..n) -> S]
  BY DEF Steps
<1>1. Some(0)
  <2> DEFINE h == [k \in 0..0 |-> b]
  <2>1. h \in [0..0 -> S] /\ Good(0, h)
    OBVIOUS
  <2> QED
    BY <2>1
<1>2. ASSUME NEW m \in Nat, Some(m), m + 1 <= n
      PROVE  Some(m + 1)
  <2>1. PICK f \in [0..m -> S] : Good(m, f)
    BY <1>2
  <2> DEFINE h == [k \in 0..(m + 1) |-> IF k <= m THEN f[k] ELSE g[<<f[m], m + 1>>]]
  <2>2. f[m] \in S /\ <<f[m], m + 1>> \in S \X (1..n)
    BY <1>2, <2>1
  <2>3. g[<<f[m], m + 1>>] \in S
    BY <1>0, <2>2
  <2>4. h \in [0..(m + 1) -> S]
    BY <2>1, <2>3
  <2>5. h[0] = b
    BY <2>1
  <2>6. ASSUME NEW k \in 1..(m + 1)
        PROVE  h[k] = g[<<h[k - 1], k>>]
    <3>1. CASE k <= m
      <4>1. h[k] = f[k] /\ h[k - 1] = f[k - 1] /\ k \in 1..m
        BY <3>1
      <4> QED
        BY <2>1, <4>1
    <3>2. CASE k = m + 1
      <4>1. h[k - 1] = f[m] /\ h[k] = g[<<f[m], m + 1>>]
        BY <3>2
      <4> QED
        BY <3>2, <4>1
    <3> QED
      BY <3>1, <3>2
  <2>7. Good(m + 1, h)
    <3> HIDE DEF h
    <3> QED
      BY <2>5, <2>6
  <2> QED
    BY <2>4, <2>7
<1> HIDE DEF Some
<1>3. Nat \subseteq D
  <2>1. 0 \in D
    BY <1>1
  <2>2. \A m \in Nat : m \in D => m + 1 \in D
    BY <1>2
  <2> HIDE DEF D
  <2> QED
    BY <2>1, <2>2, NatInduct
<1>4. Some(n)
  BY <1>3
<1> QED
  BY <1>4 DEF Some, Runs

\* The same up to a bound.
LEMMA UpTo ==
  ASSUME NEW n \in Nat, NEW S, 0 \in S, \A k \in 1..n : k - 1 \in S => k \in S
  PROVE  0..n \subseteq S
<1> DEFINE D == {m \in Nat : m <= n => m \in S}
<1>1. 0 \in D
  OBVIOUS
<1>2. ASSUME NEW m \in Nat, m \in D PROVE m + 1 \in D
  <2> SUFFICES ASSUME m + 1 <= n PROVE m + 1 \in S
    OBVIOUS
  <2>1. m + 1 \in 1..n /\ (m + 1) - 1 = m /\ m \in S
    BY <1>2
  <2> QED
    BY <2>1
<1>3. Nat \subseteq D
  <2> HIDE DEF D
  <2> QED
    BY <1>1, <1>2, NatInduct
<1> QED
  BY <1>3

-----------------------------------------------------------------------------
\* c is s followed by t: where its elements are.
Joined(s, t, c) ==
  /\ Len(c) = Len(s) + Len(t) /\ Len(s) \in Nat /\ Len(t) \in Nat
  /\ \A i \in 1..Len(s) : i \in 1..Len(c) /\ c[i] = s[i]
  /\ \A i \in 1..Len(t) : Len(s) + i \in 1..Len(c) /\ c[Len(s) + i] = t[i]
  /\ \A i \in 1..Len(c) : i > Len(s) => i - Len(s) \in 1..Len(t) /\ c[i] = t[i - Len(s)]
  /\ \A i \in 1..Len(c) : i <= Len(s) => i \in 1..Len(s) /\ c[i] = s[i]

LEMMA ConcatFacts ==
  ASSUME NEW T, NEW s \in Seq(T), NEW t \in Seq(T)
  PROVE  s \o t \in Seq(T) /\ Joined(s, t, s \o t)
BY DEF Joined

\* What FlattenSeq computes on the way, and that it is defined.
Flattenings(T, n, ss) ==
  {f \in [0..n -> Seq(T)] :
     /\ f[0] = <<>> /\ FlattenSeq(ss) = f[n]
     /\ \A k \in 1..n : f[k] = f[k - 1] \o ss[k]}

LEMMA FlattenPrefixes ==
  ASSUME NEW T, NEW n \in Nat, NEW ss \in [1..n -> Seq(T)]
  PROVE  Flattenings(T, n, ss) # {}
<1> DEFINE g == [p \in Seq(T) \X (1..n) |-> p[1] \o ss[p[2]]]
<1>1. Len(ss) = n
  OBVIOUS
<1>2. g \in [Seq(T) \X (1..n) -> Seq(T)]
  OBVIOUS
<1>3. PICK f \in Runs(Seq(T), <<>>, n, g) : TRUE
  <2>1. <<>> \in Seq(T) /\ g \in Steps(Seq(T), n)
    BY <1>2 DEF Steps
  <2> HIDE DEF g
  <2> QED
    BY <2>1, RecursionExists
<1>4. f \in [0..n -> Seq(T)] /\ f[0] = <<>> /\ \A k \in 1..n : f[k] = g[<<f[k - 1], k>>]
  BY <1>3 DEF Runs
<1>5. \A k \in 1..n : f[k] = f[k - 1] \o ss[k]
  <2> TAKE k \in 1..n
  <2>1. k - 1 \in 0..n
    OBVIOUS
  <2>2. f[k - 1] \in Seq(T)
    BY <1>4, <2>1
  <2> QED
    BY <1>4, <2>2
<1> HIDE DEF g
<1>6. CASE n = 0
  <2>1. Len(ss) = 0 /\ ss = <<>>
    BY <1>6
  <2>2. FlattenSeq(ss) = <<>>
    BY <2>1 DEF FlattenSeq
  <2> QED
    BY <1>4, <1>5, <1>6, <2>2
<1>7. CASE n # 0
  <2> DEFINE R(h) == [i \in 1..n |-> IF i = 1 THEN ss[i] ELSE h[i - 1] \o ss[i]]
             h == CHOOSE h : h = R(h)
             p == [i \in 1..n |-> f[i]]
  <2>0. 1 \in 1..n /\ f[1] = ss[1]
    <3>1. 1 \in 1..n /\ f[1 - 1] = f[0]
      BY <1>7
    <3>2. f[1] = f[0] \o ss[1]
      BY <1>5, <3>1
    <3> QED
      BY <1>4, <3>1, <3>2
  <2>1. p = R(p)
    <3>1. ASSUME NEW i \in 1..n PROVE f[i] = IF i = 1 THEN ss[i] ELSE p[i - 1] \o ss[i]
      <4>1. CASE i = 1
        BY <2>0, <4>1
      <4>2. CASE i # 1
        <5>1. p[i - 1] = f[i - 1]
          BY <4>2
        <5> QED
          BY <1>5, <4>2, <5>1
      <4> QED
        BY <4>1, <4>2
    <3> QED
      BY <3>1
  <2>2. h = R(h)
    <3> HIDE DEF R, p
    <3> QED
      BY <2>1
  <2>3. FlattenSeq(ss) = h[n]
    BY <1>1, <1>7 DEF FlattenSeq
  <2> HIDE DEF h
  <2>4. \A i \in 1..n : h[i] = IF i = 1 THEN ss[i] ELSE h[i - 1] \o ss[i]
    BY <2>2
  <2> DEFINE e == [i \in 0..n |-> IF i = 0 THEN <<>> ELSE h[i]]
  <2>5. \A k \in 0..n : f[k] = e[k]
    <3>1. f[0] = e[0]
      BY <1>4
    <3>2. ASSUME NEW k \in 1..n, f[k - 1] = e[k - 1] PROVE f[k] = e[k]
      <4>1. CASE k = 1
        BY <2>0, <2>4, <4>1
      <4>2. CASE k # 1
        <5>1. e[k - 1] = h[k - 1] /\ e[k] = h[k]
          BY <4>2
        <5>2. f[k] = f[k - 1] \o ss[k] /\ h[k] = h[k - 1] \o ss[k]
          BY <1>5, <2>4, <4>2
        <5> HIDE DEF e
        <5> QED
          BY <3>2, <5>1, <5>2
      <4> QED
        BY <4>1, <4>2
    <3> DEFINE D == {k \in 0..n : f[k] = e[k]}
    <3> HIDE DEF e
    <3>3. 0 \in D /\ \A k \in 1..n : k - 1 \in D => k \in D
      BY <3>1, <3>2
    <3>4. 0..n \subseteq D
      <4> HIDE DEF D
      <4> QED
        BY <3>3, UpTo
    <3> QED
      BY <3>4
  <2>6. f[n] = h[n]
    BY <1>7, <2>5
  <2>7. f[n] = FlattenSeq(ss)
    BY <2>3, <2>6
  <2> HIDE DEF R, p, e
  <2>8. f \in Flattenings(T, n, ss)
    BY <1>4, <1>5, <2>7 DEF Flattenings
  <2> QED
    BY <2>8
<1> QED
  BY <1>6, <1>7

\* The elements of a flattened sequence by the block they are from and their
\* place in it: in the order of both, and none left out.
Layout(F, n, ss, block, place) ==
  /\ block \in [1..Len(F) -> 1..n] /\ place \in [1..Len(F) -> Nat \ {0}]
  /\ \A p \in 1..Len(F) : place[p] <= Len(ss[block[p]]) /\ F[p] = ss[block[p]][place[p]]
  /\ \A p, q \in 1..Len(F) :
       p < q => block[p] < block[q] \/ (block[p] = block[q] /\ place[p] < place[q])
  /\ \A k \in 1..n : \A i \in 1..Len(ss[k]) :
       \E p \in 1..Len(F) : block[p] = k /\ place[p] = i

\* FlattenSeq keeps every element of every block, once, in order.
LEMMA FlattenLayout ==
  ASSUME NEW T, NEW n \in Nat, NEW ss \in [1..n -> Seq(T)]
  PROVE  /\ FlattenSeq(ss) \in Seq(T)
         /\ \E block, place : Layout(FlattenSeq(ss), n, ss, block, place)
<1>1. PICK f \in [0..n -> Seq(T)] :
        /\ f[0] = <<>> /\ FlattenSeq(ss) = f[n]
        /\ \A k \in 1..n : f[k] = f[k - 1] \o ss[k]
  <2>1. PICK f \in Flattenings(T, n, ss) : TRUE
    BY FlattenPrefixes
  <2> QED
    BY <2>1 DEF Flattenings
<1> DEFINE D == {m \in 0..n : \E block, place : Layout(f[m], m, ss, block, place)}
<1>2. 0 \in D
  <2> DEFINE e == [p \in 1..0 |-> p]
  <2>1. Layout(f[0], 0, ss, e, e)
    BY <1>1 DEF Layout
  <2> QED
    BY <2>1
<1>3. ASSUME NEW m \in 1..n, m - 1 \in D PROVE m \in D
  <2>1. PICK block, place : Layout(f[m - 1], m - 1, ss, block, place)
    BY <1>3
  <2> DEFINE F == f[m - 1]
             G == ss[m]
             H == f[m]
             L == Len(F)
             b == [p \in 1..Len(H) |-> IF p <= L THEN block[p] ELSE m]
             l == [p \in 1..Len(H) |-> IF p <= L THEN place[p] ELSE p - L]
  <2>2. /\ F \in Seq(T) /\ G \in Seq(T) /\ H = F \o G /\ L \in Nat /\ Len(G) \in Nat
        /\ H \in Seq(T) /\ Len(H) = L + Len(G)
        /\ \A p \in 1..L : H[p] = F[p]
        /\ \A p \in (L + 1)..Len(H) : H[p] = G[p - L]
    <3>1. m - 1 \in 0..n /\ m \in 0..n
      OBVIOUS
    <3>2. F \in Seq(T) /\ G \in Seq(T) /\ H = F \o G /\ H \in Seq(T)
      BY <1>1, <3>1
    <3> HIDE DEF F, G, H
    <3> QED
      BY <3>2
  <2> HIDE DEF F, G, H, L
  <2>3. /\ block \in [1..L -> 1..(m - 1)] /\ place \in [1..L -> Nat \ {0}]
        /\ \A p \in 1..L : place[p] <= Len(ss[block[p]]) /\ F[p] = ss[block[p]][place[p]]
        /\ \A p, q \in 1..L :
             p < q => block[p] < block[q] \/ (block[p] = block[q] /\ place[p] < place[q])
        /\ \A k \in 1..(m - 1) : \A i \in 1..Len(ss[k]) :
             \E p \in 1..L : block[p] = k /\ place[p] = i
    BY <2>1 DEF Layout, F, L
  <2>4. b \in [1..Len(H) -> 1..m] /\ l \in [1..Len(H) -> Nat \ {0}]
    <3>1. ASSUME NEW p \in 1..Len(H) PROVE b[p] \in 1..m /\ l[p] \in Nat \ {0}
      <4>1. CASE p <= L
        BY <2>2, <2>3, <4>1
      <4>2. CASE p > L
        BY <2>2, <4>2
      <4> QED
        BY <2>2, <4>1, <4>2
    <3> QED
      BY <3>1
  <2>5. \A p \in 1..Len(H) : l[p] <= Len(ss[b[p]]) /\ H[p] = ss[b[p]][l[p]]
    <3> TAKE p \in 1..Len(H)
    <3>1. CASE p <= L
      BY <2>2, <2>3, <3>1
    <3>2. CASE p > L
      BY <2>2, <3>2 DEF G
    <3> QED
      BY <2>2, <3>1, <3>2
  <2>6. \A p, q \in 1..Len(H) : p < q => b[p] < b[q] \/ (b[p] = b[q] /\ l[p] < l[q])
    <3> SUFFICES ASSUME NEW p \in 1..Len(H), NEW q \in 1..Len(H), p < q
                 PROVE  b[p] < b[q] \/ (b[p] = b[q] /\ l[p] < l[q])
      OBVIOUS
    <3>1. CASE q <= L
      BY <2>2, <2>3, <3>1
    <3>2. CASE p <= L /\ q > L
      BY <2>2, <2>3, <3>2
    <3>3. CASE p > L /\ q > L
      BY <2>2, <3>3
    <3> QED
      BY <2>2, <3>1, <3>2, <3>3
  <2>7. \A k \in 1..m : \A i \in 1..Len(ss[k]) : \E p \in 1..Len(H) : b[p] = k /\ l[p] = i
    <3> SUFFICES ASSUME NEW k \in 1..m, NEW i \in 1..Len(ss[k])
                 PROVE  \E p \in 1..Len(H) : b[p] = k /\ l[p] = i
      OBVIOUS
    <3>1. CASE k = m
      <4>1. L + i \in 1..Len(H)
        BY <2>2, <3>1 DEF G
      <4>2. b[L + i] = k /\ l[L + i] = i
        BY <2>2, <3>1, <4>1
      <4> QED
        BY <4>1, <4>2
    <3>2. CASE k # m
      <4>1. PICK p \in 1..L : block[p] = k /\ place[p] = i
        BY <2>3, <3>2
      <4>2. p \in 1..Len(H) /\ b[p] = k /\ l[p] = i
        BY <2>2, <4>1
      <4> QED
        BY <4>2
    <3> QED
      BY <3>1, <3>2
  <2>8. Layout(H, m, ss, b, l)
    <3> HIDE DEF b, l
    <3> QED
      BY <2>4, <2>5, <2>6, <2>7 DEF Layout
  <2> QED
    BY <2>8 DEF H
<1>4. n \in D
  <2> HIDE DEF D
  <2>1. 0..n \subseteq D
    BY <1>2, <1>3, UpTo
  <2> QED
    BY <2>1
<1> QED
  BY <1>1, <1>4
=============================================================================
