---------------------------- MODULE DataNodeProofs ----------------------------
(***************************************************************************)
(* Theorems about the nodes that only compute, for any configurations and   *)
(* any payloads, and the lemmas about lists and JSON values they rest on.   *)
(***************************************************************************)
EXTENDS NodeRun, FiniteSetTheorems, SequenceTheorems, FunctionTheorems, WellFoundedInduction, TLAPS

\* Induction over numbers, as the proofs about graphs state it.
Numbers == INSTANCE FlowGraphProofs

----------------------------------------------------------------------------
(* Greatest elements, and the tables by which a fold goes over numbers.      *)

\* What no element of a set of numbers exceeds is its greatest.
LEMMA GreatestIs ==
    ASSUME NEW S, NEW m \in S, S \subseteq Int, \A y \in S : m >= y
    PROVE  Max(S) = m
<1>1. Max(S) \in S /\ \A y \in S : Max(S) >= y
  BY DEF Max
<1>2. Max(S) >= m /\ m >= Max(S) /\ Max(S) \in Int /\ m \in Int
  BY <1>1
<1> QED
  BY <1>2

\* A nonempty set of numbers up to k has a greatest one.
LEMMA GreatestUpTo ==
    ASSUME NEW k \in Nat, NEW s \in SUBSET (1 .. k), s # {}
    PROVE  Max(s) \in s /\ \A y \in s : Max(s) >= y
<1> DEFINE Top(u) == Max(u) \in u /\ \A y \in u : Max(u) >= y
           T == {n \in Nat : \A u \in SUBSET (1 .. n) : u # {} => Top(u)}
<1>1. 0 \in T
  <2>1. 1 .. 0 = {}
    OBVIOUS
  <2> QED
    BY <2>1
<1>2. ASSUME NEW n \in Nat, n \in T PROVE n + 1 \in T
  <2> SUFFICES ASSUME NEW u \in SUBSET (1 .. n + 1), u # {} PROVE Top(u)
    OBVIOUS
  <2>1. CASE n + 1 \in u
    <3>1. u \subseteq Int /\ \A y \in u : n + 1 >= y
      OBVIOUS
    <3>2. PICK m \in u : m = n + 1
      BY <2>1
    <3>3. \A y \in u : m >= y
      BY <3>1, <3>2
    <3> HIDE DEF T
    <3>4. Max(u) = m
      BY <3>1, <3>3, GreatestIs
    <3> QED
      BY <3>3, <3>4
  <2>2. CASE n + 1 \notin u
    <3>1. u \in SUBSET (1 .. n)
      BY <2>2
    <3> QED
      BY <1>2, <3>1
  <2> QED
    BY <2>1, <2>2
<1> HIDE DEF T
<1>3. k \in T
  BY <1>1, <1>2, Numbers!NumberInduction
<1> QED
  BY <1>3 DEF T

\* The table by which a fold goes over the numbers up to N.
FoldsBy(t, N, base, G) ==
    \A s \in SUBSET (1 .. N) : t[s] = IF s = {} THEN base ELSE G[<<t[s \ {Max(s)}], Max(s)>>]

\* The values of a fold over 1 .. N, for every subset of it, form one table.
LEMMA FoldTable ==
    ASSUME NEW N \in Nat, NEW A, NEW base \in A, NEW G \in [A \X (1 .. N) -> A]
    PROVE  \E t \in [SUBSET (1 .. N) -> A] : FoldsBy(t, N, base, G)
<1> DEFINE Fills(k, t) == \A s \in SUBSET (1 .. k) :
                             t[s] = IF s = {} THEN base ELSE G[<<t[s \ {Max(s)}], Max(s)>>]
           Upto(k) == k <= N => \E t \in [SUBSET (1 .. k) -> A] : Fills(k, t)
<1>1. Upto(0)
  <2>1. 1 .. 0 = {}
    OBVIOUS
  <2>2. [s \in SUBSET {} |-> base] \in [SUBSET {} -> A] /\ \A s \in SUBSET {} : s = {}
    OBVIOUS
  <2>3. Fills(0, [s \in SUBSET {} |-> base])
    BY <2>1, <2>2
  <2>4. \E t \in [SUBSET (1 .. 0) -> A] : Fills(0, t)
    <3> HIDE DEF Fills
    <3> QED
      BY <2>1, <2>2, <2>3
  <2> QED
    BY <2>4
<1> HIDE DEF Fills
<1>2. ASSUME NEW k \in Nat, Upto(k) PROVE Upto(k + 1)
  <2> SUFFICES ASSUME k + 1 <= N PROVE \E t \in [SUBSET (1 .. k + 1) -> A] : Fills(k + 1, t)
    OBVIOUS
  <2>1. PICK t \in [SUBSET (1 .. k) -> A] : Fills(k, t)
    <3>1. k <= N
      OBVIOUS
    <3> QED
      BY <1>2, <3>1
  <2> DEFINE u == [s \in SUBSET (1 .. k + 1) |-> IF k + 1 \in s THEN G[<<t[s \ {k + 1}], k + 1>>] ELSE t[s]]
  <2>2. u \in [SUBSET (1 .. k + 1) -> A]
    <3> SUFFICES ASSUME NEW s \in SUBSET (1 .. k + 1)
                 PROVE  (IF k + 1 \in s THEN G[<<t[s \ {k + 1}], k + 1>>] ELSE t[s]) \in A
      OBVIOUS
    <3>1. CASE k + 1 \in s
      <4>1. s \ {k + 1} \in SUBSET (1 .. k) /\ k + 1 \in 1 .. N
        OBVIOUS
      <4> QED
        BY <3>1, <4>1
    <3>2. CASE k + 1 \notin s
      <4>1. s \in SUBSET (1 .. k)
        BY <3>2
      <4> QED
        BY <3>2, <4>1
    <3> QED
      BY <3>1, <3>2
  <2>3. ASSUME NEW s \in SUBSET (1 .. k + 1)
        PROVE  u[s] = IF s = {} THEN base ELSE G[<<u[s \ {Max(s)}], Max(s)>>]
    <3>1. CASE k + 1 \in s
      <4>1. Max(s) = k + 1
        <5>1. PICK m \in s : m = k + 1
          BY <3>1
        <5>2. s \subseteq Int /\ \A y \in s : m >= y
          BY <5>1
        <5> HIDE DEF u
        <5>3. Max(s) = m
          BY <5>2, GreatestIs
        <5> QED
          BY <5>1, <5>3
      <4>2. s \ {k + 1} \in SUBSET (1 .. k + 1) /\ k + 1 \notin s \ {k + 1}
        OBVIOUS
      <4>3. u[s \ {k + 1}] = t[s \ {k + 1}]
        BY <4>2
      <4>4. u[s] = G[<<t[s \ {k + 1}], k + 1>>]
        BY <3>1
      <4> HIDE DEF u
      <4> QED
        BY <3>1, <4>1, <4>3, <4>4
    <3>2. CASE k + 1 \notin s
      <4>1. s \in SUBSET (1 .. k)
        BY <3>2
      <4>2. u[s] = t[s]
        BY <3>2
      <4>3. CASE s = {}
        BY <2>1, <4>1, <4>2, <4>3 DEF Fills
      <4>4. CASE s # {}
        <5>1. s \ {Max(s)} \in SUBSET (1 .. k + 1) /\ k + 1 \notin s \ {Max(s)}
          BY <3>2
        <5>2. u[s \ {Max(s)}] = t[s \ {Max(s)}]
          BY <5>1
        <5> HIDE DEF u
        <5> QED
          BY <2>1, <4>1, <4>2, <4>4, <5>2 DEF Fills
      <4> QED
        BY <4>3, <4>4
    <3> QED
      BY <3>1, <3>2
  <2>4. Fills(k + 1, u)
    <3> HIDE DEF u
    <3> QED
      BY <2>3 DEF Fills
  <2> HIDE DEF u
  <2> QED
    BY <2>2, <2>4
<1>3. Upto(N)
  <2> DEFINE T == {k \in Nat : Upto(k)}
  <2> HIDE DEF Upto
  <2>1. 0 \in T
    BY <1>1
  <2>2. ASSUME NEW k \in Nat, k \in T PROVE k + 1 \in T
    BY <1>2, <2>2
  <2>3. N \in T
    <3> HIDE DEF T
    <3> QED
      BY <2>1, <2>2, Numbers!NumberInduction
  <2> QED
    BY <2>3
<1>4. \E t \in [SUBSET (1 .. N) -> A] : Fills(N, t)
  <2>1. N <= N
    OBVIOUS
  <2> QED
    BY <1>3, <2>1, Zenon
<1> QED
  BY <1>4 DEF Fills, FoldsBy

----------------------------------------------------------------------------
(* What is picked from a list.                                              *)

\* How Picked goes over q: h holds what is kept of the first elements.
PicksBy(h, q, S, D) ==
    /\ h \in [0 .. Len(q) -> Seq(D)] /\ h[0] = <<>>
    /\ \A k \in 0 .. Len(q) - 1 : h[k + 1] = IF q[k + 1] \in S THEN Append(h[k], q[k + 1]) ELSE h[k]

\* Picked goes over its sequence one element at a time.
LEMMA PickedSteps ==
    ASSUME NEW D, NEW q \in Seq(D), NEW S
    PROVE  \E h : PicksBy(h, q, S, D) /\ Picked(q, S) = h[Len(q)]
<1> DEFINE N == Len(q)
           Next1(kept, x) == IF x \in S THEN Append(kept, x) ELSE kept
           Step1(g) == [s \in SUBSET (1 .. N) |-> IF s = {} THEN <<>> ELSE Next1(g[s \ {Max(s)}], q[Max(s)])]
           G == [p \in Seq(D) \X (1 .. N) |-> Next1(p[1], q[p[2]])]
<1>0. N \in Nat /\ DOMAIN q = 1 .. N /\ <<>> \in Seq(D)
  OBVIOUS
<1>1. G \in [Seq(D) \X (1 .. N) -> Seq(D)]
  <2> SUFFICES ASSUME NEW a \in Seq(D), NEW i \in 1 .. N PROVE Next1(a, q[i]) \in Seq(D)
    OBVIOUS
  <2>1. q[i] \in D
    OBVIOUS
  <2> QED
    BY <2>1
<1>2. PICK t \in [SUBSET (1 .. N) -> Seq(D)] : FoldsBy(t, N, <<>>, G)
  <2> HIDE DEF G, N
  <2> QED
    BY <1>0, <1>1, FoldTable
<1>3. t = Step1(t)
  <2> SUFFICES ASSUME NEW s \in SUBSET (1 .. N)
               PROVE  t[s] = IF s = {} THEN <<>> ELSE Next1(t[s \ {Max(s)}], q[Max(s)])
    OBVIOUS
  <2>1. CASE s = {}
    BY <1>2, <2>1 DEF FoldsBy
  <2>2. CASE s # {}
    <3>1. Max(s) \in 1 .. N
      <4> HIDE DEF N
      <4>1. Max(s) \in s
        BY <1>0, <2>2, GreatestUpTo
      <4> QED
        BY <4>1
    <3>2. PICK m \in 1 .. N, b \in Seq(D) : m = Max(s) /\ b = t[s \ {Max(s)}]
      BY <3>1
    <3>3. G[<<b, m>>] = Next1(b, q[m])
      BY <3>2
    <3>4. t[s] = G[<<b, m>>]
      <4> HIDE DEF G
      <4> QED
        BY <1>2, <2>2, <3>2 DEF FoldsBy
    <3> QED
      BY <2>2, <3>2, <3>3, <3>4
  <2> QED
    BY <2>1, <2>2
<1>4. PICK u : u = CHOOSE iter : iter = Step1(iter)
  OBVIOUS
<1>5. Picked(q, S) = u[1 .. N]
  BY <1>0, <1>4 DEF Picked, FoldLeft, MapThenFoldSet
<1>6. u = Step1(u)
  <2> HIDE DEF Step1
  <2> QED
    BY <1>3, <1>4
<1>7. \A s \in SUBSET (1 .. N) : u[s] = IF s = {} THEN <<>> ELSE Next1(u[s \ {Max(s)}], q[Max(s)])
  <2>1. u = [s \in SUBSET (1 .. N) |-> IF s = {} THEN <<>> ELSE Next1(u[s \ {Max(s)}], q[Max(s)])]
    BY <1>6
  <2> QED
    BY <2>1
<1> DEFINE h == [k \in 0 .. N |-> u[1 .. k]]
<1>8. h[0] = <<>>
  <2>1. 1 .. 0 = {} /\ {} \in SUBSET (1 .. N)
    OBVIOUS
  <2>2. u[1 .. 0] = <<>>
    BY <1>7, <2>1
  <2> QED
    BY <1>0, <2>2
<1>9. ASSUME NEW k \in 0 .. N - 1 PROVE h[k + 1] = Next1(h[k], q[k + 1])
  <2>1. k + 1 \in 0 .. N /\ k \in 0 .. N
    BY <1>0
  <2>2. 1 .. k + 1 \in SUBSET (1 .. N) /\ 1 .. k + 1 # {} /\ (1 .. k + 1) \ {k + 1} = 1 .. k
    BY <1>0
  <2>3. Max(1 .. k + 1) = k + 1
    <3>1. PICK A : A = 1 .. k + 1
      OBVIOUS
    <3>2. PICK m \in A : m = k + 1
      BY <3>1
    <3>3. A \subseteq Int /\ \A y \in A : m >= y
      BY <3>1, <3>2
    <3>4. Max(A) = m
      BY <3>3, GreatestIs
    <3> QED
      BY <3>1, <3>2, <3>4
  <2>4. u[1 .. k + 1] = Next1(u[1 .. k], q[k + 1])
    BY <1>7, <2>2, <2>3
  <2>5. h[k + 1] = u[1 .. k + 1] /\ h[k] = u[1 .. k]
    BY <2>1
  <2> QED
    BY <2>4, <2>5
<1>10. \A k \in Nat : k \in 0 .. N => h[k] \in Seq(D)
  <2> DEFINE T == {k \in Nat : k \in 0 .. N => h[k] \in Seq(D)}
  <2>1. 0 \in T
    BY <1>0, <1>8
  <2> HIDE DEF h
  <2>2. ASSUME NEW k \in Nat, k \in T PROVE k + 1 \in T
    <3> SUFFICES ASSUME k + 1 \in 0 .. N PROVE h[k + 1] \in Seq(D)
      OBVIOUS
    <3>1. k \in 0 .. N - 1 /\ h[k] \in Seq(D) /\ q[k + 1] \in D
      BY <1>0, <2>2
    <3>2. PICK a \in Seq(D), x \in D : a = h[k] /\ x = q[k + 1]
      BY <3>1
    <3>3. Next1(a, x) \in Seq(D)
      OBVIOUS
    <3>4. h[k + 1] = Next1(a, x)
      BY <1>9, <3>1, <3>2
    <3> QED
      BY <3>3, <3>4
  <2>3. ASSUME NEW n \in Nat PROVE n \in T
    <3> HIDE DEF T
    <3> QED
      BY <2>1, <2>2, Numbers!NumberInduction
  <2> QED
    BY <2>3
<1>11. h \in [0 .. N -> Seq(D)]
  <2>1. \A k \in 0 .. N : h[k] \in Seq(D)
    <3> HIDE DEF h
    <3> QED
      BY <1>0, <1>10
  <2> QED
    BY <2>1
<1>12. h[N] = Picked(q, S)
  BY <1>0, <1>5
<1> HIDE DEF h
<1>13. PicksBy(h, q, S, D)
  BY <1>8, <1>9, <1>11 DEF PicksBy
<1> QED
  BY <1>12, <1>13

\* The steps decide what is kept.
LEMMA PicksAlike ==
    ASSUME NEW D, NEW q \in Seq(D), NEW S, NEW h, PicksBy(h, q, S, D),
           NEW q2 \in Seq(D), NEW g, PicksBy(g, q2, S, D), Len(q) <= Len(q2),
           \A i \in 1 .. Len(q) : q2[i] = q[i]
    PROVE  \A k \in 0 .. Len(q) : g[k] = h[k]
<1> DEFINE T == {k \in Nat : k \in 0 .. Len(q) => g[k] = h[k]}
<1>1. 0 \in T
  BY DEF PicksBy
<1>2. ASSUME NEW k \in Nat, k \in T PROVE k + 1 \in T
  <2> SUFFICES ASSUME k + 1 \in 0 .. Len(q) PROVE g[k + 1] = h[k + 1]
    OBVIOUS
  <2>1. k \in 0 .. Len(q) - 1 /\ k \in 0 .. Len(q2) - 1 /\ k + 1 \in 1 .. Len(q) /\ g[k] = h[k]
    BY <1>2
  <2> HIDE DEF T
  <2> QED
    BY <2>1 DEF PicksBy
<1>3. ASSUME NEW n \in Nat PROVE n \in T
  <2> HIDE DEF T
  <2> QED
    BY <1>1, <1>2, Numbers!NumberInduction
<1> QED
  BY <1>3

\* Of an empty sequence it picks nothing.
LEMMA PickedNone == ASSUME NEW S PROVE Picked(<<>>, S) = <<>>
<1>1. PICK h : PicksBy(h, <<>>, S, {}) /\ Picked(<<>>, S) = h[Len(<<>>)]
  <2>1. <<>> \in Seq({})
    OBVIOUS
  <2> QED
    BY <2>1, PickedSteps
<1> QED
  BY <1>1 DEF PicksBy

\* It takes an appended element exactly when the set holds it.
LEMMA PickedAppend ==
    ASSUME NEW D, NEW q \in Seq(D), NEW x \in D, NEW S
    PROVE  /\ Picked(q, S) \in Seq(D)
           /\ Picked(Append(q, x), S) = IF x \in S THEN Append(Picked(q, S), x) ELSE Picked(q, S)
<1>1. PICK h : PicksBy(h, q, S, D) /\ Picked(q, S) = h[Len(q)]
  BY PickedSteps
<1>2. PICK q2 \in Seq(D) : q2 = Append(q, x)
  <2>1. Append(q, x) \in Seq(D)
    OBVIOUS
  <2> QED
    BY <2>1
<1>3. PICK g : PicksBy(g, q2, S, D) /\ Picked(q2, S) = g[Len(q2)]
  BY PickedSteps
<1>4. Len(q2) = Len(q) + 1 /\ q2[Len(q) + 1] = x /\ (\A i \in 1 .. Len(q) : q2[i] = q[i]) /\ Len(q) \in Nat
  BY <1>2
<1>5. g[Len(q)] = h[Len(q)]
  <2>1. Len(q) <= Len(q2) /\ Len(q) \in 0 .. Len(q)
    BY <1>4
  <2> QED
    BY <1>1, <1>3, <1>4, <2>1, PicksAlike
<1>6. g[Len(q) + 1] = IF q2[Len(q) + 1] \in S THEN Append(g[Len(q)], q2[Len(q) + 1]) ELSE g[Len(q)]
  <2>1. Len(q) \in 0 .. Len(q2) - 1
    BY <1>4
  <2> QED
    BY <1>3, <2>1 DEF PicksBy
<1>7. h[Len(q)] \in Seq(D)
  BY <1>1, <1>4 DEF PicksBy
<1> QED
  BY <1>1, <1>2, <1>3, <1>4, <1>5, <1>6, <1>7

\* The elements that are kept, each at its place.
Places(p, q, S, g) ==
    /\ g \in [1 .. Len(p) -> {k \in 1 .. Len(q) : q[k] \in S}]
    /\ \A i, j \in 1 .. Len(p) : g[i] = g[j] => i = j
    /\ \A k \in 1 .. Len(q) : q[k] \in S => \E i \in 1 .. Len(p) : g[i] = k
    /\ \A i \in 1 .. Len(p) : p[i] = q[g[i]]

\* What it picks stands in the sequence, in the same order.
LEMMA PickedPlaces ==
    ASSUME NEW D, NEW q \in Seq(D), NEW S
    PROVE  Picked(q, S) \in Seq(D) /\ \E g : Places(Picked(q, S), q, S, g)
<1>1. PICK h : PicksBy(h, q, S, D) /\ Picked(q, S) = h[Len(q)]
  BY PickedSteps
<1> DEFINE N == Len(q)
           Took(k, g) == /\ g \in [1 .. Len(h[k]) -> {i \in 1 .. k : q[i] \in S}]
                         /\ \A i, j \in 1 .. Len(h[k]) : g[i] = g[j] => i = j
                         /\ \A l \in 1 .. k : q[l] \in S => \E i \in 1 .. Len(h[k]) : g[i] = l
                         /\ \A i \in 1 .. Len(h[k]) : h[k][i] = q[g[i]]
           Upto(k) == k \in 0 .. N => \E g : Took(k, g)
<1>0. N \in Nat
  OBVIOUS
<1>2. Upto(0)
  <2>1. h[0] = <<>> /\ 1 .. 0 = {} /\ Len(<<>>) = 0
    BY <1>1 DEF PicksBy
  <2>2. 1 .. Len(h[0]) = {}
    BY <2>1
  <2> DEFINE g == [i \in {} |-> i]
  <2>3. Took(0, g)
    BY <2>1, <2>2
  <2> HIDE DEF g, Took
  <2> QED
    BY <2>3
<1>3. ASSUME NEW k \in Nat, Upto(k) PROVE Upto(k + 1)
  <2> SUFFICES ASSUME k + 1 \in 0 .. N PROVE \E g : Took(k + 1, g)
    OBVIOUS
  <2>1. k \in 0 .. N /\ k \in 0 .. N - 1 /\ k + 1 \in 1 .. N
    BY <1>0
  <2>2. PICK g : Took(k, g)
    BY <1>3, <2>1
  <2>3. PICK p \in Seq(D) : p = h[k]
    BY <1>1, <2>1 DEF PicksBy
  <2>4. PICK x \in D : x = q[k + 1]
    BY <2>1
  <2>5. h[k + 1] = IF x \in S THEN Append(p, x) ELSE p
    BY <1>1, <2>1, <2>3, <2>4 DEF PicksBy
  <2>6. /\ g \in [1 .. Len(p) -> {i \in 1 .. k : q[i] \in S}]
        /\ \A i, j \in 1 .. Len(p) : g[i] = g[j] => i = j
        /\ \A l \in 1 .. k : q[l] \in S => \E i \in 1 .. Len(p) : g[i] = l
        /\ \A i \in 1 .. Len(p) : p[i] = q[g[i]]
    BY <2>2, <2>3
  <2>7. Len(p) \in Nat
    OBVIOUS
  <2>8. CASE x \in S
    <3>1. PICK p2 : p2 = h[k + 1]
      OBVIOUS
    <3>2. p2 = Append(p, x) /\ Len(p2) = Len(p) + 1 /\ p2[Len(p) + 1] = x /\ \A i \in 1 .. Len(p) : p2[i] = p[i]
      BY <2>5, <2>8, <3>1
    <3> DEFINE f == [i \in 1 .. Len(p) + 1 |-> IF i = Len(p) + 1 THEN k + 1 ELSE g[i]]
    <3>3. \A i \in 1 .. Len(p) : f[i] = g[i] /\ f[i] \in 1 .. k /\ q[f[i]] \in S
      BY <2>6, <2>7
    <3>4. f[Len(p) + 1] = k + 1
      BY <2>7
    <3>5. \A i \in 1 .. Len(p) + 1 : i \in 1 .. Len(p) \/ i = Len(p) + 1
      BY <2>7
    <3>6. f \in [1 .. Len(p) + 1 -> {i \in 1 .. k + 1 : q[i] \in S}]
      <4>1. DOMAIN f = 1 .. Len(p) + 1 /\ f = [i \in DOMAIN f |-> f[i]]
        OBVIOUS
      <4> HIDE DEF f
      <4>2. ASSUME NEW i \in 1 .. Len(p) + 1 PROVE f[i] \in 1 .. k + 1 /\ q[f[i]] \in S
        <5>1. CASE i \in 1 .. Len(p)
          BY <3>3, <5>1
        <5>2. CASE i = Len(p) + 1
          BY <2>4, <2>8, <3>4, <5>2
        <5> QED
          BY <3>5, <5>1, <5>2
      <4> QED
        BY <4>1, <4>2
    <3> HIDE DEF f
    <3>7. \A i, j \in 1 .. Len(p) + 1 : f[i] = f[j] => i = j
      <4> SUFFICES ASSUME NEW i \in 1 .. Len(p) + 1, NEW j \in 1 .. Len(p) + 1, f[i] = f[j] PROVE i = j
        OBVIOUS
      <4>1. k + 1 \notin 1 .. k
        OBVIOUS
      <4> QED
        BY <2>6, <3>3, <3>4, <3>5, <4>1
    <3>8. \A l \in 1 .. k + 1 : q[l] \in S => \E i \in 1 .. Len(p) + 1 : f[i] = l
      <4> SUFFICES ASSUME NEW l \in 1 .. k + 1, q[l] \in S PROVE \E i \in 1 .. Len(p) + 1 : f[i] = l
        OBVIOUS
      <4>1. CASE l \in 1 .. k
        <5>1. PICK i \in 1 .. Len(p) : g[i] = l
          BY <2>6, <4>1
        <5>2. i \in 1 .. Len(p) + 1 /\ f[i] = l
          BY <2>7, <3>3, <5>1
        <5> QED
          BY <5>2
      <4>2. CASE l = k + 1
        <5>1. Len(p) + 1 \in 1 .. Len(p) + 1
          BY <2>7
        <5> QED
          BY <3>4, <4>2, <5>1
      <4> QED
        BY <4>1, <4>2
    <3>9. \A i \in 1 .. Len(p) + 1 : p2[i] = q[f[i]]
      BY <2>4, <2>6, <3>2, <3>3, <3>4, <3>5
    <3>10. Took(k + 1, f)
      BY <3>1, <3>2, <3>6, <3>7, <3>8, <3>9
    <3> HIDE DEF Took
    <3> QED
      BY <3>10
  <2>9. CASE x \notin S
    <3>1. h[k + 1] = p
      BY <2>5, <2>9
    <3>2. {i \in 1 .. k : q[i] \in S} = {i \in 1 .. k + 1 : q[i] \in S}
      BY <2>4, <2>9
    <3>3. \A l \in 1 .. k + 1 : q[l] \in S => l \in 1 .. k
      BY <2>4, <2>9
    <3>4. Took(k + 1, g)
      BY <2>6, <3>1, <3>2, <3>3
    <3> HIDE DEF Took
    <3> QED
      BY <3>4
  <2> QED
    BY <2>8, <2>9
<1> HIDE DEF Took
<1>4. Upto(N)
  <2> DEFINE T == {k \in Nat : Upto(k)}
  <2> HIDE DEF Upto
  <2>1. 0 \in T
    BY <1>2
  <2>2. ASSUME NEW k \in Nat, k \in T PROVE k + 1 \in T
    BY <1>3, <2>2
  <2>3. N \in T
    <3> HIDE DEF T, N
    <3> QED
      BY <1>0, <2>1, <2>2, Numbers!NumberInduction
  <2> QED
    BY <2>3
<1>5. PICK g : Took(N, g)
  <2>1. N \in 0 .. N
    BY <1>0
  <2> QED
    BY <1>4, <2>1, Zenon
<1>6. Picked(q, S) = h[N] /\ h[N] \in Seq(D)
  BY <1>0, <1>1 DEF PicksBy
<1>7. Places(h[N], q, S, g)
  BY <1>5 DEF Took, Places
<1> QED
  BY <1>6, <1>7

\* The sum of a list goes over it one number at a time.
LEMMA TotalSteps ==
    ASSUME NEW S, NEW numbers \in Seq(S)
    PROVE  \E upTo : /\ DOMAIN upTo = 0..Len(numbers) /\ upTo[0] = 0 /\ Total(numbers) = upTo[Len(numbers)]
                    /\ \A n \in 1..Len(numbers) : upTo[n] = upTo[n - 1] + numbers[n]
<1> DEFINE N == Len(numbers)
           base == 0
           E(x, n) == x + numbers[n]
           Step(g, k) == [n \in 0..k |-> IF n = 0 THEN base ELSE E(g[n - 1], n)]
           T == {k \in Nat : \E g : g = Step(g, k)}
<1>1. N \in Nat
  OBVIOUS
<1>2. PICK f : f = CHOOSE g : g = Step(g, N)
  OBVIOUS
<1>3. Total(numbers) = f[N]
  BY <1>2 DEF Total
<1> HIDE DEF N, base, E
<1>4. 0 \in T
  <2>1. PICK g : g = [n \in 0..0 |-> base]
    OBVIOUS
  <2>2. g = Step(g, 0)
    BY <2>1
  <2> QED
    BY <2>2
<1>5. ASSUME NEW k \in Nat, k \in T PROVE k + 1 \in T
  <2>1. PICK g : g = Step(g, k)
    BY <1>5
  <2>2. PICK h : h = [n \in 0..k + 1 |-> IF n = k + 1 THEN E(g[k], k + 1) ELSE g[n]]
    OBVIOUS
  <2>3. \A n \in 0..k : h[n] = g[n] /\ g[n] = IF n = 0 THEN base ELSE E(g[n - 1], n)
    BY <2>1, <2>2
  <2>4. h[k + 1] = E(h[k], k + 1)
    BY <2>2, <2>3
  <2>5. \A n \in 0..k + 1 : h[n] = IF n = 0 THEN base ELSE E(h[n - 1], n)
    <3> SUFFICES ASSUME NEW n \in 0..k + 1 PROVE h[n] = IF n = 0 THEN base ELSE E(h[n - 1], n)
      OBVIOUS
    <3>1. CASE n = k + 1
      BY <2>4, <3>1
    <3>2. CASE n # k + 1
      <4>1. n \in 0..k /\ (n # 0 => n - 1 \in 0..k)
        BY <3>2
      <4> QED
        BY <2>3, <4>1
    <3> QED
      BY <3>1, <3>2
  <2>6. h = Step(h, k + 1)
    <3>1. h = [n \in 0..k + 1 |-> h[n]]
      BY <2>2
    <3> QED
      BY <2>5, <3>1
  <2> QED
    BY <2>6
<1>6. \E g : g = Step(g, N)
  <2>1. N \in T
    <3> HIDE DEF T
    <3> QED
      BY <1>1, <1>4, <1>5, Numbers!NumberInduction
  <2> QED
    BY <2>1
<1>7. f = Step(f, N)
  <2> HIDE DEF Step
  <2> QED
    BY <1>2, <1>6
<1>8. DOMAIN f = 0..N /\ f[0] = base /\ \A n \in 1..N : f[n] = E(f[n - 1], n)
  BY <1>1, <1>7
<1> QED
  BY <1>3, <1>8 DEF N, base, E

\* The sums of the first numbers of a list.
SumsBy(h, q) ==
    /\ h \in [0..Len(q) -> Int] /\ h[0] = 0
    /\ \A n \in 1..Len(q) : h[n] = h[n - 1] + q[n]

\* They are numbers.
LEMMA TotalBy ==
    ASSUME NEW q \in Seq(Int)
    PROVE  \E h : SumsBy(h, q) /\ Total(q) = h[Len(q)]
<1>1. PICK h : /\ DOMAIN h = 0..Len(q) /\ h[0] = 0 /\ Total(q) = h[Len(q)]
               /\ \A n \in 1..Len(q) : h[n] = h[n - 1] + q[n]
  BY TotalSteps
<1>2. PICK g : g = [n \in 0..Len(q) |-> h[n]]
  OBVIOUS
<1>3. \A n \in 0..Len(q) : g[n] = h[n]
  BY <1>2
<1> DEFINE T == {n \in Nat : n <= Len(q) => g[n] \in Int}
<1>4. 0 \in T
  BY <1>1, <1>3
<1>5. ASSUME NEW n \in Nat, n \in T PROVE n + 1 \in T
  <2> SUFFICES ASSUME n + 1 <= Len(q) PROVE g[n + 1] \in Int
    OBVIOUS
  <2>1. n + 1 \in 1..Len(q) /\ g[n] \in Int /\ n \in 0..Len(q) /\ n + 1 \in 0..Len(q) /\ (n + 1) - 1 = n
    BY <1>5
  <2>2. g[n + 1] = g[n] + q[n + 1]
    BY <1>1, <1>3, <2>1
  <2>3. q[n + 1] \in Int
    BY <2>1
  <2> QED
    BY <2>1, <2>2, <2>3
<1>6. \A n \in Nat : n \in T
  <2> HIDE DEF T
  <2> QED
    BY <1>4, <1>5, Numbers!NumberInduction
<1>7. g \in [0..Len(q) -> Int]
  BY <1>2, <1>6
<1>8. \A n \in 1..Len(q) : n - 1 \in 0..Len(q) /\ n \in 0..Len(q) /\ Len(q) \in 0..Len(q) /\ 0 \in 0..Len(q)
  OBVIOUS
<1>9. 0 \in 0..Len(q) /\ Len(q) \in 0..Len(q)
  OBVIOUS
<1>10. SumsBy(g, q)
  BY <1>1, <1>3, <1>7, <1>8, <1>9 DEF SumsBy
<1> QED
  BY <1>1, <1>3, <1>9, <1>10

\* Lists that begin alike have the same sums.
LEMMA SumsAlike ==
    ASSUME NEW q \in Seq(Int), NEW r \in Seq(Int), NEW h, NEW g, SumsBy(h, q), SumsBy(g, r), NEW k \in Nat,
           k <= Len(q), k <= Len(r), \A i \in 1..k : q[i] = r[i]
    PROVE  g[k] = h[k]
<1> DEFINE T == {n \in Nat : n <= k => g[n] = h[n]}
<1>1. 0 \in T
  BY DEF SumsBy
<1>2. ASSUME NEW n \in Nat, n \in T PROVE n + 1 \in T
  <2> SUFFICES ASSUME n + 1 <= k PROVE g[n + 1] = h[n + 1]
    OBVIOUS
  <2>1. n + 1 \in 1..Len(q) /\ n + 1 \in 1..Len(r) /\ n + 1 \in 1..k /\ (n + 1) - 1 = n /\ g[n] = h[n]
    BY <1>2
  <2> QED
    BY <2>1 DEF SumsBy
<1>3. k \in T
  <2> HIDE DEF T
  <2> QED
    BY <1>1, <1>2, Numbers!NumberInduction
<1> QED
  BY <1>3

\* The sum of nothing, and of one number more.
LEMMA TotalNone == Total(<<>>) = 0
<1>1. <<>> \in Seq(Int) /\ Len(<<>>) = 0
  OBVIOUS
<1>2. PICK h : SumsBy(h, <<>>) /\ Total(<<>>) = h[Len(<<>>)]
  BY <1>1, TotalBy
<1> QED
  BY <1>1, <1>2 DEF SumsBy

\* A number at the end of a sequence is added to its total.
LEMMA TotalAppend ==
    ASSUME NEW q \in Seq(Int), NEW x \in Int
    PROVE  Total(q) \in Int /\ Total(Append(q, x)) = Total(q) + x
<1>1. PICK r \in Seq(Int) : r = Append(q, x)
  BY AppendProperties
<1>2. Len(r) = Len(q) + 1 /\ r[Len(q) + 1] = x /\ (\A i \in 1..Len(q) : r[i] = q[i]) /\ Len(q) \in Nat
  BY <1>1
<1>3. PICK h : SumsBy(h, q) /\ Total(q) = h[Len(q)]
  BY TotalBy
<1>4. PICK g : SumsBy(g, r) /\ Total(r) = g[Len(r)]
  BY TotalBy
<1>5. g[Len(q)] = h[Len(q)]
  BY <1>2, <1>3, <1>4, SumsAlike
<1>6. g[Len(q) + 1] = g[Len(q)] + x
  <2>1. Len(q) + 1 \in 1..Len(r) /\ (Len(q) + 1) - 1 = Len(q)
    BY <1>2
  <2> QED
    BY <1>2, <1>4, <2>1 DEF SumsBy
<1>7. h[Len(q)] \in Int
  <2>1. h \in [0..Len(q) -> Int]
    BY <1>3 DEF SumsBy
  <2>2. Len(q) \in 0..Len(q)
    BY <1>2
  <2> QED
    BY <2>1, <2>2
<1>8. Total(q) \in Int
  BY <1>3, <1>7
<1>9. Total(r) = g[Len(q) + 1]
  BY <1>2, <1>4
<1>10. Total(r) = Total(q) + x
  BY <1>3, <1>5, <1>6, <1>9
<1> QED
  BY <1>1, <1>8, <1>10

\* A list in which every element is wanted is picked as it is, and one in
\* which none is not at all.
LEMMA PickedAll ==
    ASSUME NEW D, NEW q \in Seq(D), NEW S, \A i \in 1..Len(q) : q[i] \in S
    PROVE  Picked(q, S) = q
<1>1. PICK g : Places(Picked(q, S), q, S, g)
  BY PickedPlaces
<1>2. PICK h : PicksBy(h, q, S, D) /\ Picked(q, S) = h[Len(q)]
  BY PickedSteps
<1> DEFINE Whole(n) == Len(h[n]) = n /\ \A i \in 1..n : h[n][i] = q[i]
           T == {n \in Nat : n <= Len(q) => Whole(n)}
<1>3. 0 \in T
  BY <1>2 DEF PicksBy
<1>4. ASSUME NEW n \in Nat, n \in T PROVE n + 1 \in T
  <2> SUFFICES ASSUME n + 1 <= Len(q) PROVE Whole(n + 1)
    OBVIOUS
  <2>1. n \in 0..Len(q) - 1 /\ n + 1 \in 1..Len(q) /\ Whole(n) /\ n \in 0..Len(q)
    BY <1>4
  <2>2. PICK a \in Seq(D), x \in D : a = h[n] /\ x = q[n + 1]
    BY <1>2, <2>1 DEF PicksBy
  <2>3. h[n + 1] = Append(a, x)
    BY <1>2, <2>1, <2>2 DEF PicksBy
  <2>4. Len(a) = n /\ \A i \in 1..n : a[i] = q[i]
    BY <2>1, <2>2
  <2>5. \A i \in 1..n + 1 : i \in 1..n \/ i = n + 1
    OBVIOUS
  <2>6. Len(Append(a, x)) = n + 1 /\ Append(a, x)[n + 1] = x /\ \A i \in 1..n : Append(a, x)[i] = a[i]
    BY <2>4
  <2> QED
    BY <2>2, <2>3, <2>4, <2>5, <2>6
<1>5. Len(q) \in T
  <2> HIDE DEF T
  <2> QED
    BY <1>3, <1>4, Numbers!NumberInduction
<1>6. PICK p \in Seq(D) : p = Picked(q, S)
  BY PickedPlaces
<1>7. Len(p) = Len(q) /\ \A i \in 1..Len(q) : p[i] = q[i]
  BY <1>2, <1>5, <1>6
<1> QED
  BY <1>6, <1>7

\* If no element is in the set, none is picked.
LEMMA PickedNothing ==
    ASSUME NEW D, NEW q \in Seq(D), NEW S, \A i \in 1..Len(q) : q[i] \notin S
    PROVE  Picked(q, S) = <<>>
<1>1. PICK p \in Seq(D) : p = Picked(q, S)
  BY PickedPlaces
<1>2. PICK g : Places(p, q, S, g)
  BY <1>1, PickedPlaces
<1>3. {k \in 1..Len(q) : q[k] \in S} = {}
  OBVIOUS
<1>4. 1..Len(p) = {}
  BY <1>2, <1>3 DEF Places
<1>5. Len(p) = 0
  <2>1. Len(p) \in Nat /\ 1 \notin 1..Len(p)
    BY <1>4
  <2> QED
    BY <2>1
<1> QED
  BY <1>1, <1>5

\* Joining lists one after the other: h holds what the first of them make.
JoinsBy(h, ss, D) ==
    /\ h \in [0..Len(ss) -> Seq(D)] /\ h[0] = <<>>
    /\ \A n \in 1..Len(ss) : h[n] = h[n - 1] \o ss[n]

\* Lists are joined in as many steps as there are.
LEMMA JoinsExist ==
    ASSUME NEW S, NEW ss \in Seq(S)
    PROVE  \E h : /\ DOMAIN h = 0..Len(ss) /\ h[0] = <<>>
                 /\ \A n \in 1..Len(ss) : h[n] = h[n - 1] \o ss[n]
<1> DEFINE N == Len(ss)
           base == <<>>
           E(x, n) == x \o ss[n]
           Step(g, k) == [n \in 0..k |-> IF n = 0 THEN base ELSE E(g[n - 1], n)]
           T == {k \in Nat : \E g : g = Step(g, k)}
<1>1. N \in Nat
  OBVIOUS
<1>2. PICK f : f = CHOOSE g : g = Step(g, N)
  OBVIOUS
<1>3. f = f
  OBVIOUS
<1> HIDE DEF N, base, E
<1>4. 0 \in T
  <2>1. PICK g : g = [n \in 0..0 |-> base]
    OBVIOUS
  <2>2. g = Step(g, 0)
    BY <2>1
  <2> QED
    BY <2>2
<1>5. ASSUME NEW k \in Nat, k \in T PROVE k + 1 \in T
  <2>1. PICK g : g = Step(g, k)
    BY <1>5
  <2>2. PICK h : h = [n \in 0..k + 1 |-> IF n = k + 1 THEN E(g[k], k + 1) ELSE g[n]]
    OBVIOUS
  <2>3. \A n \in 0..k : h[n] = g[n] /\ g[n] = IF n = 0 THEN base ELSE E(g[n - 1], n)
    BY <2>1, <2>2
  <2>4. h[k + 1] = E(h[k], k + 1)
    BY <2>2, <2>3
  <2>5. \A n \in 0..k + 1 : h[n] = IF n = 0 THEN base ELSE E(h[n - 1], n)
    <3> SUFFICES ASSUME NEW n \in 0..k + 1 PROVE h[n] = IF n = 0 THEN base ELSE E(h[n - 1], n)
      OBVIOUS
    <3>1. CASE n = k + 1
      BY <2>4, <3>1
    <3>2. CASE n # k + 1
      <4>1. n \in 0..k /\ (n # 0 => n - 1 \in 0..k)
        BY <3>2
      <4> QED
        BY <2>3, <4>1
    <3> QED
      BY <3>1, <3>2
  <2>6. h = Step(h, k + 1)
    <3>1. h = [n \in 0..k + 1 |-> h[n]]
      BY <2>2
    <3> QED
      BY <2>5, <3>1
  <2> QED
    BY <2>6
<1>6. \E g : g = Step(g, N)
  <2>1. N \in T
    <3> HIDE DEF T
    <3> QED
      BY <1>1, <1>4, <1>5, Numbers!NumberInduction
  <2> QED
    BY <2>1
<1>7. f = Step(f, N)
  <2> HIDE DEF Step
  <2> QED
    BY <1>2, <1>6
<1>8. DOMAIN f = 0..N /\ f[0] = base /\ \A n \in 1..N : f[n] = E(f[n - 1], n)
  BY <1>1, <1>7
<1> QED
  BY <1>3, <1>8 DEF N, base, E

\* They can be joined.
LEMMA JoinsBegin ==
    ASSUME NEW D, NEW ss \in Seq(Seq(D))
    PROVE  \E h : JoinsBy(h, ss, D)
<1> DEFINE A == Seq(D)
<1>1. PICK h : /\ DOMAIN h = 0..Len(ss) /\ h[0] = <<>>
               /\ \A n \in 1..Len(ss) : h[n] = h[n - 1] \o ss[n]
  BY JoinsExist
<1>2. PICK g : g = [n \in 0..Len(ss) |-> h[n]]
  OBVIOUS
<1>3. \A n \in 0..Len(ss) : g[n] = h[n]
  BY <1>2
<1> DEFINE T == {n \in Nat : n <= Len(ss) => g[n] \in A}
<1>4. 0 \in T
  <2>1. g[0] = <<>> /\ <<>> \in A
    BY <1>1, <1>3
  <2> HIDE DEF A
  <2> QED
    BY <2>1
<1>5. ASSUME NEW n \in Nat, n \in T PROVE n + 1 \in T
  <2> SUFFICES ASSUME n + 1 <= Len(ss) PROVE g[n + 1] \in A
    <3> HIDE DEF A
    <3> QED
      OBVIOUS
  <2>1. n + 1 \in 1..Len(ss) /\ n \in 0..Len(ss) /\ n + 1 \in 0..Len(ss) /\ (n + 1) - 1 = n /\ n <= Len(ss)
    OBVIOUS
  <2>2. g[n] \in A
    <3> HIDE DEF A
    <3> QED
      BY <1>5, <2>1
  <2>3. g[n + 1] = h[n + 1] /\ h[n] = g[n]
    BY <1>3, <2>1
  <2>4. h[n + 1] = h[n] \o ss[n + 1]
    BY <1>1, <2>1
  <2>5. PICK a \in Seq(D), b \in Seq(D) : a = g[n] /\ b = ss[n + 1]
    BY <2>1, <2>2, ElementOfSeq
  <2>6. a \o b \in Seq(D)
    BY ConcatProperties
  <2> QED
    BY <2>3, <2>4, <2>5, <2>6
<1>6. \A n \in Nat : n \in T
  <2> HIDE DEF T
  <2> QED
    BY <1>4, <1>5, Numbers!NumberInduction
<1>7. g \in [0..Len(ss) -> A]
  <2> HIDE DEF A
  <2> QED
    BY <1>2, <1>6
<1>8. \A n \in 1..Len(ss) : n - 1 \in 0..Len(ss) /\ n \in 0..Len(ss)
  OBVIOUS
<1>9. g[0] = <<>>
  BY <1>1, <1>3
<1>10. ASSUME NEW n \in 1..Len(ss) PROVE g[n] = g[n - 1] \o ss[n]
  <2>1. g[n] = h[n] /\ g[n - 1] = h[n - 1]
    BY <1>3, <1>8
  <2>2. h[n] = h[n - 1] \o ss[n]
    BY <1>1
  <2> QED
    BY <2>1, <2>2
<1> QED
  BY <1>7, <1>9, <1>10 DEF JoinsBy

\* FlattenSeq joins the lists one by one.
LEMMA JoinsEnd ==
    ASSUME NEW D, NEW ss \in Seq(Seq(D))
    PROVE  \E h : JoinsBy(h, ss, D) /\ FlattenSeq(ss) = h[Len(ss)]
<1> DEFINE N == Len(ss)
           Step(g) == [i \in 1..N |-> IF i = 1 THEN ss[i] ELSE g[i - 1] \o ss[i]]
<1>1. N \in Nat /\ (\A i \in 1..N : ss[i] \in Seq(D))
  BY ElementOfSeq
<1>2. PICK h : JoinsBy(h, ss, D)
  BY JoinsBegin
<1>3. CASE N = 0
  <2>1. ss = <<>>
    BY <1>3
  <2>2. FlattenSeq(ss) = <<>>
    BY <2>1 DEF FlattenSeq
  <2> QED
    BY <1>2, <1>3, <2>2 DEF JoinsBy
<1>4. CASE N # 0
  <2>1. PICK g : g = [i \in 1..N |-> h[i]]
    OBVIOUS
  <2>2. g = Step(g)
    <3> SUFFICES ASSUME NEW i \in 1..N PROVE g[i] = IF i = 1 THEN ss[i] ELSE g[i - 1] \o ss[i]
      BY <2>1
    <3>1. h[i] = h[i - 1] \o ss[i] /\ g[i] = h[i]
      BY <1>2, <2>1 DEF JoinsBy
    <3>2. CASE i = 1
      <4>1. h[i] = <<>> \o ss[i] /\ ss[i] \in Seq(D)
        BY <1>1, <1>2, <3>1, <3>2 DEF JoinsBy
      <4>2. <<>> \o ss[i] = ss[i]
        BY <4>1
      <4> QED
        BY <3>1, <3>2, <4>1, <4>2
    <3>3. CASE i # 1
      <4>1. i - 1 \in 1..N
        BY <1>1, <3>3
      <4> QED
        BY <2>1, <3>1, <3>3, <4>1
    <3> QED
      BY <3>2, <3>3
  <2>3. PICK s : s = CHOOSE flatten : flatten = Step(flatten)
    OBVIOUS
  <2>4. FlattenSeq(ss) = s[N]
    BY <1>4, <2>3 DEF FlattenSeq
  <2>5. s = Step(s)
    <3> HIDE DEF Step
    <3> QED
      BY <2>2, <2>3
  <2> DEFINE T == {n \in Nat : n + 1 <= N => s[n + 1] = g[n + 1]}
  <2>6. 0 \in T
    BY <2>2, <2>5
  <2>7. ASSUME NEW n \in Nat, n \in T PROVE n + 1 \in T
    <3> SUFFICES ASSUME n + 2 <= N PROVE s[n + 2] = g[n + 2]
      OBVIOUS
    <3>1. n + 2 \in 1..N /\ (n + 2) - 1 = n + 1 /\ n + 2 # 1 /\ s[n + 1] = g[n + 1]
      BY <1>1, <2>7
    <3>2. g[n + 2] = g[n + 1] \o ss[n + 2]
      BY <2>2, <3>1
    <3>3. s[n + 2] = s[n + 1] \o ss[n + 2]
      BY <2>5, <3>1
    <3> QED
      BY <3>1, <3>2, <3>3
  <2>8. \A n \in Nat : n \in T
    <3> HIDE DEF T
    <3> QED
      BY <2>6, <2>7, Numbers!NumberInduction
  <2>9. N - 1 \in Nat /\ (N - 1) + 1 = N /\ N \in 1..N
    BY <1>1, <1>4
  <2>10. s[N] = g[N]
    <3>1. PICK m \in Nat : m = N - 1
      BY <2>9
    <3>2. m + 1 <= N => s[m + 1] = g[m + 1]
      BY <2>8
    <3>3. m + 1 = N
      BY <2>9, <3>1
    <3> HIDE DEF N
    <3> QED
      BY <1>1, <3>2, <3>3
  <2> QED
    BY <1>2, <2>1, <2>4, <2>9, <2>10
<1> QED
  BY <1>3, <1>4

\* Lists that begin alike make the same.
LEMMA JoinsAlike ==
    ASSUME NEW D, NEW ss \in Seq(Seq(D)), NEW rr \in Seq(Seq(D)), NEW h, NEW g, JoinsBy(h, ss, D),
           JoinsBy(g, rr, D), NEW k \in Nat, k <= Len(ss), k <= Len(rr), \A i \in 1..k : ss[i] = rr[i]
    PROVE  g[k] = h[k]
<1> DEFINE T == {n \in Nat : n <= k => g[n] = h[n]}
<1>1. 0 \in T
  BY DEF JoinsBy
<1>2. ASSUME NEW n \in Nat, n \in T PROVE n + 1 \in T
  <2> SUFFICES ASSUME n + 1 <= k PROVE g[n + 1] = h[n + 1]
    OBVIOUS
  <2>1. n + 1 \in 1..Len(ss) /\ n + 1 \in 1..Len(rr) /\ n + 1 \in 1..k /\ (n + 1) - 1 = n /\ g[n] = h[n]
    BY <1>2
  <2>2. g[n + 1] = g[n] \o rr[n + 1] /\ h[n + 1] = h[n] \o ss[n + 1] /\ ss[n + 1] = rr[n + 1]
    BY <2>1 DEF JoinsBy
  <2> QED
    BY <2>1, <2>2
<1>3. k \in T
  <2> HIDE DEF T
  <2> QED
    BY <1>1, <1>2, Numbers!NumberInduction
<1> QED
  BY <1>3

\* Of no lists FlattenSeq makes an empty one, and of one list more the same
\* with that list at its end.
LEMMA FlattenNone == FlattenSeq(<<>>) = <<>>
  BY DEF FlattenSeq

\* A sequence at the end of the sequences comes at the end of what they are together.
LEMMA FlattenAppend ==
    ASSUME NEW D, NEW ss \in Seq(Seq(D)), NEW s \in Seq(D)
    PROVE  FlattenSeq(ss) \in Seq(D) /\ FlattenSeq(Append(ss, s)) = FlattenSeq(ss) \o s
<1>1. PICK rr \in Seq(Seq(D)) : rr = Append(ss, s)
  BY AppendProperties
<1>2. Len(rr) = Len(ss) + 1 /\ rr[Len(ss) + 1] = s /\ (\A i \in 1..Len(ss) : rr[i] = ss[i]) /\ Len(ss) \in Nat
  BY <1>1
<1>3. PICK h : JoinsBy(h, ss, D) /\ FlattenSeq(ss) = h[Len(ss)]
  BY JoinsEnd
<1>4. PICK g : JoinsBy(g, rr, D) /\ FlattenSeq(rr) = g[Len(rr)]
  BY JoinsEnd
<1>5. g[Len(ss)] = h[Len(ss)]
  <2>1. PICK k \in Nat : k = Len(ss)
    BY <1>2
  <2>2. k <= Len(ss) /\ k <= Len(rr) /\ \A i \in 1..k : ss[i] = rr[i]
    BY <1>2, <2>1
  <2>3. g[k] = h[k]
    BY <1>3, <1>4, <2>2, JoinsAlike
  <2> QED
    BY <2>1, <2>3
<1>6. g[Len(ss) + 1] = g[Len(ss)] \o s
  <2>1. Len(ss) + 1 \in 1..Len(rr) /\ (Len(ss) + 1) - 1 = Len(ss)
    BY <1>2
  <2> QED
    BY <1>2, <1>4, <2>1 DEF JoinsBy
<1>7. h[Len(ss)] \in Seq(D)
  <2>1. PICK k \in Nat : k = Len(ss)
    BY <1>2
  <2> DEFINE A == Seq(D)
  <2>2. h \in [0..k -> A]
    BY <1>3, <2>1 DEF JoinsBy
  <2>3. h[k] \in A
    <3> HIDE DEF A
    <3> QED
      BY <2>2
  <2> QED
    BY <2>1, <2>3
<1> QED
  BY <1>1, <1>2, <1>3, <1>4, <1>5, <1>6, <1>7

\* What is there after each segment of a path.
LEMMA AlongIs ==
    ASSUME NEW v, NEW S, NEW path \in Seq(S)
    PROVE  /\ DOMAIN Along(v, path) = 0..Len(path) /\ Along(v, path)[0] = v
           /\ \A n \in 1..Len(path) : Along(v, path)[n] = Field(Along(v, path)[n - 1], path[n])
<1> DEFINE N == Len(path)
           base == v
           E(x, n) == Field(x, path[n])
           Step(g, k) == [n \in 0..k |-> IF n = 0 THEN base ELSE E(g[n - 1], n)]
           T == {k \in Nat : \E g : g = Step(g, k)}
<1>1. N \in Nat
  OBVIOUS
<1>2. PICK f : f = CHOOSE g : g = Step(g, N)
  OBVIOUS
<1>3. Along(v, path) = f
  BY <1>2 DEF Along
<1> HIDE DEF N, base, E
<1>4. 0 \in T
  <2>1. PICK g : g = [n \in 0..0 |-> base]
    OBVIOUS
  <2>2. g = Step(g, 0)
    BY <2>1
  <2> QED
    BY <2>2
<1>5. ASSUME NEW k \in Nat, k \in T PROVE k + 1 \in T
  <2>1. PICK g : g = Step(g, k)
    BY <1>5
  <2>2. PICK h : h = [n \in 0..k + 1 |-> IF n = k + 1 THEN E(g[k], k + 1) ELSE g[n]]
    OBVIOUS
  <2>3. \A n \in 0..k : h[n] = g[n] /\ g[n] = IF n = 0 THEN base ELSE E(g[n - 1], n)
    BY <2>1, <2>2
  <2>4. h[k + 1] = E(h[k], k + 1)
    BY <2>2, <2>3
  <2>5. \A n \in 0..k + 1 : h[n] = IF n = 0 THEN base ELSE E(h[n - 1], n)
    <3> SUFFICES ASSUME NEW n \in 0..k + 1 PROVE h[n] = IF n = 0 THEN base ELSE E(h[n - 1], n)
      OBVIOUS
    <3>1. CASE n = k + 1
      BY <2>4, <3>1
    <3>2. CASE n # k + 1
      <4>1. n \in 0..k /\ (n # 0 => n - 1 \in 0..k)
        BY <3>2
      <4> QED
        BY <2>3, <4>1
    <3> QED
      BY <3>1, <3>2
  <2>6. h = Step(h, k + 1)
    <3>1. h = [n \in 0..k + 1 |-> h[n]]
      BY <2>2
    <3> QED
      BY <2>5, <3>1
  <2> QED
    BY <2>6
<1>6. \E g : g = Step(g, N)
  <2>1. N \in T
    <3> HIDE DEF T
    <3> QED
      BY <1>1, <1>4, <1>5, Numbers!NumberInduction
  <2> QED
    BY <2>1
<1>7. f = Step(f, N)
  <2> HIDE DEF Step
  <2> QED
    BY <1>2, <1>6
<1>8. DOMAIN f = 0..N /\ f[0] = base /\ \A n \in 1..N : f[n] = E(f[n - 1], n)
  BY <1>1, <1>7
<1> QED
  BY <1>3, <1>8 DEF N, base, E

----------------------------------------------------------------------------
(* What a node is given.                                                     *)

\* A value that comes in, or none.
JsonOrNone == Json \cup {NoValue}

\* What is in it.
LEMMA JsonParts ==
    ASSUME NEW v \in JsonOrNone
    PROVE  /\ Is(v, "array") => v \in Json /\ v.array \in Seq(Json)
           /\ Is(v, "object") => v \in Json /\ v.object \in [DOMAIN v.object -> Json] /\ IsFiniteSet(DOMAIN v.object)
<1>1. ~Is(NoValue, "array") /\ ~Is(NoValue, "object")
  BY DEF Is, NoValue
<1> QED
  BY <1>1, JsonAssumption DEF JsonOrNone

\* What is under a key or an index comes in with it.
LEMMA FieldIsJson ==
    ASSUME NEW v \in JsonOrNone, NEW segment
    PROVE  Member(v, segment) \in JsonOrNone /\ Field(v, segment) \in JsonOrNone
<1>1. Member(v, segment) \in JsonOrNone
  <2>1. CASE Is(v, "object") /\ segment \in DOMAIN v.object
    BY <2>1, JsonParts DEF Member, JsonOrNone
  <2> QED
    BY <2>1 DEF Member, JsonOrNone
<1>2. CASE Is(v, "array") /\ segment \in DOMAIN Numerals /\ Numerals[segment] + 1 \in DOMAIN v.array
  <2>1. v.array \in Seq(Json)
    BY <1>2, JsonParts
  <2>2. v.array[Numerals[segment] + 1] \in Json
    BY <1>2, <2>1
  <2> QED
    BY <1>1, <1>2, <2>2 DEF Field, JsonOrNone
<1>3. CASE ~(Is(v, "array") /\ segment \in DOMAIN Numerals /\ Numerals[segment] + 1 \in DOMAIN v.array)
  BY <1>1, <1>3 DEF Field
<1> QED
  BY <1>1, <1>2, <1>3

\* So is what is along a path.
LEMMA AlongIsJson ==
    ASSUME NEW v \in JsonOrNone, NEW S, NEW path \in Seq(S)
    PROVE  (\A n \in 0..Len(path) : Along(v, path)[n] \in JsonOrNone) /\ PathGet(v, path) \in JsonOrNone
<1> DEFINE T == {n \in Nat : n <= Len(path) => Along(v, path)[n] \in JsonOrNone}
<1>1. 0 \in T
  BY AlongIs
<1>2. ASSUME NEW n \in Nat, n \in T PROVE n + 1 \in T
  <2> SUFFICES ASSUME n + 1 <= Len(path) PROVE Along(v, path)[n + 1] \in JsonOrNone
    OBVIOUS
  <2>1. n + 1 \in 1..Len(path) /\ Along(v, path)[n] \in JsonOrNone /\ (n + 1) - 1 = n
    BY <1>2
  <2>2. Along(v, path)[n + 1] = Field(Along(v, path)[n], path[n + 1])
    BY <2>1, AlongIs
  <2> QED
    BY <2>1, <2>2, FieldIsJson
<1>3. \A n \in Nat : n \in T
  <2> HIDE DEF T
  <2> QED
    BY <1>1, <1>2, Numbers!NumberInduction
<1> QED
  BY <1>3 DEF PathGet

\* A list that a function is.
LEMMA ListIs ==
    ASSUME NEW n \in Nat, NEW q, DOMAIN q = 1..n, q = [i \in 1..n |-> q[i]]
    PROVE  q \in Seq(ToSet(q)) /\ Len(q) = n
<1>1. \A i \in 1..n : q[i] \in ToSet(q)
  BY DEF ToSet
<1>2. q \in [1..n -> ToSet(q)]
  BY <1>1
<1> QED
  BY <1>2, SeqDef, LenProperties

\* A sequence is one of its own elements.
LEMMA ListOfOwn ==
    ASSUME NEW S, NEW q \in Seq(S)
    PROVE  q \in Seq(ToSet(q)) /\ ToSet(q) \subseteq S /\ Len(q) \in Nat /\ DOMAIN q = 1..Len(q)
<1>1. Len(q) \in Nat /\ DOMAIN q = 1..Len(q) /\ q = [i \in 1..Len(q) |-> q[i]]
  OBVIOUS
<1>2. ToSet(q) \subseteq S
  BY <1>1 DEF ToSet
<1> QED
  BY <1>1, <1>2, ListIs

\* What is emitted is one message.
LEMMA EmitIs ==
    ASSUME NEW port, NEW payload
    PROVE  /\ Emit(port, payload) \in Seq(ToSet(Emit(port, payload))) /\ Len(Emit(port, payload)) = 1
           /\ Emit(port, payload)[1] = [port |-> port, payload |-> payload]
<1>1. PICK q : q = Emit(port, payload)
  OBVIOUS
<1>2. q = <<[port |-> port, payload |-> payload]>>
  BY <1>1 DEF Emit
<1>3. DOMAIN q = 1..1 /\ q = [i \in 1..1 |-> q[i]] /\ Len(q) = 1 /\ q[1] = [port |-> port, payload |-> payload]
  BY <1>2
<1> QED
  BY <1>1, <1>3, ListIs

----------------------------------------------------------------------------
(* What a node answers.                                                      *)

\* An answer has an end and a list of messages.
IsAnswer(r) ==
    /\ r = [end |-> r.end, out |-> r.out] /\ r.end \in {"ok", "err", "panic", "spins"}
    /\ r.out \in Seq(ToSet(r.out))

\* Messages are an answer,
LEMMA OutIs ==
    ASSUME NEW q, q \in Seq(ToSet(q))
    PROVE  IsAnswer(Out(q)) /\ Out(q).out = q /\ Out(q).end = "ok"
<1>1. PICK r : r = Out(q)
  OBVIOUS
<1>2. r = [end |-> "ok", out |-> q]
  BY <1>1 DEF Out
<1>3. r.end = "ok" /\ r.out = q
  BY <1>2
<1> QED
  BY <1>1, <1>2, <1>3 DEF IsAnswer

\* one of them is,
LEMMA OneMessage ==
    ASSUME NEW port, NEW payload
    PROVE  IsAnswer(Out(Emit(port, payload))) /\ Out(Emit(port, payload)).end = "ok"
  BY EmitIs, OutIs

\* and so is none, with any other end.
LEMMA NoMessage ==
    /\ IsAnswer(Fails) /\ Fails.end = "err" /\ IsAnswer(Panics) /\ Panics.end = "panic"
    /\ IsAnswer(Spins) /\ Spins.end = "spins"
<1>1. <<>> \in Seq(ToSet(<<>>))
  BY EmptySeq
<1>2. ASSUME NEW e \in {"err", "panic", "spins"}, NEW r, r = [end |-> e, out |-> <<>>] PROVE IsAnswer(r) /\ r.end = e
  <2>1. r.end = e /\ r.out = <<>>
    BY <1>2
  <2> QED
    BY <1>1, <1>2, <2>1 DEF IsAnswer
<1>3. PICK r : r = Fails
  OBVIOUS
<1>4. PICK p : p = Panics
  OBVIOUS
<1>5. PICK s : s = Spins
  OBVIOUS
<1>6. IsAnswer(r) /\ r.end = "err"
  BY <1>2, <1>3 DEF Fails
<1>7. IsAnswer(p) /\ p.end = "panic"
  BY <1>2, <1>4 DEF Panics
<1>8. IsAnswer(s) /\ s.end = "spins"
  BY <1>2, <1>5 DEF Spins
<1> QED
  BY <1>3, <1>4, <1>5, <1>6, <1>7, <1>8

\* Nodes that answer with one message whatever comes in.
LEMMA PlainAnswers ==
    ASSUME NEW cfg, NEW payload
    PROVE  /\ IsAnswer(PassNode(payload)) /\ PassNode(payload).end = "ok"
           /\ IsAnswer(HttpInNode(cfg, payload)) /\ HttpInNode(cfg, payload).end = "ok"
           /\ IsAnswer(WebhookTriggerNode(cfg, payload)) /\ WebhookTriggerNode(cfg, payload).end = "ok"
           /\ IsAnswer(HttpOutNode(cfg, payload)) /\ HttpOutNode(cfg, payload).end = "ok"
           /\ IsAnswer(FilterNode(cfg, payload)) /\ FilterNode(cfg, payload).end = "ok"
           /\ IsAnswer(IfElseNode(cfg, payload)) /\ IfElseNode(cfg, payload).end = "ok"
<1>1. IsAnswer(PassNode(payload)) /\ PassNode(payload).end = "ok"
  BY OneMessage DEF PassNode
<1>2. IsAnswer(HttpInNode(cfg, payload)) /\ HttpInNode(cfg, payload).end = "ok"
  BY OneMessage DEF HttpInNode
<1>3. IsAnswer(WebhookTriggerNode(cfg, payload)) /\ WebhookTriggerNode(cfg, payload).end = "ok"
  BY OneMessage DEF WebhookTriggerNode
<1>4. IsAnswer(HttpOutNode(cfg, payload)) /\ HttpOutNode(cfg, payload).end = "ok"
  BY OneMessage DEF HttpOutNode
<1>5. IsAnswer(FilterNode(cfg, payload)) /\ FilterNode(cfg, payload).end = "ok"
  BY OneMessage DEF FilterNode
<1>6. IsAnswer(IfElseNode(cfg, payload)) /\ IfElseNode(cfg, payload).end = "ok"
  BY OneMessage DEF IfElseNode
<1> QED
  BY <1>1, <1>2, <1>3, <1>4, <1>5, <1>6

\* The webhook node tells a wrong signature, an event nobody asked for and
\* the rest apart.
LEMMA WebhookAnswers ==
    ASSUME NEW cfg, NEW payload
    PROVE  IsAnswer(WebhookNode(cfg, payload)) /\ WebhookNode(cfg, payload).end = "ok"
<1>1. \E port, p : WebhookNode(cfg, payload) = Out(Emit(port, p))
  <2> DEFINE signature == Member(PathGet(payload, <<"req", "headers">>), "signature")
             wrong == cfg.secret # "" /\ signature # Text(cfg.secret)
             right == (cfg.secret = "" \/ signature = Text(cfg.secret))
  <2>1. wrong \/ right
    OBVIOUS
  <2>2. ~(wrong /\ right)
    OBVIOUS
  <2> QED
    BY Zenon DEF WebhookNode
<1> QED
  BY <1>1, OneMessage

\* The json node always answers.
LEMMA JsonNodeAnswers ==
    ASSUME NEW cfg, NEW payload
    PROVE  IsAnswer(JsonNode(cfg, payload)) /\ JsonNode(cfg, payload).end = "ok"
<1>1. \E port, p : JsonNode(cfg, payload) = Out(Emit(port, p))
  BY Zenon DEF JsonNode, PassNode
<1> QED
  BY <1>1, OneMessage

\* The mapper always answers.
LEMMA MapperAnswers ==
    ASSUME NEW cfg, NEW payload
    PROVE  IsAnswer(MapperNode(cfg, payload)) /\ MapperNode(cfg, payload).end = "ok"
  BY OneMessage DEF MapperNode

\* The sanitize node always answers.
LEMMA SanitizeAnswers ==
    ASSUME NEW cfg, NEW payload
    PROVE  IsAnswer(SanitizeNode(cfg, payload)) /\ SanitizeNode(cfg, payload).end = "ok"
  BY OneMessage DEF SanitizeNode

\* The aggregator answers, or has no array to add up.
LEMMA AggregatorAnswers ==
    ASSUME NEW cfg, NEW payload
    PROVE  IsAnswer(AggregatorNode(cfg, payload)) /\ AggregatorNode(cfg, payload).end \in {"ok", "err"}
<1>1. AggregatorNode(cfg, payload) = Fails \/ \E port, p : AggregatorNode(cfg, payload) = Out(Emit(port, p))
  BY Zenon DEF AggregatorNode
<1> QED
  BY <1>1, OneMessage, NoMessage

\* Numbers are divided without rest, and the rest is less than the divisor.
LEMMA Division ==
    ASSUME NEW a \in Nat, NEW d \in Nat \ {0}
    PROVE  /\ a \div d \in Nat /\ (a \div d) * d \in Nat
           /\ (a \div d) * d <= a /\ a < (a \div d) * d + d
  OBVIOUS

\* The messages of a switch: each is the payload as it came in, and goes to a
\* rule's port, unless it is the only one and goes to "default".
SwitchMessages(cfg, payload, q) ==
    /\ \A i \in DOMAIN q : q[i].payload = payload
    /\ Len(q) >= 1 /\ (~cfg.checkAll => Len(q) = 1)
    /\ \A i \in DOMAIN q : q[i].port = "default" =>
            Len(q) = 1 \/ \E rule \in ToSet(cfg.rules) : rule.port = "default"

\* The switch answers with the whole payload, once for each rule it takes.
LEMMA SwitchAnswers ==
    ASSUME NEW cfg, NEW payload, cfg.rules \in Seq(ToSet(cfg.rules))
    PROVE  /\ IsAnswer(SwitchNode(cfg, payload)) /\ SwitchNode(cfg, payload).end = "ok"
           /\ SwitchMessages(cfg, payload, SwitchNode(cfg, payload).out)
<1> DEFINE actual == PathLookup(payload, cfg.property)
           hits == Picked(cfg.rules, {r \in ToSet(cfg.rules) : EvaluateRule(actual, r)})
           taken == IF cfg.checkAll \/ hits = <<>> THEN hits ELSE <<hits[1]>>
           sent == [i \in DOMAIN taken |-> [port |-> taken[i].port, payload |-> payload]]
           R == ToSet(cfg.rules)
<1>1. hits \in Seq(R)
  BY PickedPlaces
<1>2. CASE hits = <<>>
  <2>1. SwitchNode(cfg, payload) = Out(Emit("default", payload))
    BY <1>2 DEF SwitchNode
  <2>2. PICK q : q = Emit("default", payload)
    OBVIOUS
  <2>3. q \in Seq(ToSet(q)) /\ Len(q) = 1 /\ q[1].payload = payload /\ DOMAIN q = 1..Len(q)
    <3>1. q \in Seq(ToSet(q)) /\ Len(q) = 1 /\ q[1] = [port |-> "default", payload |-> payload]
      BY <2>2, EmitIs
    <3> QED
      BY <3>1
  <2>4. SwitchMessages(cfg, payload, q)
    BY <2>3 DEF SwitchMessages
  <2> QED
    BY <2>1, <2>2, <2>3, <2>4, OutIs
<1>3. CASE hits # <<>>
  <2>1. SwitchNode(cfg, payload) = Out(sent)
    BY <1>3 DEF SwitchNode
  <2>2. hits[1] \in R /\ Len(hits) \in Nat /\ Len(hits) >= 1
    <3> HIDE DEF hits, R
    <3> QED
      BY <1>1, <1>3
  <2>3. taken \in Seq(R) /\ Len(taken) >= 1 /\ (~cfg.checkAll => Len(taken) = 1)
    <3> HIDE DEF hits, R
    <3>1. CASE cfg.checkAll
      BY <1>1, <2>2, <3>1
    <3>2. CASE ~cfg.checkAll
      BY <1>3, <2>2, <3>2
    <3> QED
      BY <3>1, <3>2
  <2>4. PICK t \in Seq(R) : t = taken
    BY <2>3
  <2>5. PICK q : q = sent
    OBVIOUS
  <2>6. q = [i \in DOMAIN t |-> [port |-> t[i].port, payload |-> payload]]
    BY <2>4, <2>5
  <2>7. Len(t) \in Nat /\ DOMAIN t = 1..Len(t) /\ Len(t) >= 1 /\ (~cfg.checkAll => Len(t) = 1) /\ \A i \in 1..Len(t) : t[i] \in R
    <3>1. Len(t) >= 1 /\ (~cfg.checkAll => Len(t) = 1)
      BY <2>3, <2>4
    <3> HIDE DEF R
    <3> QED
      BY <3>1
  <2>8. DOMAIN q = 1..Len(t) /\ q = [i \in 1..Len(t) |-> q[i]]
    BY <2>6, <2>7
  <2>9. q \in Seq(ToSet(q)) /\ Len(q) = Len(t)
    BY <2>7, <2>8, ListIs
  <2>10. \A i \in DOMAIN q : q[i].payload = payload /\ q[i].port = t[i].port
    BY <2>6, <2>7
  <2>11. SwitchMessages(cfg, payload, q)
    BY <2>7, <2>8, <2>9, <2>10 DEF SwitchMessages
  <2> QED
    BY <2>1, <2>5, <2>9, <2>11, OutIs
<1> QED
  BY <1>2, <1>3

\* The messages of a loop, one per item and then one more.
LoopItems(cfg, payload) ==
    LET found == PathGet(payload, cfg.property)
    IN  CASE found = NoValue -> <<>>
          [] Is(found, "array") -> found.array
          [] OTHER -> <<found>>
ItemMessages(items) == [i \in DOMAIN items |-> [port |-> "item", payload |-> items[i]]]
DoneMessage(items) == [port |-> "done", payload |-> Number(Len(items))]

\* The loop answers with every item, and then with how many they were.
LEMMA LoopAnswers ==
    ASSUME NEW cfg, NEW payload \in Json, cfg.property \in JsonPath
    PROVE  /\ LoopItems(cfg, payload) \in Seq(Json)
           /\ IsAnswer(LoopNode(cfg, payload)) /\ LoopNode(cfg, payload).end = "ok"
           /\ LoopNode(cfg, payload).out = Append(ItemMessages(LoopItems(cfg, payload)), DoneMessage(LoopItems(cfg, payload)))
<1>1. PICK found : found = PathGet(payload, cfg.property)
  OBVIOUS
<1>2. found \in JsonOrNone
  <2>1. payload \in JsonOrNone /\ cfg.property \in Seq(STRING)
    BY DEF JsonOrNone, JsonPath
  <2> QED
    BY <1>1, <2>1, AlongIsJson
<1>3. PICK items : items = LoopItems(cfg, payload)
  OBVIOUS
<1>4. items = CASE found = NoValue -> <<>> [] Is(found, "array") -> found.array [] OTHER -> <<found>>
  BY <1>1, <1>3 DEF LoopItems
<1>5. ~Is(NoValue, "array")
  BY DEF Is, NoValue
<1>6. items \in Seq(Json)
  <2>1. CASE found = NoValue
    BY <1>4, <1>5, <2>1
  <2>2. CASE Is(found, "array")
    BY <1>2, <1>4, <1>5, <2>2, JsonParts
  <2>3. CASE found # NoValue /\ ~Is(found, "array")
    <3>1. items = <<found>> /\ found \in Json
      BY <1>2, <1>4, <2>3 DEF JsonOrNone
    <3> QED
      BY <3>1
  <2> QED
    BY <2>1, <2>2, <2>3
<1>7. PICK msgs : msgs = ItemMessages(items)
  OBVIOUS
<1>8. PICK done : done = DoneMessage(items)
  OBVIOUS
<1>9. LoopNode(cfg, payload) = Out(msgs \o <<done>>)
  BY <1>1, <1>4, <1>7, <1>8 DEF LoopNode, ItemMessages, DoneMessage, Emit
<1>10. Len(items) \in Nat /\ DOMAIN items = 1..Len(items)
  BY <1>6
<1>11. msgs = [i \in 1..Len(items) |-> [port |-> "item", payload |-> items[i]]]
  BY <1>7, <1>10 DEF ItemMessages
<1>12. DOMAIN msgs = 1..Len(items) /\ msgs = [i \in 1..Len(items) |-> msgs[i]]
  BY <1>11
<1>13. msgs \in Seq(ToSet(msgs)) /\ Len(msgs) = Len(items)
  BY <1>10, <1>12, ListIs
<1>14. PICK M : M = ToSet(msgs) \cup {done}
  OBVIOUS
<1>15. msgs \in Seq(M) /\ done \in M
  BY <1>13, <1>14
<1>16. msgs \o <<done>> = Append(msgs, done) /\ Append(msgs, done) \in Seq(M)
  BY <1>15
<1>17. PICK q \in Seq(M) : q = Append(msgs, done)
  BY <1>16
<1>18. q \in Seq(ToSet(q))
  BY ListOfOwn
<1>19. LoopNode(cfg, payload) = Out(q)
  BY <1>9, <1>16, <1>17
<1> QED
  BY <1>3, <1>6, <1>7, <1>8, <1>17, <1>18, <1>19, OutIs

\* A list that is found in a payload is an array that came in.
LEMMA ListsAreJson ==
    ASSUME NEW cfg, NEW payload \in Json
    PROVE  /\ ExtractArray(payload) \in JsonOrNone
           /\ ExtractArray(payload) # NoValue => Is(ExtractArray(payload), "array") /\ ExtractArray(payload).array \in Seq(Json)
           /\ BatchList(cfg, payload) \in JsonOrNone
           /\ BatchList(cfg, payload) # NoValue => Is(BatchList(cfg, payload), "array") /\ BatchList(cfg, payload).array \in Seq(Json)
<1>0. payload \in JsonOrNone
  BY DEF JsonOrNone
<1>1. PICK list : list = ExtractArray(payload)
  OBVIOUS
<1>2. list \in JsonOrNone /\ (list # NoValue => Is(list, "array"))
  <2> DEFINE fields == <<"rows", "data", "results", "items">>
             S == {f \in ToSet(fields) : Is(Member(payload, f), "array")}
             found == Picked(fields, S)
  <2>1. list = CASE Is(payload, "array") -> payload
                 [] ~Is(payload, "array") /\ found # <<>> -> Member(payload, found[1])
                 [] OTHER -> NoValue
    BY <1>1 DEF ExtractArray
  <2>2. CASE Is(payload, "array")
    BY <1>0, <2>1, <2>2
  <2>3. CASE ~Is(payload, "array") /\ found # <<>>
    <3>1. fields \in Seq(ToSet(fields))
      <4>1. PICK q : q = <<"rows", "data", "results", "items">>
        OBVIOUS
      <4>2. DOMAIN q = 1..4 /\ q[1] = "rows" /\ q[2] = "data" /\ q[3] = "results" /\ q[4] = "items"
        BY <4>1
      <4>3. q = [i \in 1..4 |-> q[i]]
        BY <4>1
      <4>5. q \in Seq(ToSet(q))
        BY <4>2, <4>3, ListIs
      <4> QED
        BY <4>1, <4>5
    <3>2. PICK q \in Seq(ToSet(fields)) : q = found
      BY <3>1, PickedPlaces
    <3>3. PICK g : Places(q, fields, S, g)
      BY <3>1, <3>2, PickedPlaces
    <3>4. 1 \in 1..Len(q)
      BY <2>3, <3>2
    <3>5. q[1] \in S
      <4> HIDE DEF fields, S
      <4> QED
        BY <3>3, <3>4 DEF Places
    <3>6. Is(Member(payload, q[1]), "array")
      BY <3>5
    <3>7. list = Member(payload, q[1])
      BY <2>1, <2>3, <3>2
    <3> QED
      BY <1>0, <3>6, <3>7, FieldIsJson
  <2>4. CASE ~Is(payload, "array") /\ found = <<>>
    BY <2>1, <2>4 DEF JsonOrNone
  <2> QED
    BY <2>2, <2>3, <2>4
<1>3. PICK named : named = Member(payload, cfg.field)
  OBVIOUS
<1>4. named \in JsonOrNone
  BY <1>0, <1>3, FieldIsJson
<1>5. PICK l : l = BatchList(cfg, payload)
  OBVIOUS
<1>6. l = IF cfg.field # "" /\ Is(named, "array") THEN named ELSE list
  BY <1>1, <1>3, <1>5 DEF BatchList
<1>7. l \in JsonOrNone /\ (l # NoValue => Is(l, "array"))
  BY <1>2, <1>4, <1>6
<1> QED
  BY <1>1, <1>2, <1>5, <1>7, JsonParts

\* Where the i-th batch of a list ends.
BatchEnd(items, size, i) == IF i * size < Len(items) THEN i * size ELSE Len(items)
BatchMessages(items, size) ==
    [i \in 1..(Len(items) + size - 1) \div size |->
        [port |-> "output", payload |-> Array(SubSeq(items, (i - 1) * size + 1, BatchEnd(items, size, i)))]]

\* The batch node answers with the batches, unless there is no array or no size.
LEMMA BatchAnswers ==
    ASSUME NEW cfg, NEW payload \in Json, cfg.size \in Nat
    PROVE  LET items == BatchList(cfg, payload).array
               r == BatchNode(cfg, payload)
           IN  /\ IsAnswer(r) /\ r.end \in {"ok", "err", "panic"}
               /\ r.end = "panic" => cfg.size = 0
               /\ r.end = "ok" => cfg.size # 0 /\ items \in Seq(Json) /\ r.out = BatchMessages(items, cfg.size)
<1>1. PICK list : list = BatchList(cfg, payload)
  OBVIOUS
<1>2. list # NoValue => list.array \in Seq(Json)
  BY <1>1, ListsAreJson
<1>3. PICK r : r = BatchNode(cfg, payload)
  OBVIOUS
<1>4. CASE list = NoValue
  <2>1. r = Fails
    BY <1>1, <1>3, <1>4 DEF BatchNode
  <2> QED
    BY <1>3, <2>1, NoMessage
<1>5. CASE list # NoValue /\ cfg.size = 0
  <2>1. r = Panics
    BY <1>1, <1>3, <1>5 DEF BatchNode
  <2> QED
    BY <1>3, <1>5, <2>1, NoMessage
<1>6. CASE list # NoValue /\ cfg.size # 0
  <2>1. PICK items \in Seq(Json) : items = list.array
    BY <1>2, <1>6
  <2>2. PICK q : q = BatchMessages(items, cfg.size)
    OBVIOUS
  <2>3. r = Out(q)
    BY <1>1, <1>3, <1>6, <2>1, <2>2 DEF BatchNode, BatchMessages, BatchEnd
  <2>4. PICK n \in Nat : n = (Len(items) + cfg.size - 1) \div cfg.size
    <3>1. Len(items) \in Nat /\ cfg.size \in Nat \ {0}
      BY <1>6
    <3>2. Len(items) + cfg.size - 1 \in Nat
      BY <3>1
    <3> QED
      BY <3>1, <3>2, Division
  <2>5. DOMAIN q = 1..n /\ q = [i \in 1..n |-> q[i]]
    BY <2>2, <2>4 DEF BatchMessages
  <2>6. q \in Seq(ToSet(q))
    BY <2>5, ListIs
  <2>7. IsAnswer(r) /\ r.end = "ok" /\ r.out = q
    BY <2>3, <2>6, OutIs
  <2> QED
    BY <1>1, <1>3, <1>6, <2>1, <2>2, <2>7
<1> QED
  BY <1>4, <1>5, <1>6

\* The csv node answers, or cannot.
LEMMA CsvAnswers ==
    ASSUME NEW cfg, NEW payload
    PROVE  IsAnswer(CsvNode(cfg, payload)) /\ CsvNode(cfg, payload).end \in {"ok", "err"}
<1>1. ASSUME NEW r, r = CsvParse(cfg, payload) \/ r = CsvStringify(cfg, payload)
      PROVE  r = Fails \/ \E port, p : r = Out(Emit(port, p))
  <2>1. CASE r = CsvParse(cfg, payload)
    BY <2>1, Zenon DEF CsvParse
  <2>2. CASE r = CsvStringify(cfg, payload)
    BY <2>2, Zenon DEF CsvStringify
  <2> QED
    BY <1>1, <2>1, <2>2
<1>2. PICK r : r = CsvNode(cfg, payload)
  OBVIOUS
<1>3. r = Fails \/ \E port, p : r = Out(Emit(port, p))
  BY <1>1, <1>2, Zenon DEF CsvNode
<1> QED
  BY <1>2, <1>3, OneMessage, NoMessage

\* What the node that splits a text answers to a text that is not empty.
LEMMA SplitterAnswers ==
    ASSUME NEW cfg, NEW text
    PROVE  /\ IsAnswer(TextSplitterNode(cfg, text))
           /\ TextSplitterNode(cfg, text).end \in {"ok", "spins"}
<1>1. PICK r : r = TextSplitterNode(cfg, text)
  OBVIOUS
<1>2. r = Spins \/ \E port, p : r = Out(Emit(port, p))
  BY <1>1, Zenon DEF TextSplitterNode
<1> QED
  BY <1>1, <1>2, OneMessage, NoMessage

\* The function node answers, or is never done with its template.
LEMMA FunctionAnswers ==
    ASSUME NEW cfg, NEW data
    PROVE  IsAnswer(FunctionNode(cfg, data)) /\ FunctionNode(cfg, data).end \in {"ok", "spins"}
<1>1. PICK r : r = FunctionNode(cfg, data)
  OBVIOUS
<1>2. r = Spins \/ \E port, p : r = Out(Emit(port, p))
  BY <1>1, Zenon DEF FunctionNode, ResolveTemplate
<1> QED
  BY <1>1, <1>2, OneMessage, NoMessage

\* The prompt node always answers.
LEMMA PromptAnswers ==
    ASSUME NEW cfg, NEW data, NEW o
    PROVE  IsAnswer(PromptTemplateNode(cfg, data, o)) /\ PromptTemplateNode(cfg, data, o).end = "ok"
  BY OneMessage DEF PromptTemplateNode

----------------------------------------------------------------------------
(* A message at a node.                                                      *)

NodeRunSpec == NodeRunInit /\ [][NodeRunNext]_runVars

\* Whatever the node is, it answers.
LEMMA ProcessAnswers ==
    ASSUME NEW t \in Task
    PROVE  /\ IsAnswer(Process(t))
           /\ Process(t).end = "panic" => t.node = "batch" /\ t.cfg.size = 0
           /\ Process(t).end = "spins" => t.node \in {"text-splitter", "function"}
<1>1. t.node \in OfJson \cup {"text-splitter", "function", "prompt-template"}
  BY TaskAssumption
<1>2. CASE t.node \in {"debug", "delay", "cron"}
  <2>1. Process(t) = PassNode(t.payload)
    BY <1>2 DEF Process
  <2> QED
    BY <2>1, PlainAnswers
<1>3. CASE t.node = "http-in"
  <2>1. Process(t) = HttpInNode(t.cfg, t.payload)
    BY <1>3 DEF Process
  <2> QED
    BY <2>1, PlainAnswers
<1>4. CASE t.node = "webhook-trigger"
  <2>1. Process(t) = WebhookTriggerNode(t.cfg, t.payload)
    BY <1>4 DEF Process
  <2> QED
    BY <2>1, PlainAnswers
<1>5. CASE t.node = "http-out"
  <2>1. Process(t) = HttpOutNode(t.cfg, t.payload)
    BY <1>5 DEF Process
  <2> QED
    BY <2>1, PlainAnswers
<1>6. CASE t.node = "webhook"
  <2>1. Process(t) = WebhookNode(t.cfg, t.payload)
    BY <1>6 DEF Process
  <2> QED
    BY <2>1, WebhookAnswers
<1>7. CASE t.node = "filter"
  <2>1. Process(t) = FilterNode(t.cfg, t.payload)
    BY <1>7 DEF Process
  <2> QED
    BY <2>1, PlainAnswers
<1>8. CASE t.node = "switch"
  <2>1. Process(t) = SwitchNode(t.cfg, t.payload)
    BY <1>8 DEF Process
  <2>2. PICK cfg, payload : cfg = t.cfg /\ payload = t.payload
    OBVIOUS
  <2>3. cfg.rules \in Seq(ToSet(cfg.rules))
    BY <1>8, <2>2, TaskAssumption
  <2> QED
    BY <2>1, <2>2, <2>3, SwitchAnswers
<1>9. CASE t.node = "if-else"
  <2>1. Process(t) = IfElseNode(t.cfg, t.payload)
    BY <1>9 DEF Process
  <2> QED
    BY <2>1, PlainAnswers
<1>10. CASE t.node = "loop"
  <2>1. Process(t) = LoopNode(t.cfg, t.payload)
    BY <1>10 DEF Process
  <2>2. PICK cfg, payload : cfg = t.cfg /\ payload = t.payload
    OBVIOUS
  <2>3. payload \in Json /\ cfg.property \in JsonPath
    BY <1>10, <2>2, TaskAssumption DEF OfJson
  <2> QED
    BY <2>1, <2>2, <2>3, LoopAnswers
<1>11. CASE t.node = "batch"
  <2>1. Process(t) = BatchNode(t.cfg, t.payload)
    BY <1>11 DEF Process
  <2>2. PICK cfg, payload : cfg = t.cfg /\ payload = t.payload
    OBVIOUS
  <2>3. payload \in Json /\ cfg.size \in Nat
    BY <1>11, <2>2, TaskAssumption DEF OfJson
  <2>4. IsAnswer(BatchNode(cfg, payload)) /\ BatchNode(cfg, payload).end \in {"ok", "err", "panic"}
        /\ (BatchNode(cfg, payload).end = "panic" => cfg.size = 0)
    BY <2>3, BatchAnswers
  <2> QED
    BY <1>11, <2>1, <2>2, <2>4
<1>12. CASE t.node = "aggregator"
  <2>1. Process(t) = AggregatorNode(t.cfg, t.payload)
    BY <1>12 DEF Process
  <2> QED
    BY <2>1, AggregatorAnswers
<1>13. CASE t.node = "mapper"
  <2>1. Process(t) = MapperNode(t.cfg, t.payload)
    BY <1>13 DEF Process
  <2> QED
    BY <2>1, MapperAnswers
<1>14. CASE t.node = "sanitize"
  <2>1. Process(t) = SanitizeNode(t.cfg, t.payload)
    BY <1>14 DEF Process
  <2> QED
    BY <2>1, SanitizeAnswers
<1>15. CASE t.node = "json"
  <2>1. Process(t) = JsonNode(t.cfg, t.payload)
    BY <1>15 DEF Process
  <2> QED
    BY <2>1, JsonNodeAnswers
<1>16. CASE t.node = "csv"
  <2>1. Process(t) = CsvNode(t.cfg, t.payload)
    BY <1>16 DEF Process
  <2> QED
    BY <2>1, CsvAnswers
<1>17. CASE t.node = "text-splitter"
  <2>1. Process(t) = TextSplitterNode(t.cfg, t.payload)
    BY <1>17 DEF Process
  <2> QED
    BY <1>17, <2>1, SplitterAnswers
<1>18. CASE t.node = "function"
  <2>1. Process(t) = FunctionNode(t.cfg, t.payload)
    BY <1>18 DEF Process
  <2> QED
    BY <1>18, <2>1, FunctionAnswers
<1>19. CASE t.node = "prompt-template"
  <2>1. Process(t) = PromptTemplateNode(t.cfg, t.payload, order)
    BY <1>19 DEF Process
  <2>2. PICK o : o = order
    OBVIOUS
  <2> QED
    BY <2>1, <2>2, PromptAnswers
<1> QED
  BY <1>1, <1>2, <1>3, <1>4, <1>5, <1>6, <1>7, <1>8, <1>9, <1>10, <1>11, <1>12, <1>13, <1>14, <1>15, <1>16,
     <1>17, <1>18, <1>19 DEF OfJson

\* Which messages the wire w carries.
Takes(w, q, ports) == {m \in ToSet(q) : m.port = w \/ Cardinality(ports) = 1}

\* Nothing has happened yet, or the answer is there, or it has been sent.
RunInv ==
    /\ task \in Task /\ wires \subseteq Ports(task.node) /\ DOMAIN delivered = wires
    /\ order \in IF task.node = "prompt-template" THEN ExtractVariables(task.payload) ELSE {<<>>}
    /\ \/ result = Waiting
       \/ result = Process(task)
       \/ /\ Process(task).end = "ok" /\ result = [end |-> "sent", out |-> Process(task).out]
          /\ delivered = [w \in wires |-> Picked(result.out, Takes(w, result.out, wires))]

\* At first the message waits at its node.
LEMMA RunStarts == NodeRunInit => RunInv
  BY DEF NodeRunInit, RunInv

\* What process answers depends on the task and the order alone.
LEMMA SameAnswer == ASSUME UNCHANGED <<task, order>> PROVE Process(task)' = Process(task)
  BY DEF Process

\* The node answers, and what it answered is sent; nothing else happens.
LEMMA RunSteps == RunInv /\ [NodeRunNext]_runVars => RunInv'
<1> SUFFICES ASSUME RunInv, [NodeRunNext]_runVars PROVE RunInv'
  OBVIOUS
<1>0. UNCHANGED <<task, wires, order>>
  BY DEF NodeRunNext, RunProcess, DispatchOutputs, runVars
<1>1. Process(task)' = Process(task)
  BY <1>0, SameAnswer
<1>2. /\ task' \in Task /\ wires' \subseteq Ports(task.node)' /\ order' = order
      /\ order' \in IF task'.node = "prompt-template" THEN ExtractVariables(task'.payload) ELSE {<<>>}
  BY <1>0 DEF RunInv, Ports
<1>3. CASE RunProcess
  BY <1>0, <1>1, <1>2, <1>3 DEF RunInv, RunProcess
<1>4. CASE DispatchOutputs
  <2>1. PICK t \in Task : t = task
    BY DEF RunInv
  <2>2. IsAnswer(Process(task))
    BY <2>1, ProcessAnswers
  <2>3. result = Process(task)
    <3>1. result.end = "ok"
      BY <1>4 DEF DispatchOutputs
    <3> QED
      BY <3>1 DEF RunInv, Waiting
  <2>4. result' = [end |-> "sent", out |-> Process(task).out]
    BY <1>4, <2>2, <2>3 DEF DispatchOutputs, IsAnswer
  <2>5. delivered' = [w \in wires |-> Picked(result.out, Takes(w, result.out, wires))]
    BY <1>4 DEF DispatchOutputs, Takes
  <2>6. result'.out = result.out
    BY <2>3, <2>4
  <2>7. delivered' = [w \in wires' |-> Picked(result'.out, Takes(w, result'.out, wires'))] /\ DOMAIN delivered' = wires'
    BY <1>0, <2>5, <2>6
  <2>8. Process(task).end = "ok"
    BY <1>4, <2>3 DEF DispatchOutputs
  <2>9. RunInv' <=> /\ task' \in Task /\ wires' \subseteq Ports(task.node)' /\ DOMAIN delivered' = wires'
                    /\ order' \in IF task'.node = "prompt-template" THEN ExtractVariables(task'.payload) ELSE {<<>>}
                    /\ \/ result' = Waiting
                       \/ result' = Process(task)'
                       \/ /\ Process(task)'.end = "ok" /\ result' = [end |-> "sent", out |-> Process(task)'.out]
                          /\ delivered' = [w \in wires' |-> Picked(result'.out, Takes(w, result'.out, wires'))]
    BY Zenon DEF RunInv, Takes
  <2> QED
    BY <1>1, <1>2, <2>4, <2>7, <2>8, <2>9
<1>5. CASE UNCHANGED runVars
  BY <1>0, <1>1, <1>2, <1>5 DEF RunInv, runVars, Takes
<1> QED
  BY <1>3, <1>4, <1>5 DEF NodeRunNext

\* The inductive invariant of a message at a node.
THEOREM RunInvariant == NodeRunSpec => []RunInv
  BY RunStarts, RunSteps, PTL DEF NodeRunSpec

\* RunInv holds the types.
LEMMA RunTyped == RunInv => NodeRunTypeOK
<1> SUFFICES ASSUME RunInv PROVE NodeRunTypeOK
  OBVIOUS
<1>1. PICK t \in Task : t = task
  BY DEF RunInv
<1>2. IsAnswer(Process(task))
  BY <1>1, ProcessAnswers
<1>3. result.end \in {"waiting", "ok", "sent", "err", "panic", "spins"}
  BY <1>2 DEF RunInv, IsAnswer, Waiting
<1>4. DOMAIN t = {"node", "cfg", "payload"}
  BY TaskAssumption
<1> QED
  BY <1>1, <1>3, <1>4 DEF RunInv, NodeRunTypeOK

\* The state of a node that only computes is of its type.
THEOREM NodeRunsTyped == NodeRunSpec => []NodeRunTypeOK
  BY RunInvariant, RunTyped, PTL

----------------------------------------------------------------------------
(* Where the messages go.                                                    *)

\* What is known of an answer that was sent.
LEMMA SentIs ==
    ASSUME RunInv, Sent
    PROVE  /\ task \in Task /\ Process(task).end = "ok" /\ result.out = Process(task).out
           /\ result.out \in Seq(ToSet(result.out))
           /\ delivered = [w \in wires |-> Picked(result.out, Takes(w, result.out, wires))]
<1>1. PICK t \in Task : t = task
  BY DEF RunInv
<1>2. IsAnswer(Process(task))
  BY <1>1, ProcessAnswers
<1>3. /\ Process(task).end = "ok" /\ result = [end |-> "sent", out |-> Process(task).out]
      /\ delivered = [w \in wires |-> Picked(result.out, Takes(w, result.out, wires))]
  BY <1>2 DEF RunInv, Sent, IsAnswer, Waiting
<1>4. result.out = Process(task).out
  BY <1>3
<1> QED
  BY <1>1, <1>2, <1>3, <1>4 DEF IsAnswer

\* A node has finitely many ports.
LEMMA PortsAreFew == ASSUME NEW node PROVE IsFiniteSet(Ports(node))
<1>1. /\ IsFiniteSet({"pass", "reject"}) /\ IsFiniteSet({"out1", "out2", "default"})
      /\ IsFiniteSet({"true", "false"}) /\ IsFiniteSet({"item", "done"}) /\ IsFiniteSet({"chunks", "error"})
      /\ IsFiniteSet({"payload"}) /\ IsFiniteSet({"output", "error"}) /\ IsFiniteSet({"output"})
  <2>1. ASSUME NEW a, NEW b, NEW c PROVE IsFiniteSet({a}) /\ IsFiniteSet({a, b}) /\ IsFiniteSet({a, b, c})
    <3>1. IsFiniteSet({a})
      BY FS_Singleton
    <3>2. IsFiniteSet({a} \cup {b})
      BY <3>1, FS_AddElement
    <3>3. IsFiniteSet(({a} \cup {b}) \cup {c})
      BY <3>2, FS_AddElement
    <3>4. {a} \cup {b} = {a, b} /\ ({a} \cup {b}) \cup {c} = {a, b, c}
      OBVIOUS
    <3> QED
      BY <3>1, <3>2, <3>3, <3>4
  <2> QED
    BY <2>1
<1> QED
  BY <1>1, Zenon DEF Ports

\* What RunInv says of the wires is what WiresFollowPorts asks.
LEMMA WiresAreFollowed == RunInv => WiresFollowPorts
<1> SUFFICES ASSUME RunInv, Sent, NEW w \in wires
             PROVE  IF Cardinality(wires) > 1
                    THEN [i \in DOMAIN delivered[w] |-> delivered[w][i].payload] = Payloads(w)
                    ELSE Len(delivered[w]) = Len(result.out)
  BY DEF WiresFollowPorts
<1>1. PICK q : q = result.out
  OBVIOUS
<1>2. q \in Seq(ToSet(q)) /\ delivered[w] = Picked(q, Takes(w, q, wires))
  BY <1>1, SentIs
<1>3. IsFiniteSet(wires)
  BY PortsAreFew, FS_Subset DEF RunInv
<1>4. Cardinality(wires) \in Nat /\ Cardinality(wires) # 0
  BY <1>3, FS_CardinalityType, FS_EmptySet
<1>5. CASE Cardinality(wires) > 1
  <2>1. Takes(w, q, wires) = {m \in ToSet(q) : m.port = w}
    BY <1>4, <1>5 DEF Takes
  <2>2. delivered[w] = Picked(q, {m \in ToSet(q) : m.port = w})
    BY <1>2, <2>1
  <2> QED
    BY <1>1, <1>5, <2>2 DEF Payloads
<1>6. CASE ~(Cardinality(wires) > 1)
  <2>1. Takes(w, q, wires) = ToSet(q)
    BY <1>4, <1>6 DEF Takes
  <2>2. \A i \in 1..Len(q) : q[i] \in ToSet(q)
    BY <1>2
  <2>3. Picked(q, ToSet(q)) = q
    BY <1>2, <2>2, PickedAll
  <2> QED
    BY <1>1, <1>2, <1>6, <2>1, <2>3
<1> QED
  BY <1>5, <1>6

\* With several wires each carries the messages of its own port, and a single
\* wire all of them.
THEOREM WiresCarryTheirPorts == NodeRunSpec => []WiresFollowPorts
  BY RunInvariant, WiresAreFollowed, PTL

\* The payloads of the messages on a port.
PayloadsOf(q, port) ==
    LET mine == Picked(q, {m \in ToSet(q) : m.port = port})
    IN  [i \in DOMAIN mine |-> mine[i].payload]

\* The payloads on a port are those of the messages that go there.
LEMMA PayloadsAre == ASSUME NEW port PROVE Payloads(port) = PayloadsOf(result.out, port)
  BY DEF Payloads, PayloadsOf

\* A port has messages exactly when one of them is for it.
LEMMA PortIsUsed ==
    ASSUME NEW q, q \in Seq(ToSet(q)), NEW port
    PROVE  PayloadsOf(q, port) # <<>> <=> \E i \in DOMAIN q : q[i].port = port
<1> DEFINE S == {m \in ToSet(q) : m.port = port}
<1>1. PICK mine \in Seq(ToSet(q)) : mine = Picked(q, S)
  BY PickedPlaces
<1>2. PICK g : Places(mine, q, S, g)
  BY <1>1, PickedPlaces
<1>3. PayloadsOf(q, port) = [i \in DOMAIN mine |-> mine[i].payload]
  BY <1>1 DEF PayloadsOf
<1>4. PayloadsOf(q, port) # <<>> <=> Len(mine) # 0
  <2>1. Len(mine) \in Nat /\ DOMAIN mine = 1..Len(mine)
    OBVIOUS
  <2>2. PICK p : p = [i \in 1..Len(mine) |-> mine[i].payload]
    OBVIOUS
  <2>3. PayloadsOf(q, port) = p /\ DOMAIN p = 1..Len(mine)
    BY <1>3, <2>1, <2>2
  <2>4. CASE Len(mine) = 0
    <3>1. DOMAIN p = {} /\ p = [i \in {} |-> p[i]]
      BY <2>2, <2>4
    <3>2. p = <<>>
      BY <3>1
    <3> QED
      BY <2>3, <2>4, <3>2
  <2>5. CASE Len(mine) # 0
    <3>1. 1 \in DOMAIN p
      BY <2>1, <2>3, <2>5
    <3>2. p # <<>>
      BY <3>1
    <3> QED
      BY <2>3, <2>5, <3>2
  <2> QED
    BY <2>4, <2>5
<1>5. DOMAIN q = 1..Len(q) /\ \A i \in DOMAIN q : q[i] \in ToSet(q)
  BY DEF ToSet
<1>6. Len(mine) # 0 <=> \E k \in 1..Len(q) : q[k] \in S
  <2>1. ASSUME Len(mine) # 0 PROVE \E k \in 1..Len(q) : q[k] \in S
    <3>1. 1 \in 1..Len(mine)
      BY <2>1
    <3>2. g[1] \in {k \in 1..Len(q) : q[k] \in S}
      <4> HIDE DEF S
      <4> QED
        BY <1>2, <3>1 DEF Places
    <3> HIDE DEF S
    <3> QED
      BY <3>2
  <2>2. ASSUME NEW k \in 1..Len(q), q[k] \in S PROVE Len(mine) # 0
    <3> HIDE DEF S
    <3>1. PICK i \in 1..Len(mine) : g[i] = k
      BY <1>2, <2>2 DEF Places
    <3> QED
      BY <3>1
  <2> QED
    BY <2>1, <2>2
<1>7. \A k \in 1..Len(q) : q[k] \in S <=> q[k].port = port
  BY <1>5
<1> QED
  BY <1>4, <1>5, <1>6, <1>7

\* Routing nodes send the payload as it is, to one port, or to those of the rules.
LEMMA RoutedWhole == RunInv /\ Sent => RoutesTheWhole
<1> SUFFICES ASSUME RunInv, Sent, task.node \in {"filter", "switch", "if-else"} PROVE RoutesTheWhole
  BY DEF RoutesTheWhole
<1>1. PICK q, payload : q = result.out /\ payload = task.payload
  OBVIOUS
<1>2. q \in Seq(ToSet(q)) /\ q = Process(task).out
  BY <1>1, SentIs
<1>3. CASE task.node \in {"filter", "if-else"}
  <2>1. PICK port : Process(task) = Out(Emit(port, payload))
    BY <1>1, <1>3 DEF Process, FilterNode, IfElseNode
  <2>2. q = Emit(port, payload)
    BY <1>2, <2>1, EmitIs, OutIs
  <2>3. Len(q) = 1 /\ q[1].payload = payload /\ DOMAIN q = 1..1
    <3>1. Len(q) = 1 /\ q[1] = [port |-> port, payload |-> payload]
      BY <2>2, EmitIs
    <3> QED
      BY <1>2, <3>1
  <2> QED
    BY <1>1, <1>3, <2>3 DEF RoutesTheWhole
<1>4. CASE task.node = "switch"
  <2>1. PICK t \in Task : t = task
    BY SentIs
  <2>2. PICK cfg : cfg = task.cfg
    OBVIOUS
  <2>3. Process(task) = SwitchNode(cfg, payload)
    BY <1>1, <1>4, <2>2 DEF Process
  <2>4. cfg.rules \in Seq(ToSet(cfg.rules))
    BY <1>4, <2>1, <2>2, TaskAssumption
  <2>5. SwitchMessages(cfg, payload, q)
    BY <1>2, <2>3, <2>4, SwitchAnswers
  <2>6. SentOn("default") => \E i \in DOMAIN q : q[i].port = "default"
    BY <1>1, <1>2, PayloadsAre, PortIsUsed DEF SentOn
  <2> QED
    BY <1>1, <1>4, <2>2, <2>5, <2>6 DEF RoutesTheWhole, SwitchMessages
<1> QED
  BY <1>3, <1>4

----------------------------------------------------------------------------
(* Nodes that take a list apart.                                             *)

\* A loop sends every item, in order, and then how many there were.
LEMMA LoopKeeps ==
    ASSUME NEW items \in Seq(Json), NEW q, q = Append(ItemMessages(items), DoneMessage(items))
    PROVE  PayloadsOf(q, "item") = items /\ PayloadsOf(q, "done") = <<Number(Len(items))>>
<1>1. PICK msgs, done : msgs = ItemMessages(items) /\ done = DoneMessage(items)
  OBVIOUS
<1>2. Len(items) \in Nat /\ DOMAIN items = 1..Len(items)
  OBVIOUS
<1>3. msgs = [i \in 1..Len(items) |-> [port |-> "item", payload |-> items[i]]]
  BY <1>1, <1>2 DEF ItemMessages
<1>4. DOMAIN msgs = 1..Len(items) /\ msgs = [i \in 1..Len(items) |-> msgs[i]]
  BY <1>3
<1>5. \A i \in 1..Len(items) : msgs[i].port = "item" /\ msgs[i].payload = items[i]
  BY <1>3
<1>6. done.port = "done" /\ done.payload = Number(Len(items))
  BY <1>1 DEF DoneMessage
<1>7. msgs \in Seq(ToSet(msgs)) /\ Len(msgs) = Len(items)
  BY <1>2, <1>4, ListIs
<1>8. PICK M : M = ToSet(msgs) \cup {done}
  OBVIOUS
<1>9. msgs \in Seq(M) /\ done \in M
  BY <1>7, <1>8
<1>10. PICK I, D : I = {m \in ToSet(q) : m.port = "item"} /\ D = {m \in ToSet(q) : m.port = "done"}
  OBVIOUS
<1>11. q = Append(msgs, done) /\ Len(q) = Len(items) + 1 /\ DOMAIN q = 1..Len(items) + 1
  BY <1>1, <1>7, <1>9
<1>12. q[Len(items) + 1] = done /\ \A i \in 1..Len(items) : q[i] = msgs[i]
  BY <1>7, <1>9, <1>11
<1>13. \A i \in 1..Len(items) : i \in 1..Len(items) + 1
  BY <1>2
<1>14. Len(items) + 1 \in 1..Len(items) + 1
  BY <1>2
<1>15. done \in ToSet(q) /\ \A i \in 1..Len(items) : msgs[i] \in ToSet(q)
  BY <1>11, <1>12, <1>13, <1>14 DEF ToSet
<1>16. done \notin I /\ done \in D /\ \A i \in 1..Len(msgs) : msgs[i] \in I /\ msgs[i] \notin D
  <2>1. "item" # "done"
    OBVIOUS
  <2> QED
    BY <1>5, <1>6, <1>7, <1>10, <1>15, <2>1
<1>17. Picked(q, I) = msgs
  <2>1. Picked(msgs, I) = msgs
    BY <1>9, <1>16, PickedAll
  <2>2. Picked(Append(msgs, done), I) = Picked(msgs, I)
    BY <1>9, <1>16, PickedAppend
  <2> QED
    BY <1>11, <2>1, <2>2
<1>18. Picked(q, D) = <<done>>
  <2>1. Picked(msgs, D) = <<>>
    BY <1>9, <1>16, PickedNothing
  <2>2. Append(<<>>, done) = <<done>>
    OBVIOUS
  <2>3. Picked(Append(msgs, done), D) = Append(Picked(msgs, D), done)
    BY <1>9, <1>16, PickedAppend
  <2> QED
    BY <1>11, <2>1, <2>2, <2>3
<1>19. PayloadsOf(q, "item") = items
  <2>1. PayloadsOf(q, "item") = [i \in DOMAIN msgs |-> msgs[i].payload]
    BY <1>10, <1>17 DEF PayloadsOf
  <2>2. items = [i \in 1..Len(items) |-> items[i]]
    OBVIOUS
  <2> QED
    BY <1>4, <1>5, <2>1, <2>2
<1>20. PayloadsOf(q, "done") = <<Number(Len(items))>>
  <2>1. PICK one : one = <<done>>
    OBVIOUS
  <2>2. PayloadsOf(q, "done") = [i \in DOMAIN one |-> one[i].payload]
    BY <1>10, <1>18, <2>1 DEF PayloadsOf
  <2>3. DOMAIN one = 1..1 /\ one[1] = done
    BY <2>1
  <2>4. PayloadsOf(q, "done") = [i \in 1..1 |-> Number(Len(items))]
    BY <1>6, <2>2, <2>3
  <2> QED
    BY <2>4
<1> QED
  BY <1>19, <1>20

\* Multiples of a number.
LEMMA Multiples ==
    ASSUME NEW d \in Nat, NEW i \in Nat, NEW j \in Nat, i <= j
    PROVE  i * d \in Nat /\ j * d \in Nat /\ i * d <= j * d /\ (i + 1) * d = i * d + d
  OBVIOUS

\* Where the batches of a list of n elements begin and end.
LEMMA BatchBounds ==
    ASSUME NEW n \in Nat, NEW size \in Nat \ {0}, NEW batches, batches = (n + size - 1) \div size
    PROVE  /\ batches \in Nat /\ (batches = 0 <=> n = 0)
           /\ \A k \in 0..batches : k # batches => k * size \in Nat /\ k * size < n
           /\ n <= batches * size
<1>1. n + size - 1 \in Nat
  OBVIOUS
<1>2. /\ batches \in Nat /\ batches * size \in Nat
      /\ batches * size <= n + size - 1 /\ n + size - 1 < batches * size + size
  BY <1>1, Division
<1>3. n <= batches * size
  BY <1>2
<1>4. ASSUME NEW k \in 0..batches, k # batches PROVE k * size \in Nat /\ k * size < n
  <2>1. k \in Nat /\ k + 1 \in Nat /\ k + 1 <= batches
    BY <1>2, <1>4
  <2>2. (k + 1) * size <= batches * size /\ (k + 1) * size = k * size + size /\ k * size \in Nat
    <3>1. (k + 1) * size <= batches * size
      BY <1>2, <2>1, Multiples
    <3>2. k <= k
      BY <2>1
    <3>3. (k + 1) * size = k * size + size /\ k * size \in Nat
      BY <2>1, <3>2, Multiples
    <3> QED
      BY <3>1, <3>3
  <2> QED
    BY <1>2, <2>2
<1>5. batches = 0 => n = 0
  BY <1>3
<1>6. n = 0 => batches = 0
  <2> SUFFICES ASSUME n = 0, batches # 0 PROVE FALSE
    OBVIOUS
  <2>1. 0 \in 0..batches /\ 0 # batches
    BY <1>2
  <2>2. 0 * size < n
    BY <1>4, <2>1
  <2> QED
    BY <2>2
<1> QED
  BY <1>2, <1>3, <1>4, <1>5, <1>6

Batches(items, size) ==
    [i \in 1..(Len(items) + size - 1) \div size |-> SubSeq(items, (i - 1) * size + 1, BatchEnd(items, size, i))]

\* The batches are full but for the last, and make the list when joined.
LEMMA BatchesJoin ==
    ASSUME NEW S, NEW items \in Seq(S), NEW size \in Nat \ {0}
    PROVE  LET b == Batches(items, size)
           IN  /\ b \in Seq(Seq(S)) /\ FlattenSeq(b) = items
               /\ \A i \in DOMAIN b : Len(b[i]) \in 1..size
               /\ \A i \in 1..Len(b) - 1 : Len(b[i]) = size
<1>1. PICK n \in Nat : n = Len(items)
  OBVIOUS
<1>2. PICK k \in Nat : k = (n + size - 1) \div size
  <2>1. PICK k : k = (n + size - 1) \div size
    OBVIOUS
  <2>2. n + size - 1 \in Nat
    OBVIOUS
  <2>3. k \in Nat
    BY <2>1, <2>2, Division
  <2> QED
    BY <2>1, <2>3
<1>3. PICK b : b = Batches(items, size)
  OBVIOUS
<1>4. b = [i \in 1..k |-> SubSeq(items, (i - 1) * size + 1, BatchEnd(items, size, i))]
  BY <1>1, <1>2, <1>3 DEF Batches
<1>5. n <= k * size /\ \A i \in 0..k : i # k => i * size \in Nat /\ i * size < n
  BY <1>2, BatchBounds
<1>6. ASSUME NEW i \in 1..k
      PROVE  /\ (i - 1) * size \in Nat /\ (i - 1) * size < n /\ BatchEnd(items, size, i) \in 1..n
             /\ i # k => BatchEnd(items, size, i) = i * size
             /\ i = k => BatchEnd(items, size, i) = n
             /\ (i - 1) * size < BatchEnd(items, size, i) /\ BatchEnd(items, size, i) <= (i - 1) * size + size
             /\ (i # k => BatchEnd(items, size, i) = (i - 1) * size + size)
  <2>1. i - 1 \in 0..k /\ i - 1 # k /\ i \in 0..k /\ i - 1 \in Nat /\ (i - 1) + 1 = i
    OBVIOUS
  <2>2. PICK a \in Nat : a = (i - 1) * size
    BY <1>5, <2>1
  <2>3. i * size = a + size
    <3>1. PICK j \in Nat : j = i - 1
      BY <2>1
    <3>2. (j + 1) * size = j * size + size
      BY Multiples
    <3> QED
      BY <2>1, <2>2, <3>1, <3>2
  <2>4. a < n
    BY <1>5, <2>1, <2>2
  <2>5. PICK e : e = BatchEnd(items, size, i)
    OBVIOUS
  <2>6. e = IF a + size < n THEN a + size ELSE n
    BY <1>1, <2>3, <2>5 DEF BatchEnd
  <2>7. i # k => a + size < n
    BY <1>5, <2>1, <2>3
  <2>8. i = k => n <= a + size
    BY <1>5, <2>3
  <2>9. e \in 1..n /\ (i # k => e = a + size) /\ (i = k => e = n) /\ a < e /\ e <= a + size
    BY <2>4, <2>6, <2>7, <2>8
  <2> QED
    BY <2>2, <2>3, <2>4, <2>5, <2>9
<1>7. ASSUME NEW i \in 1..k
      PROVE  b[i] \in Seq(S) /\ Len(b[i]) = BatchEnd(items, size, i) - (i - 1) * size
  <2>1. PICK a \in Nat, e \in 1..n : a = (i - 1) * size /\ e = BatchEnd(items, size, i) /\ a < e
    BY <1>6
  <2>2. b[i] = SubSeq(items, a + 1, e)
    BY <1>4, <2>1
  <2>3. SubSeq(items, a + 1, e) \in Seq(S) /\ Len(SubSeq(items, a + 1, e)) = e - a
    BY <1>1, <2>1, SubSeqProperties
  <2> QED
    BY <2>1, <2>2, <2>3
<1>8. b \in Seq(Seq(S)) /\ Len(b) = k /\ DOMAIN b = 1..k
  <2>1. DOMAIN b = 1..k /\ b = [i \in 1..k |-> b[i]]
    BY <1>4
  <2>2. b \in [1..k -> Seq(S)]
    BY <1>7, <2>1
  <2> QED
    BY <2>1, <2>2, SeqDef, LenProperties
<1>9. ASSUME NEW i \in 1..k PROVE Len(b[i]) \in 1..size /\ (i # k => Len(b[i]) = size)
  <2>1. PICK a \in Nat, e \in 1..n : a = (i - 1) * size /\ e = BatchEnd(items, size, i)
    BY <1>6
  <2>2. a < e /\ e <= a + size /\ (i # k => e = a + size)
    BY <1>6, <2>1
  <2>3. Len(b[i]) = e - a
    BY <1>7, <2>1
  <2> QED
    BY <2>2, <2>3
<1>10. PICK h : JoinsBy(h, b, S) /\ FlattenSeq(b) = h[k]
  BY <1>8, JoinsEnd
<1> DEFINE T == {i \in Nat : i <= k /\ i # 0 => h[i] = SubSeq(items, 1, BatchEnd(items, size, i))}
<1>11. 0 \in T
  OBVIOUS
<1>12. ASSUME NEW i \in Nat, i \in T PROVE i + 1 \in T
  <2> SUFFICES ASSUME i + 1 <= k PROVE h[i + 1] = SubSeq(items, 1, BatchEnd(items, size, i + 1))
    OBVIOUS
  <2>1. i + 1 \in 1..k /\ (i + 1) - 1 = i /\ i <= k
    OBVIOUS
  <2>2. h[i + 1] = h[i] \o b[i + 1]
    BY <1>8, <1>10, <2>1 DEF JoinsBy
  <2>3. PICK e \in 1..n : e = BatchEnd(items, size, i + 1)
    BY <1>6, <2>1
  <2>4. i * size \in Nat /\ i * size < e
    BY <1>6, <2>1, <2>3
  <2>5. b[i + 1] = SubSeq(items, i * size + 1, e)
    BY <1>4, <2>1, <2>3
  <2>6. CASE i = 0
    <3>1. h[0] = <<>>
      BY <1>10 DEF JoinsBy
    <3>2. b[1] = SubSeq(items, 1, e)
      BY <2>5, <2>6
    <3>3. b[1] \in Seq(S)
      BY <1>7, <2>1, <2>6
    <3>4. <<>> \o b[1] = b[1]
      BY <3>3
    <3> QED
      BY <2>2, <2>3, <2>6, <3>1, <3>2, <3>4
  <2>7. CASE i # 0
    <3>1. i \in 1..k /\ i # k /\ i # 0
      BY <2>1, <2>7
    <3>2. BatchEnd(items, size, i) = i * size
      BY <1>6, <3>1
    <3>3. h[i] = SubSeq(items, 1, i * size)
      <4>1. h[i] = SubSeq(items, 1, BatchEnd(items, size, i))
        BY <1>12, <2>1, <3>1
      <4> QED
        BY <3>2, <4>1
    <3>4. PICK m \in Nat : m = i * size
      BY <2>4
    <3>5. SubSeq(items, 1, m) \o SubSeq(items, m + 1, e) = SubSeq(items, 1, e)
      <4>1. 1 \in 1..(m + 1) /\ m \in 0..e /\ e <= Len(items) /\ m < e
        BY <1>1, <2>3, <2>4, <3>4
      <4> QED
        BY <4>1, ConcatAdjacentSubSeq
    <3> QED
      BY <2>2, <2>3, <2>5, <3>3, <3>4, <3>5
  <2> QED
    BY <2>6, <2>7
<1>13. k \in T
  <2> HIDE DEF T
  <2> QED
    BY <1>11, <1>12, Numbers!NumberInduction
<1>14. FlattenSeq(b) = items
  <2>1. CASE k = 0
    <3>1. n = 0
      BY <1>5, <2>1
    <3>2. items = <<>>
      <4>1. Len(items) = 0
        BY <1>1, <3>1
      <4> QED
        BY <4>1
    <3> QED
      BY <1>10, <2>1, <3>2 DEF JoinsBy
  <2>2. CASE k # 0
    <3>1. k \in 1..k
      BY <2>2
    <3>2. BatchEnd(items, size, k) = n
      BY <1>6, <3>1
    <3>3. h[k] = SubSeq(items, 1, n)
      BY <1>13, <2>2, <3>2
    <3>4. SubSeq(items, 1, n) = items
      <4>1. PICK r : r = SubSeq(items, 1, n)
        OBVIOUS
      <4>2. \A i \in 1..n : items[i] \in S
        BY <1>1
      <4>3. r \in Seq(S) /\ Len(r) = n /\ \A i \in 1..n : r[i] = items[i]
        BY <4>1, <4>2, SubSeqProperties
      <4>4. r = items
        BY <1>1, <4>3
      <4> QED
        BY <4>1, <4>4
    <3> QED
      BY <1>10, <3>3, <3>4
  <2> QED
    BY <2>1, <2>2
<1> QED
  BY <1>3, <1>8, <1>9, <1>14

----------------------------------------------------------------------------
(* Nodes that count a list.                                                  *)

\* Raising one number raises the sum by as much.
LEMMA TotalRaised ==
    ASSUME NEW q \in Seq(Int), NEW r \in Seq(Int), Len(q) = Len(r), NEW j \in 1..Len(q), NEW x \in Int,
           r[j] = q[j] + x, \A i \in 1..Len(q) : i # j => r[i] = q[i]
    PROVE  Total(r) = Total(q) + x
<1>1. PICK h : SumsBy(h, q) /\ Total(q) = h[Len(q)]
  BY TotalBy
<1>2. PICK g : SumsBy(g, r) /\ Total(r) = g[Len(r)]
  BY TotalBy
<1> DEFINE T == {n \in Nat : n <= Len(q) => g[n] = h[n] + (IF n < j THEN 0 ELSE x)}
<1>3. 0 \in T
  BY <1>1, <1>2 DEF SumsBy
<1>4. ASSUME NEW n \in Nat, n \in T PROVE n + 1 \in T
  <2> SUFFICES ASSUME n + 1 <= Len(q) PROVE g[n + 1] = h[n + 1] + (IF n + 1 < j THEN 0 ELSE x)
    OBVIOUS
  <2>1. /\ n + 1 \in 1..Len(q) /\ n + 1 \in 1..Len(r) /\ (n + 1) - 1 = n /\ n \in 0..Len(q)
        /\ g[n] = h[n] + (IF n < j THEN 0 ELSE x)
    BY <1>4
  <2>2. g[n + 1] = g[n] + r[n + 1] /\ h[n + 1] = h[n] + q[n + 1] /\ h[n] \in Int
    BY <1>1, <1>2, <2>1 DEF SumsBy
  <2>3. q[n + 1] \in Int
    BY <2>1
  <2>4. CASE n + 1 = j
    <3>1. r[n + 1] = q[n + 1] + x /\ n < j /\ ~(n + 1 < j)
      BY <2>4
    <3>2. PICK a \in Int, b \in Int : a = h[n] /\ b = q[n + 1]
      BY <2>2, <2>3
    <3>3. g[n] = a
      BY <2>1, <3>1, <3>2
    <3>4. g[n + 1] = a + (b + x) /\ h[n + 1] = a + b
      BY <2>2, <3>1, <3>2, <3>3
    <3> QED
      BY <3>1, <3>4
  <2>5. CASE n + 1 # j
    <3>1. r[n + 1] = q[n + 1] /\ (n < j <=> n + 1 < j)
      BY <2>1, <2>5
    <3> QED
      BY <2>1, <2>2, <2>3, <3>1
  <2> QED
    BY <2>4, <2>5
<1>5. Len(q) \in T
  <2>1. Len(q) \in Nat
    OBVIOUS
  <2> HIDE DEF T
  <2> QED
    BY <1>3, <1>4, <2>1, Numbers!NumberInduction
<1>6. ~(Len(q) < j)
  OBVIOUS
<1> QED
  BY <1>1, <1>2, <1>5, <1>6

\* The sum of one number over and over.
LEMMA TotalSame ==
    ASSUME NEW q \in Seq(Int), NEW c \in {0, 1}, \A i \in 1..Len(q) : q[i] = c
    PROVE  Total(q) = IF c = 0 THEN 0 ELSE Len(q)
<1>1. PICK h : SumsBy(h, q) /\ Total(q) = h[Len(q)]
  BY TotalBy
<1> DEFINE T == {n \in Nat : n <= Len(q) => h[n] = IF c = 0 THEN 0 ELSE n}
<1>2. 0 \in T
  BY <1>1 DEF SumsBy
<1>3. ASSUME NEW n \in Nat, n \in T PROVE n + 1 \in T
  <2> SUFFICES ASSUME n + 1 <= Len(q) PROVE h[n + 1] = IF c = 0 THEN 0 ELSE n + 1
    OBVIOUS
  <2>1. n + 1 \in 1..Len(q) /\ (n + 1) - 1 = n /\ h[n] = IF c = 0 THEN 0 ELSE n
    BY <1>3
  <2>2. h[n + 1] = h[n] + c
    BY <1>1, <2>1 DEF SumsBy
  <2> QED
    BY <2>1, <2>2
<1>4. Len(q) \in T
  <2>1. Len(q) \in Nat
    OBVIOUS
  <2> HIDE DEF T
  <2> QED
    BY <1>2, <1>3, <2>1, Numbers!NumberInduction
<1> QED
  BY <1>1, <1>4

\* What the elements of a list weigh together.
Weigh(w, q) == Total([i \in DOMAIN q |-> w[q[i]]])

\* The weights of a sequence are a sequence of numbers.
LEMMA Weights ==
    ASSUME NEW D, NEW w \in [D -> Int], NEW q \in Seq(D)
    PROVE  [i \in DOMAIN q |-> w[q[i]]] \in Seq(Int) /\ Len([i \in DOMAIN q |-> w[q[i]]]) = Len(q)
<1>1. PICK r : r = [i \in DOMAIN q |-> w[q[i]]]
  OBVIOUS
<1>2. Len(q) \in Nat /\ DOMAIN q = 1..Len(q) /\ \A i \in 1..Len(q) : q[i] \in D
  OBVIOUS
<1>3. r = [i \in 1..Len(q) |-> w[q[i]]]
  BY <1>1, <1>2
<1>4. r \in [1..Len(q) -> Int]
  BY <1>2, <1>3
<1>5. r \in Seq(Int) /\ Len(r) = Len(q)
  BY <1>2, <1>3, <1>4, SeqDef, LenProperties
<1> QED
  BY <1>1, <1>5

\* An element at the end of a sequence adds its weight.
LEMMA WeighAppend ==
    ASSUME NEW D, NEW w \in [D -> Int], NEW q \in Seq(D), NEW x \in D
    PROVE  Weigh(w, q) \in Int /\ Weigh(w, Append(q, x)) = Weigh(w, q) + w[x]
<1>1. PICK r : r = [i \in DOMAIN q |-> w[q[i]]]
  OBVIOUS
<1>2. r \in Seq(Int) /\ Len(r) = Len(q)
  BY <1>1, Weights
<1>3. PICK p \in Seq(D) : p = Append(q, x)
  BY AppendProperties
<1>4. PICK s : s = [i \in DOMAIN p |-> w[p[i]]]
  OBVIOUS
<1>5. s \in Seq(Int) /\ Len(s) = Len(p)
  BY <1>4, Weights
<1>6. Len(p) = Len(q) + 1 /\ p[Len(q) + 1] = x /\ \A i \in 1..Len(q) : p[i] = q[i]
  BY <1>3
<1>7. w[x] \in Int
  OBVIOUS
<1>8. s = Append(r, w[x])
  <2>1. PICK y \in Int : y = w[x]
    BY <1>7
  <2>2. PICK a \in Seq(Int) : a = Append(r, y)
    BY <1>2, AppendProperties
  <2>3. Len(a) = Len(q) + 1 /\ a[Len(q) + 1] = y /\ \A i \in 1..Len(q) : a[i] = r[i]
    BY <1>2, <2>2
  <2>4. DOMAIN p = 1..Len(p) /\ DOMAIN q = 1..Len(q) /\ Len(q) \in Nat
    OBVIOUS
  <2>5. \A i \in 1..Len(q) + 1 : i \in 1..Len(q) \/ i = Len(q) + 1
    <3>1. PICK n \in Nat : n = Len(q)
      BY <2>4
    <3>2. \A i \in 1..n + 1 : i \in 1..n \/ i = n + 1
      OBVIOUS
    <3> QED
      BY <3>1, <3>2
  <2>6. ASSUME NEW i \in 1..Len(q) + 1 PROVE s[i] = a[i]
    <3>1. s[i] = w[p[i]]
      BY <1>4, <1>6, <2>4
    <3>2. CASE i \in 1..Len(q)
      BY <1>1, <1>6, <2>3, <2>4, <3>1, <3>2
    <3>3. CASE i = Len(q) + 1
      BY <1>6, <2>1, <2>3, <3>1, <3>3
    <3> QED
      BY <2>5, <3>2, <3>3
  <2>7. s = a
    BY <1>5, <1>6, <2>3, <2>6
  <2> QED
    BY <2>1, <2>2, <2>7
<1>9. Total(r) \in Int /\ Total(Append(r, w[x])) = Total(r) + w[x]
  BY <1>2, <1>7, TotalAppend
<1> QED
  BY <1>1, <1>3, <1>4, <1>8, <1>9 DEF Weigh

\* Nothing weighs nothing.
LEMMA WeighNone == ASSUME NEW w PROVE Weigh(w, <<>>) = 0
<1>1. [i \in DOMAIN <<>> |-> w[<<>>[i]]] = <<>>
  OBVIOUS
<1> QED
  BY <1>1, TotalNone DEF Weigh

\* A list of the elements of a set, each of them once.
Listing(q, K) ==
    /\ q \in Seq(K) /\ DOMAIN q = 1..Cardinality(K) /\ Len(q) = Cardinality(K) /\ Cardinality(K) \in Nat
    /\ \A k \in K : \E i \in DOMAIN q : q[i] = k
    /\ \A i, j \in DOMAIN q : q[i] = q[j] => i = j

\* A finite set, as a sequence, has each of its elements once.
LEMMA SetIsListed ==
    ASSUME NEW K, IsFiniteSet(K)
    PROVE  Listing(SetToSeq(K), K)
<1>1. Cardinality(K) \in Nat /\ ExistsBijection(1..Cardinality(K), K)
  BY FS_CardinalityType
<1>2. PICK n \in Nat : n = Cardinality(K)
  BY <1>1
<1>3. PICK f \in [1..n -> K] : IsInjective(f)
  <2>1. PICK f \in Bijection(1..n, K) : TRUE
    BY <1>1, <1>2 DEF ExistsBijection
  <2> QED
    BY <2>1 DEF Bijection, Injection
<1>4. PICK q : q = SetToSeq(K)
  OBVIOUS
<1>5. q \in [1..n -> K] /\ IsInjective(q)
  BY <1>2, <1>3, <1>4 DEF SetToSeq
<1>6. \A i, j \in 1..n : q[i] = q[j] => i = j
  BY <1>5 DEF IsInjective
<1>7. \A k \in K : \E i \in 1..n : q[i] = k
  <2>1. q \in Injection(1..n, K)
    BY <1>5 DEF Injection
  <2>2. IsFiniteSet(1..n) /\ Cardinality(1..n) = n
    BY FS_Interval
  <2>3. q \in Surjection(1..n, K)
    BY <1>2, <2>1, <2>2, FS_Injection
  <2> QED
    BY <2>3 DEF Surjection
<1>8. q \in Seq(K) /\ Len(q) = n /\ DOMAIN q = 1..n
  BY <1>5, SeqDef, LenProperties
<1> QED
  BY <1>2, <1>4, <1>6, <1>7, <1>8 DEF Listing

\* Every element of a list belongs to exactly one of the sets parts[i].
Partition(D, parts, m) ==
    /\ \A x \in D : \E i \in 1..m : x \in parts[i]
    /\ \A x \in D : \A i, j \in 1..m : x \in parts[i] /\ x \in parts[j] => i = j

PartWeights(w, q, parts, m) == [i \in 1..m |-> Weigh(w, Picked(q, parts[i]))]

\* One element more weighs as much more where it is picked.
LEMMA WeighPicked ==
    ASSUME NEW D, NEW w \in [D -> Int], NEW p \in Seq(D), NEW x \in D, NEW S
    PROVE  /\ x \in S => Weigh(w, Picked(Append(p, x), S)) = Weigh(w, Picked(p, S)) + w[x]
           /\ x \notin S => Weigh(w, Picked(Append(p, x), S)) = Weigh(w, Picked(p, S))
<1>0. Picked(Append(p, x), S) = IF x \in S THEN Append(Picked(p, S), x) ELSE Picked(p, S)
  BY PickedAppend
<1>1. Picked(p, S) \in Seq(D) /\ Picked(Append(p, x), S) = IF x \in S THEN Append(Picked(p, S), x) ELSE Picked(p, S)
  BY <1>0, PickedPlaces
<1>2. PICK z : z = Picked(p, S)
  OBVIOUS
<1>3. z \in Seq(D)
  BY <1>1, <1>2
<1>4. Weigh(w, Append(z, x)) = Weigh(w, z) + w[x]
  BY <1>3, WeighAppend
<1>5. CASE x \in S
  <2>1. Picked(Append(p, x), S) = Append(Picked(p, S), x)
    BY <1>1, <1>5
  <2>2. Picked(Append(p, x), S) = Append(z, x)
    BY <1>2, <2>1
  <2> QED
    BY <1>2, <1>4, <1>5, <2>2
<1>6. CASE x \notin S
  BY <1>1, <1>6
<1> QED
  BY <1>5, <1>6

\* The weights of the parts are numbers, one per part.
ArePartWeights(r, w, q, parts, m) ==
    /\ r \in Seq(Int) /\ Len(r) = m
    /\ \A i \in 1..m : r[i] = Weigh(w, Picked(q, parts[i]))

\* What the parts of a sequence weigh is a number for each of them.
LEMMA PartsTyped ==
    ASSUME NEW D, NEW w \in [D -> Int], NEW p \in Seq(D), NEW m \in Nat, NEW parts
    PROVE  ArePartWeights(PartWeights(w, p, parts, m), w, p, parts, m)
<1>1. PICK r : r = PartWeights(w, p, parts, m)
  OBVIOUS
<1>2. r = [i \in 1..m |-> Weigh(w, Picked(p, parts[i]))]
  BY <1>1 DEF PartWeights
<1>3. ASSUME NEW i \in 1..m PROVE r[i] \in Int
  <2>1. PICK S : S = parts[i]
    OBVIOUS
  <2>2. PICK z \in Seq(D) : z = Picked(p, S)
    BY PickedPlaces
  <2>3. Weigh(w, z) \in Int
    <3>1. PICK s \in Seq(Int) : s = [j \in DOMAIN z |-> w[z[j]]]
      BY Weights
    <3>2. Total(s) \in Int
      BY TotalAppend
    <3> QED
      BY <3>1, <3>2 DEF Weigh
  <2> QED
    BY <1>2, <2>1, <2>2, <2>3
<1>4. r \in [1..m -> Int]
  BY <1>2, <1>3
<1>5. r \in Seq(Int) /\ Len(r) = m
  BY <1>4, SeqDef, LenProperties
<1> QED
  BY <1>1, <1>2, <1>5 DEF ArePartWeights

\* One element more makes its own part heavier, and no other.
LEMMA PartsGrow ==
    ASSUME NEW D, NEW w \in [D -> Int], NEW p \in Seq(D), NEW x \in D, NEW m \in Nat, NEW parts,
           Partition(D, parts, m)
    PROVE  Total(PartWeights(w, Append(p, x), parts, m)) = Total(PartWeights(w, p, parts, m)) + w[x]
<1>1. ASSUME NEW i \in 1..m
      PROVE  /\ x \in parts[i] => Weigh(w, Picked(Append(p, x), parts[i])) = Weigh(w, Picked(p, parts[i])) + w[x]
             /\ x \notin parts[i] => Weigh(w, Picked(Append(p, x), parts[i])) = Weigh(w, Picked(p, parts[i]))
  BY WeighPicked
<1>2. PICK j \in 1..m : x \in parts[j] /\ \A i \in 1..m : x \in parts[i] => i = j
  BY DEF Partition
<1>3. PICK y \in Int : y = w[x]
  OBVIOUS
<1>4. PICK a \in Seq(D) : a = Append(p, x)
  BY AppendProperties
<1>5. PICK r \in Seq(Int) : r = PartWeights(w, p, parts, m) /\ Len(r) = m /\ \A i \in 1..m : r[i] = Weigh(w, Picked(p, parts[i]))
  <2>1. ArePartWeights(PartWeights(w, p, parts, m), w, p, parts, m)
    BY PartsTyped
  <2> QED
    BY <2>1 DEF ArePartWeights
<1>6. PICK s \in Seq(Int) : s = PartWeights(w, Append(p, x), parts, m) /\ Len(s) = m
                            /\ \A i \in 1..m : s[i] = Weigh(w, Picked(Append(p, x), parts[i]))
  <2>1. ArePartWeights(PartWeights(w, a, parts, m), w, a, parts, m)
    BY PartsTyped
  <2> QED
    BY <1>4, <2>1 DEF ArePartWeights
<1>7. s[j] = r[j] + y /\ \A i \in 1..m : i # j => s[i] = r[i]
  BY <1>1, <1>2, <1>3, <1>5, <1>6
<1>8. Total(s) = Total(r) + y
  <2>1. j \in 1..Len(r) /\ Len(r) = Len(s) /\ s[j] = r[j] + y /\ \A i \in 1..Len(r) : i # j => s[i] = r[i]
    BY <1>5, <1>6, <1>7
  <2> QED
    BY <2>1, TotalRaised
<1> QED
  BY <1>3, <1>5, <1>6, <1>8

\* The parts of a list weigh together what the list weighs.
LEMMA PartsAddUp ==
    ASSUME NEW D, NEW w \in [D -> Int], NEW q \in Seq(D), NEW m \in Nat, NEW parts, Partition(D, parts, m)
    PROVE  Total(PartWeights(w, q, parts, m)) = Weigh(w, q)
<1> DEFINE P(n) == SubSeq(q, 1, n)
           Even(n) == /\ P(n) \in Seq(D)
                      /\ Total(PartWeights(w, P(n), parts, m)) = Weigh(w, P(n))
           T == {n \in Nat : n <= Len(q) => Even(n)}
<1>0. Len(q) \in Nat /\ \A i \in 1..Len(q) : q[i] \in D
  OBVIOUS
<1>2. 0 \in T
  <2>1. P(0) = <<>>
    BY SubSeqEmpty
  <2>2. <<>> \in Seq(D)
    OBVIOUS
  <2>3. PICK r \in Seq(Int) : r = PartWeights(w, <<>>, parts, m) /\ Len(r) = m /\ \A i \in 1..m : r[i] = Weigh(w, Picked(<<>>, parts[i]))
    <3>1. ArePartWeights(PartWeights(w, <<>>, parts, m), w, <<>>, parts, m)
      BY <2>2, PartsTyped
    <3> QED
      BY <3>1 DEF ArePartWeights
  <2>4. \A i \in 1..Len(r) : r[i] = 0
    BY <2>3, PickedNone, WeighNone
  <2>5. Total(r) = 0
    BY <2>4, TotalSame
  <2>6. Even(0)
    BY <2>1, <2>2, <2>3, <2>5, WeighNone
  <2> HIDE DEF Even
  <2> QED
    BY <2>6
<1>3. ASSUME NEW n \in Nat, n \in T PROVE n + 1 \in T
  <2> SUFFICES ASSUME n + 1 <= Len(q) PROVE Even(n + 1)
    <3> HIDE DEF Even
    <3> QED
      OBVIOUS
  <2>1. Even(n)
    <3>1. n <= Len(q)
      BY <1>0
    <3> HIDE DEF Even
    <3> QED
      BY <1>3, <3>1
  <2>2. PICK p \in Seq(D), x \in D : p = P(n) /\ x = q[n + 1]
    <3>1. P(n) \in Seq(D)
      BY <2>1
    <3>2. q[n + 1] \in D
      <4>1. n + 1 \in 1..Len(q)
        BY <1>0
      <4> QED
        BY <1>0, <4>1
    <3> HIDE DEF P
    <3> QED
      BY <3>1, <3>2
  <2>3. P(n + 1) = Append(p, x)
    <3>1. n + 1 \in 1..Len(q) /\ 1 <= n + 1
      BY <1>0
    <3>2. PICK s : s = P(n + 1)
      OBVIOUS
    <3>3. s \in Seq(D) /\ Len(s) = n + 1 /\ \A i \in 1..n + 1 : s[i] = q[i]
      <4>1. \A i \in 1..n + 1 : q[i] \in D
        BY <1>0
      <4> QED
        BY <3>2, <4>1, SubSeqProperties
    <3>4. Len(p) = n /\ \A i \in 1..n : p[i] = q[i]
      <4>1. \A i \in 1..n : q[i] \in D
        BY <1>0
      <4>2. Len(p) = n
        BY <2>2, <4>1, SubSeqProperties
      <4>3. \A i \in 1..n : p[i] = q[i]
        BY <2>2, <4>1, SubSeqProperties
      <4> QED
        BY <4>2, <4>3
    <3>5. PICK a \in Seq(D) : a = Append(p, x)
      BY AppendProperties
    <3>6. Len(a) = n + 1 /\ a[n + 1] = x /\ \A i \in 1..n : a[i] = p[i]
      <4>1. Len(a) = Len(p) + 1 /\ a[Len(p) + 1] = x
        BY <2>2, <3>5, AppendProperties
      <4>2. \A i \in 1..Len(p) : a[i] = p[i]
        BY <2>2, <3>5, AppendProperties
      <4> QED
        BY <3>4, <4>1, <4>2
    <3>7. \A i \in 1..n + 1 : s[i] = a[i]
      <4>1. \A i \in 1..n + 1 : i \in 1..n \/ i = n + 1
        OBVIOUS
      <4> QED
        BY <2>2, <3>3, <3>4, <3>6, <4>1
    <3>8. s = a
      BY <3>3, <3>6, <3>7
    <3> QED
      BY <3>2, <3>5, <3>8
  <2>4. PICK a \in Seq(D) : a = Append(p, x)
    BY AppendProperties
  <2>5. Total(PartWeights(w, Append(p, x), parts, m)) = Total(PartWeights(w, p, parts, m)) + w[x]
    <3> HIDE DEF P, Even, T
    <3> QED
      BY <2>2, PartsGrow
  <2>6. Weigh(w, Append(p, x)) = Weigh(w, p) + w[x]
    BY WeighAppend
  <2>7. Total(PartWeights(w, p, parts, m)) = Weigh(w, p)
    BY <2>1, <2>2
  <2> QED
    BY <2>3, <2>4, <2>5, <2>6, <2>7
<1>4. Even(Len(q))
  <2>1. Len(q) \in T
    <3> HIDE DEF T
    <3> QED
      BY <1>0, <1>2, <1>3, Numbers!NumberInduction
  <2>2. Len(q) <= Len(q)
    BY <1>0
  <2> HIDE DEF Even
  <2> QED
    BY <2>1, <2>2
<1>5. P(Len(q)) = q
  <2>1. PICK r : r = P(Len(q))
    OBVIOUS
  <2>2. r \in Seq(D) /\ Len(r) = Len(q) /\ \A i \in 1..Len(q) : r[i] = q[i]
    BY <1>0, <2>1, SubSeqProperties
  <2>3. r = q
    BY <2>2
  <2> QED
    BY <2>1, <2>3
<1> QED
  BY <1>4, <1>5

\* What a value says is a number, or counts as zero.
LEMMA NumbersAreIntegers == ASSUME NEW v \in Json, NEW f PROVE NumberAt(v, f) \in Int
<1>1. PICK m \in JsonOrNone : m = Member(v, f)
  <2>1. v \in JsonOrNone
    BY DEF JsonOrNone
  <2> QED
    BY <2>1, FieldIsJson
<1>2. Is(m, "number") => m.number \in Int
  <2>1. SUFFICES ASSUME Is(m, "number") PROVE m.number \in Int
    OBVIOUS
  <2>2. m # NoValue
    BY <2>1 DEF Is, NoValue
  <2>3. m \in Json
    BY <2>2 DEF JsonOrNone
  <2>4. m.number \in Range(Numerals)
    BY <2>1, <2>3, JsonAssumption
  <2>5. \A x \in Range(Numerals) : x \in Int
    BY JsonAssumption DEF Range
  <2> QED
    BY <2>4, <2>5
<1> QED
  BY <1>1, <1>2 DEF NumberAt

\* Counting is weighing each as one,
LEMMA CountIsWeight ==
    ASSUME NEW D, NEW z \in Seq(D)
    PROVE  Weigh([v \in D |-> 1], z) = Len(z)
<1>1. PICK w : w = [v \in D |-> 1]
  OBVIOUS
<1>2. w \in [D -> Int] /\ \A v \in D : w[v] = 1
  BY <1>1
<1>0. [i \in DOMAIN z |-> w[z[i]]] \in Seq(Int) /\ Len([i \in DOMAIN z |-> w[z[i]]]) = Len(z)
  <2>1. w \in [D -> Int]
    BY <1>2
  <2> QED
    BY <2>1, Weights
<1>3. PICK s \in Seq(Int) : s = [i \in DOMAIN z |-> w[z[i]]] /\ Len(s) = Len(z)
  BY <1>0
<1>4. \A i \in 1..Len(s) : s[i] = 1
  BY <1>2, <1>3
<1>5. Total(s) = Len(s)
  BY <1>4, TotalSame
<1>6. Weigh(w, z) = Len(z)
  BY <1>3, <1>5 DEF Weigh
<1> QED
  BY <1>1, <1>6

\* and a sum is weighing each as its number.
LEMMA SumIsWeight ==
    ASSUME NEW D, NEW z \in Seq(D), NEW f
    PROVE  Weigh([v \in D |-> NumberAt(v, f)], z) = Sums(z, f)
<1>1. PICK w : w = [v \in D |-> NumberAt(v, f)]
  OBVIOUS
<1>2. \A v \in D : w[v] = NumberAt(v, f)
  BY <1>1
<1>3. [i \in DOMAIN z |-> w[z[i]]] = [i \in DOMAIN z |-> NumberAt(z[i], f)]
  BY <1>2
<1>4. Weigh(w, z) = Sums(z, f)
  BY <1>3 DEF Weigh, Sums
<1> QED
  BY <1>1, <1>4

\* The elements of a list that are picked by what they are grouped by.
GroupKeys(items, by) == {GroupOf(items[i], by) : i \in DOMAIN items}
GroupItems(items, by, k) == Picked(items, {v \in ToSet(items) : GroupOf(v, by) = k})
GroupTable(items, by, f) == [k \in GroupKeys(items, by) |-> GroupEntry(GroupItems(items, by, k), f)]

\* The groups' weights add up, however the groups are listed.
LEMMA GroupsAddUp ==
    ASSUME NEW items \in Seq(Json), NEW by, NEW w \in [ToSet(items) -> Int]
    PROVE  /\ Listing(SetToSeq(GroupKeys(items, by)), GroupKeys(items, by))
           /\ LET keys == SetToSeq(GroupKeys(items, by))
              IN  Total([i \in DOMAIN keys |-> Weigh(w, GroupItems(items, by, keys[i]))]) = Weigh(w, items)
<1>1. PICK D : D = ToSet(items)
  OBVIOUS
<1>2. items \in Seq(D) /\ Len(items) \in Nat /\ DOMAIN items = 1..Len(items)
  BY <1>1, ListOfOwn
<1>3. PICK K : K = GroupKeys(items, by)
  OBVIOUS
<1>4. IsFiniteSet(K)
  <2>1. IsFiniteSet(DOMAIN items)
    BY <1>2, FS_Interval
  <2> QED
    <3>1. PICK f : f = [i \in DOMAIN items |-> GroupOf(items[i], by)]
      OBVIOUS
    <3>2. K = {f[i] : i \in DOMAIN items}
      BY <1>3, <3>1 DEF GroupKeys
    <3>3. PICK S : S = DOMAIN items
      OBVIOUS
    <3>4. f \in [S -> K] /\ \A k \in K : \E i \in S : f[i] = k
      BY <3>1, <3>2, <3>3
    <3>5. f \in Surjection(S, K)
      BY <3>4 DEF Surjection
    <3> QED
      BY <2>1, <3>3, <3>5, FS_Surjection
<1>5. PICK q : q = SetToSeq(K)
  OBVIOUS
<1>6. Listing(q, K)
  BY <1>4, <1>5, SetIsListed
<1>7. PICK m \in Nat : m = Len(q) /\ DOMAIN q = 1..m
  BY <1>6 DEF Listing
<1>8. PICK parts : parts = [i \in 1..m |-> {v \in D : GroupOf(v, by) = q[i]}]
  OBVIOUS
<1>9. Partition(D, parts, m)
  <2>1. ASSUME NEW x \in D PROVE \E i \in 1..m : x \in parts[i]
    <3>1. PICK j \in DOMAIN items : items[j] = x
      BY <1>1 DEF ToSet
    <3>2. GroupOf(x, by) \in K
      BY <1>3, <3>1 DEF GroupKeys
    <3>3. PICK i \in 1..m : q[i] = GroupOf(x, by)
      BY <1>6, <1>7, <3>2 DEF Listing
    <3> QED
      BY <1>8, <3>3
  <2>2. ASSUME NEW x \in D, NEW i \in 1..m, NEW j \in 1..m, x \in parts[i], x \in parts[j] PROVE i = j
    <3>1. q[i] = q[j]
      BY <1>8, <2>2
    <3> QED
      BY <1>6, <1>7, <3>1 DEF Listing
  <2> QED
    BY <2>1, <2>2 DEF Partition
<1>10. PICK u \in [D -> Int] : u = w
  BY <1>1
<1>11. Total(PartWeights(u, items, parts, m)) = Weigh(u, items)
  BY <1>2, <1>9, PartsAddUp
<1>12. PartWeights(u, items, parts, m) = [i \in DOMAIN q |-> Weigh(u, GroupItems(items, by, q[i]))]
  <2>1. \A i \in 1..m : GroupItems(items, by, q[i]) = Picked(items, parts[i])
    BY <1>1, <1>8 DEF GroupItems
  <2> QED
    BY <1>7, <2>1 DEF PartWeights
<1> QED
  BY <1>3, <1>5, <1>6, <1>10, <1>11, <1>12

\* What a grouping says when it is sent.
LEMMA GroupsAre ==
    ASSUME NEW cfg, NEW payload \in Json, cfg.groupBy # "", AggregatorNode(cfg, payload).end = "ok"
    PROVE  LET items == ExtractArray(payload).array
           IN  /\ items \in Seq(Json)
               /\ AggregatorNode(cfg, payload).out[1].payload.groups
                    = GroupTable(items, cfg.groupBy, cfg.field)
<1>1. PICK items : items = ExtractArray(payload).array
  OBVIOUS
<1>2. PICK g : g = GroupTable(items, cfg.groupBy, cfg.field)
  OBVIOUS
<1>3. ExtractArray(payload) = NoValue => AggregatorNode(cfg, payload) = Fails
  BY DEF AggregatorNode
<1>4. ExtractArray(payload) # NoValue
  BY <1>3, NoMessage
<1>5. items \in Seq(Json)
  BY <1>1, <1>4, ListsAreJson
<1>6. AggregatorNode(cfg, payload) = Out(Emit("output", [groups |-> g]))
  BY <1>1, <1>2, <1>4 DEF AggregatorNode, GroupKeys, GroupItems, GroupTable
<1>7. PICK e : e = Emit("output", [groups |-> g])
  OBVIOUS
<1>8. e \in Seq(ToSet(e)) /\ e[1] = [port |-> "output", payload |-> [groups |-> g]]
  BY <1>7, EmitIs
<1>9. AggregatorNode(cfg, payload).out = e
  BY <1>6, <1>7, <1>8, OutIs
<1>10. AggregatorNode(cfg, payload).out[1].payload.groups = g
  <2>1. PICK t : t = [groups |-> g]
    OBVIOUS
  <2>2. e[1].payload = t
    <3>1. PICK m : m = [port |-> "output", payload |-> t]
      OBVIOUS
    <3>2. e[1] = m
      BY <1>8, <2>1, <3>1
    <3>3. m.payload = t
      BY <3>1
    <3> QED
      BY <3>2, <3>3
  <2>3. t.groups = g
    BY <2>1
  <2> QED
    BY <1>9, <2>2, <2>3
<1> QED
  BY <1>1, <1>2, <1>5, <1>10

\* The groups of a list count its items once each, and sum them once each.
LEMMA GroupsKeep ==
    ASSUME NEW items \in Seq(Json), NEW by, NEW f, NEW groups, groups = GroupTable(items, by, f)
    PROVE  LET keys == SetToSeq(DOMAIN groups)
           IN  /\ Total([i \in DOMAIN keys |-> groups[keys[i]].count]) = Len(items)
               /\ Total([i \in DOMAIN keys |-> groups[keys[i]].sum]) = Sums(items, f)
<1>1. PICK K : K = GroupKeys(items, by)
  OBVIOUS
<1>0. groups = [k \in K |-> GroupEntry(GroupItems(items, by, k), f)]
  BY <1>1 DEF GroupTable
<1>2. DOMAIN groups = K
  BY <1>0
<1>3. PICK D : D = ToSet(items)
  OBVIOUS
<1>4. items \in Seq(D) /\ D \subseteq Json
  BY <1>3, ListOfOwn
<1>5. PICK one \in [D -> Int] : one = [v \in D |-> 1]
  <2>1. [v \in D |-> 1] \in [D -> Int]
    OBVIOUS
  <2> QED
    BY <2>1
<1>6. PICK num \in [D -> Int] : num = [v \in D |-> NumberAt(v, f)]
  BY <1>4, NumbersAreIntegers
<1>7. PICK q : q = SetToSeq(K)
  OBVIOUS
<1>8. Listing(q, K) /\ Total([i \in DOMAIN q |-> Weigh(one, GroupItems(items, by, q[i]))]) = Weigh(one, items)
  BY <1>1, <1>3, <1>7, GroupsAddUp
<1>9. Total([i \in DOMAIN q |-> Weigh(num, GroupItems(items, by, q[i]))]) = Weigh(num, items)
  BY <1>1, <1>3, <1>7, GroupsAddUp
<1>10. ASSUME NEW i \in DOMAIN q
       PROVE  /\ groups[q[i]].count = Weigh(one, GroupItems(items, by, q[i]))
              /\ groups[q[i]].sum = Weigh(num, GroupItems(items, by, q[i]))
  <2>1. q[i] \in K
    BY <1>8 DEF Listing
  <2>2. PICK z : z = GroupItems(items, by, q[i])
    OBVIOUS
  <2>3. z \in Seq(D)
    BY <1>4, <2>2, PickedPlaces DEF GroupItems
  <2>4. groups[q[i]] = GroupEntry(z, f)
    BY <1>0, <2>1, <2>2
  <2>5. groups[q[i]].count = Len(z) /\ groups[q[i]].sum = Sums(z, f)
    BY <2>4 DEF GroupEntry
  <2>6. Weigh(one, z) = Len(z)
    BY <1>5, <2>3, CountIsWeight
  <2>7. Weigh(num, z) = Sums(z, f)
    BY <1>6, <2>3, SumIsWeight
  <2> QED
    BY <2>2, <2>5, <2>6, <2>7
<1>11. [i \in DOMAIN q |-> groups[q[i]].count] = [i \in DOMAIN q |-> Weigh(one, GroupItems(items, by, q[i]))]
  BY <1>10
<1>12. [i \in DOMAIN q |-> groups[q[i]].sum] = [i \in DOMAIN q |-> Weigh(num, GroupItems(items, by, q[i]))]
  BY <1>10
<1>13. Weigh(one, items) = Len(items)
  BY <1>4, <1>5, CountIsWeight
<1>14. Weigh(num, items) = Sums(items, f)
  BY <1>4, <1>6, SumIsWeight
<1>15. Total([i \in DOMAIN q |-> groups[q[i]].count]) = Len(items)
  BY <1>8, <1>11, <1>13
<1>16. Total([i \in DOMAIN q |-> groups[q[i]].sum]) = Sums(items, f)
  BY <1>9, <1>12, <1>14
<1>17. q = SetToSeq(DOMAIN groups)
  BY <1>2, <1>7
<1> HIDE <1>7
<1> QED
  BY <1>15, <1>16, <1>17

\* Every batch is sent, on the one port there is.
LEMMA BatchesAreSent ==
    ASSUME NEW items \in Seq(Json), NEW size \in Nat \ {0}, NEW q, q = BatchMessages(items, size)
    PROVE  [i \in DOMAIN PayloadsOf(q, "output") |-> PayloadsOf(q, "output")[i].array] = Batches(items, size)
<1>1. PICK n : n = (Len(items) + size - 1) \div size
  OBVIOUS
<1>2. n \in Nat
  BY <1>1, BatchBounds
<1>3. PICK b : b = Batches(items, size)
  OBVIOUS
<1>4. b = [i \in 1..n |-> SubSeq(items, (i - 1) * size + 1, BatchEnd(items, size, i))]
  BY <1>1, <1>3 DEF Batches
<1>5. q = [i \in 1..n |-> [port |-> "output", payload |-> Array(b[i])]]
  BY <1>1, <1>4 DEF BatchMessages
<1>6. DOMAIN q = 1..n /\ q = [i \in 1..n |-> q[i]] /\ \A i \in 1..n : q[i].port = "output" /\ q[i].payload = Array(b[i])
  BY <1>5
<1>7. q \in Seq(ToSet(q)) /\ Len(q) = n
  BY <1>2, <1>6, ListIs
<1>8. PICK S : S = {m \in ToSet(q) : m.port = "output"}
  OBVIOUS
<1>9. \A i \in 1..Len(q) : q[i] \in S
  <2>1. \A i \in 1..n : q[i] \in ToSet(q)
    BY <1>6 DEF ToSet
  <2> QED
    BY <1>6, <1>7, <1>8, <2>1
<1>10. Picked(q, S) = q
  BY <1>7, <1>9, PickedAll
<1>11. PayloadsOf(q, "output") = [i \in 1..n |-> q[i].payload]
  BY <1>6, <1>8, <1>10 DEF PayloadsOf
<1>12. PICK p : p = PayloadsOf(q, "output")
  OBVIOUS
<1>13. DOMAIN p = 1..n /\ \A i \in 1..n : p[i].array = b[i]
  <2>1. DOMAIN p = 1..n /\ \A i \in 1..n : p[i] = Array(b[i])
    BY <1>6, <1>11, <1>12
  <2>2. \A i \in 1..n : Array(b[i]).array = b[i]
    BY DEF Array
  <2> QED
    BY <2>1, <2>2
<1>14. [i \in DOMAIN p |-> p[i].array] = b
  BY <1>4, <1>13
<1> QED
  BY <1>3, <1>12, <1>14

\* What a node that takes a list apart sends, when it has sent it.
LEMMA BatchesKept == ASSUME RunInv, Sent, task.node = "batch" PROVE ItemsAreKept
<1>1. PICK t \in Task : t = task
  BY SentIs
<1>2. PICK cfg, payload : cfg = task.cfg /\ payload = task.payload
  OBVIOUS
<1>3. payload \in Json /\ cfg.size \in Nat
  BY <1>1, <1>2, TaskAssumption DEF OfJson
<1>4. PICK items : items = BatchList(cfg, payload).array
  OBVIOUS
<1>5. Process(task) = BatchNode(cfg, payload)
  BY <1>2 DEF Process
<1>6. PICK q : q = result.out
  OBVIOUS
<1>7. BatchNode(cfg, payload).end = "ok" /\ q = BatchNode(cfg, payload).out
  BY <1>5, <1>6, SentIs
<1>8. PICK size \in Nat \ {0} : size = cfg.size
  BY <1>3, <1>7, BatchAnswers
<1>9. items \in Seq(Json) /\ q = BatchMessages(items, size)
  BY <1>3, <1>4, <1>7, <1>8, BatchAnswers
<1>10. PICK b : b = Batches(items, size)
  OBVIOUS
<1>11. [i \in DOMAIN PayloadsOf(q, "output") |-> PayloadsOf(q, "output")[i].array] = b
  BY <1>9, <1>10, BatchesAreSent
<1>12. FlattenSeq(b) = items /\ \A i \in DOMAIN b : Len(b[i]) \in 1..size
  BY <1>9, <1>10, BatchesJoin
<1>13. \A i \in 1..Len(b) - 1 : Len(b[i]) = size
  BY <1>9, <1>10, BatchesJoin
<1>14. [i \in DOMAIN Payloads("output") |-> Payloads("output")[i].array] = b
  BY <1>6, <1>11, PayloadsAre
<1>15. ItemsAreKept <=>
          LET batches == [i \in DOMAIN Payloads("output") |-> Payloads("output")[i].array]
          IN  /\ FlattenSeq(batches) = items
              /\ \A i \in DOMAIN batches : Len(batches[i]) \in 1..size
              /\ \A i \in 1..Len(batches) - 1 : Len(batches[i]) = size
  BY <1>2, <1>4, <1>8 DEF ItemsAreKept
<1> QED
  BY <1>12, <1>13, <1>14, <1>15

\* A loop sends all items of the array, and their number.
LEMMA LoopsKept == ASSUME RunInv, Sent, task.node = "loop" PROVE ItemsAreKept
<1>1. PICK t \in Task : t = task
  BY SentIs
<1>2. PICK cfg, payload : cfg = task.cfg /\ payload = task.payload
  OBVIOUS
<1>3. payload \in Json /\ cfg.property \in JsonPath
  BY <1>1, <1>2, TaskAssumption DEF OfJson
<1>4. PICK items : items = LoopItems(cfg, payload)
  OBVIOUS
<1>5. Process(task) = LoopNode(cfg, payload)
  BY <1>2 DEF Process
<1>6. PICK q : q = result.out
  OBVIOUS
<1>7. q = LoopNode(cfg, payload).out
  BY <1>5, <1>6, SentIs
<1>8. items \in Seq(Json) /\ q = Append(ItemMessages(items), DoneMessage(items))
  BY <1>3, <1>4, <1>7, LoopAnswers
<1>9. PayloadsOf(q, "item") = items /\ PayloadsOf(q, "done") = <<Number(Len(items))>>
  BY <1>8, LoopKeeps
<1>10. Payloads("item") = items /\ Payloads("done") = <<Number(Len(items))>>
  BY <1>6, <1>9, PayloadsAre
<1>11. PICK found : found = PathGet(payload, cfg.property)
  OBVIOUS
<1>12. found \in JsonOrNone
  <2>1. payload \in JsonOrNone
    BY <1>3 DEF JsonOrNone
  <2>2. cfg.property \in Seq(STRING)
    BY <1>3 DEF JsonPath
  <2> QED
    BY <1>11, <2>1, <2>2, AlongIsJson
<1>13. Is(found, "array") => found # NoValue
  BY DEF Is, NoValue
<1>14. Is(found, "array") => items = found.array
  BY <1>4, <1>11, <1>13 DEF LoopItems
<1>15. ItemsAreKept <=> /\ Payloads("done") = <<Number(Len(Payloads("item")))>>
                        /\ Is(found, "array") => Payloads("item") = found.array
  BY <1>2, <1>11 DEF ItemsAreKept
<1> QED
  BY <1>10, <1>14, <1>15

\* The groups together have as many items as came in, and their sums.
LEMMA AggregatorsKept == ASSUME RunInv, Sent, task.node = "aggregator" PROVE ItemsAreKept
<1>1. PICK t \in Task : t = task
  BY SentIs
<1>2. PICK cfg, payload : cfg = task.cfg /\ payload = task.payload
  OBVIOUS
<1>3. payload \in Json
  BY <1>1, <1>2, TaskAssumption DEF OfJson
<1>4. CASE cfg.groupBy = ""
  BY <1>2, <1>4 DEF ItemsAreKept
<1>5. CASE cfg.groupBy # ""
  <2>1. Process(task) = AggregatorNode(cfg, payload)
    BY <1>2 DEF Process
  <2>2. AggregatorNode(cfg, payload).end = "ok" /\ result.out = AggregatorNode(cfg, payload).out
    BY <2>1, SentIs
  <2>3. PICK items : items = ExtractArray(payload).array
    OBVIOUS
  <2>4. PICK groups : groups = Only.groups
    OBVIOUS
  <2>5. items \in Seq(Json) /\ groups = GroupTable(items, cfg.groupBy, cfg.field)
    BY <1>3, <1>5, <2>2, <2>3, <2>4, GroupsAre DEF Only
  <2>6. LET keys == SetToSeq(DOMAIN groups)
        IN  /\ Total([i \in DOMAIN keys |-> groups[keys[i]].count]) = Len(items)
            /\ Total([i \in DOMAIN keys |-> groups[keys[i]].sum]) = Sums(items, cfg.field)
    <3>1. PICK by, f : by = cfg.groupBy /\ f = cfg.field
      OBVIOUS
    <3>2. items \in Seq(Json) /\ groups = GroupTable(items, by, f)
      BY <2>5, <3>1
    <3>3. LET keys == SetToSeq(DOMAIN groups)
          IN  /\ Total([i \in DOMAIN keys |-> groups[keys[i]].count]) = Len(items)
              /\ Total([i \in DOMAIN keys |-> groups[keys[i]].sum]) = Sums(items, f)
      BY <3>2, GroupsKeep
    <3> QED
      BY <3>1, <3>3
  <2>7. ItemsAreKept <=>
            LET keys == SetToSeq(DOMAIN groups)
            IN  /\ Total([i \in DOMAIN keys |-> groups[keys[i]].count]) = Len(items)
                /\ Total([i \in DOMAIN keys |-> groups[keys[i]].sum]) = Sums(items, cfg.field)
    BY <1>2, <1>5, <2>3, <2>4 DEF ItemsAreKept
  <2> QED
    BY <2>6, <2>7
<1> QED
  BY <1>4, <1>5

\* No node that takes a list apart loses an item of it.
LEMMA ItemsKept == RunInv /\ Sent => ItemsAreKept
<1> SUFFICES ASSUME RunInv, Sent PROVE ItemsAreKept
  OBVIOUS
<1>1. CASE task.node \notin {"batch", "loop", "aggregator"}
  BY <1>1 DEF ItemsAreKept
<1> QED
  BY <1>1, BatchesKept, LoopsKept, AggregatorsKept

----------------------------------------------------------------------------
(* Writing at a path.                                                       *)

IsRebuilding(made, on, path, inner) ==
    /\ DOMAIN made = 0..Len(path) - 1 /\ made[0] = inner
    /\ \A n \in 1..Len(path) - 1 : made[n] = With(on[Len(path) - n], path[Len(path) - n], made[n - 1])

\* The objects on the way are made again from the last one on.
LEMMA RebuiltIs ==
    ASSUME NEW on, NEW S, NEW path \in Seq(S), path # <<>>, NEW inner
    PROVE  \E made : IsRebuilding(made, on, path, inner) /\ Rebuilt(on, path, inner) = made[Len(path) - 1]
<1> DEFINE N == Len(path) - 1
           base == inner
           E(x, n) == With(on[Len(path) - n], path[Len(path) - n], x)
           Step(g, k) == [n \in 0..k |-> IF n = 0 THEN base ELSE E(g[n - 1], n)]
           T == {k \in Nat : \E g : g = Step(g, k)}
<1>1. N \in Nat
  BY DEF N
<1>2. PICK f : f = CHOOSE g : g = Step(g, N)
  OBVIOUS
<1>3. Rebuilt(on, path, inner) = f[N]
  BY <1>2 DEF Rebuilt, N, base, E, Step
<1> HIDE DEF N, base, E
<1>4. 0 \in T
  <2>1. PICK g : g = [n \in 0..0 |-> base]
    OBVIOUS
  <2>2. g = Step(g, 0)
    BY <2>1
  <2> QED
    BY <2>2
<1>5. ASSUME NEW k \in Nat, k \in T PROVE k + 1 \in T
  <2>1. PICK g : g = Step(g, k)
    BY <1>5
  <2>2. PICK h : h = [n \in 0..k + 1 |-> IF n = k + 1 THEN E(g[k], k + 1) ELSE g[n]]
    OBVIOUS
  <2>3. \A n \in 0..k : h[n] = g[n] /\ g[n] = IF n = 0 THEN base ELSE E(g[n - 1], n)
    BY <2>1, <2>2
  <2>4. h[k + 1] = E(h[k], k + 1)
    BY <2>2, <2>3
  <2>5. \A n \in 0..k + 1 : h[n] = IF n = 0 THEN base ELSE E(h[n - 1], n)
    <3> SUFFICES ASSUME NEW n \in 0..k + 1 PROVE h[n] = IF n = 0 THEN base ELSE E(h[n - 1], n)
      OBVIOUS
    <3>1. CASE n = k + 1
      BY <2>4, <3>1
    <3>2. CASE n # k + 1
      <4>1. n \in 0..k /\ (n # 0 => n - 1 \in 0..k)
        BY <3>2
      <4> QED
        BY <2>3, <4>1
    <3> QED
      BY <3>1, <3>2
  <2>6. h = Step(h, k + 1)
    <3>1. h = [n \in 0..k + 1 |-> h[n]]
      BY <2>2
    <3> QED
      BY <2>5, <3>1
  <2> QED
    BY <2>6
<1>6. \E g : g = Step(g, N)
  <2>1. N \in T
    <3> HIDE DEF T
    <3> QED
      BY <1>1, <1>4, <1>5, Numbers!NumberInduction
  <2> QED
    BY <2>1
<1>7. f = Step(f, N)
  <2> HIDE DEF Step
  <2> QED
    BY <1>2, <1>6
<1>8. DOMAIN f = 0..N /\ f[0] = base /\ \A n \in 1..N : f[n] = E(f[n - 1], n)
  BY <1>1, <1>7
<1> QED
  BY <1>3, <1>8 DEF N, base, E, IsRebuilding

\* What is on the way is the next object, or an empty one.
Under(v, key) == IF Is(Member(v, key), "object") THEN Member(v, key) ELSE Empty
IsWay(h, v, path) ==
    /\ DOMAIN h = 0..Len(path) - 1 /\ h[0] = v
    /\ \A n \in 1..Len(path) - 1 : h[n] = Under(h[n - 1], path[n])

\* There is a way along every path.
LEMMA WayExists ==
    ASSUME NEW v, NEW S, NEW path \in Seq(S), path # <<>>
    PROVE  \E h : IsWay(h, v, path)
<1> DEFINE N == Len(path) - 1
           base == v
           E(x, n) == Under(x, path[n])
           Step(g, k) == [n \in 0..k |-> IF n = 0 THEN base ELSE E(g[n - 1], n)]
           T == {k \in Nat : \E g : g = Step(g, k)}
<1>1. N \in Nat
  BY DEF N
<1>2. PICK f : f = CHOOSE g : g = Step(g, N)
  OBVIOUS
<1>3. f = f
  OBVIOUS
<1> HIDE DEF N, base, E
<1>4. 0 \in T
  <2>1. PICK g : g = [n \in 0..0 |-> base]
    OBVIOUS
  <2>2. g = Step(g, 0)
    BY <2>1
  <2> QED
    BY <2>2
<1>5. ASSUME NEW k \in Nat, k \in T PROVE k + 1 \in T
  <2>1. PICK g : g = Step(g, k)
    BY <1>5
  <2>2. PICK h : h = [n \in 0..k + 1 |-> IF n = k + 1 THEN E(g[k], k + 1) ELSE g[n]]
    OBVIOUS
  <2>3. \A n \in 0..k : h[n] = g[n] /\ g[n] = IF n = 0 THEN base ELSE E(g[n - 1], n)
    BY <2>1, <2>2
  <2>4. h[k + 1] = E(h[k], k + 1)
    BY <2>2, <2>3
  <2>5. \A n \in 0..k + 1 : h[n] = IF n = 0 THEN base ELSE E(h[n - 1], n)
    <3> SUFFICES ASSUME NEW n \in 0..k + 1 PROVE h[n] = IF n = 0 THEN base ELSE E(h[n - 1], n)
      OBVIOUS
    <3>1. CASE n = k + 1
      BY <2>4, <3>1
    <3>2. CASE n # k + 1
      <4>1. n \in 0..k /\ (n # 0 => n - 1 \in 0..k)
        BY <3>2
      <4> QED
        BY <2>3, <4>1
    <3> QED
      BY <3>1, <3>2
  <2>6. h = Step(h, k + 1)
    <3>1. h = [n \in 0..k + 1 |-> h[n]]
      BY <2>2
    <3> QED
      BY <2>5, <3>1
  <2> QED
    BY <2>6
<1>6. \E g : g = Step(g, N)
  <2>1. N \in T
    <3> HIDE DEF T
    <3> QED
      BY <1>1, <1>4, <1>5, Numbers!NumberInduction
  <2> QED
    BY <2>1
<1>7. f = Step(f, N)
  <2> HIDE DEF Step
  <2> QED
    BY <1>2, <1>6
<1>8. DOMAIN f = 0..N /\ f[0] = base /\ \A n \in 1..N : f[n] = E(f[n - 1], n)
  BY <1>1, <1>7
<1> QED
  BY <1>3, <1>8 DEF N, base, E, IsWay

\* A value is set by making the objects on the way again.
LEMMA PathSetIs ==
    ASSUME NEW v, NEW S, NEW path \in Seq(S), path # <<>>, NEW new, Is(v, "object")
    PROVE  \E on : /\ DOMAIN on = 1..Len(path) /\ on[1] = v
                   /\ \A n \in 2..Len(path) : on[n] = Under(on[n - 1], path[n - 1])
                   /\ PathSet(v, path, new) = Rebuilt(on, path, With(on[Len(path)], path[Len(path)], new))
<1> DEFINE Step(g) == [n \in 1..Len(path) |-> IF n = 1 THEN v ELSE Under(g[n - 1], path[n - 1])]
<1>1. PICK f : f = CHOOSE g : g = Step(g)
  OBVIOUS
<1>2. PathSet(v, path, new) = Rebuilt(f, path, With(f[Len(path)], path[Len(path)], new))
  BY <1>1 DEF PathSet, Under
<1>3. Len(path) \in Nat /\ Len(path) # 0
  OBVIOUS
<1>4. PICK h : /\ DOMAIN h = 0..Len(path) - 1 /\ h[0] = v
               /\ \A n \in 1..Len(path) - 1 : h[n] = Under(h[n - 1], path[n])
  <2>1. PICK h : IsWay(h, v, path)
    BY WayExists
  <2> QED
    BY <2>1 DEF IsWay
<1>5. PICK g : g = [n \in 1..Len(path) |-> h[n - 1]]
  OBVIOUS
<1>6. \A n \in 1..Len(path) : g[n] = IF n = 1 THEN v ELSE Under(g[n - 1], path[n - 1])
  <2> SUFFICES ASSUME NEW n \in 1..Len(path) PROVE g[n] = IF n = 1 THEN v ELSE Under(g[n - 1], path[n - 1])
    OBVIOUS
  <2>1. CASE n = 1
    BY <1>3, <1>4, <1>5, <2>1
  <2>2. CASE n # 1
    <3>1. PICK k \in 1..Len(path) - 1 : n = k + 1
      <4>1. n - 1 \in 1..Len(path) - 1 /\ n = (n - 1) + 1
        BY <1>3, <2>2
      <4> QED
        BY <4>1
    <3>2. n - 1 = k /\ k \in 1..Len(path)
      BY <1>3, <3>1
    <3>3. g[n] = h[k] /\ g[k] = h[k - 1]
      BY <1>5, <3>1, <3>2
    <3> QED
      BY <1>4, <2>2, <3>1, <3>2, <3>3
  <2> QED
    BY <2>1, <2>2
<1>7. g = Step(g)
  <2>1. g = [n \in 1..Len(path) |-> g[n]]
    BY <1>5
  <2> QED
    BY <1>6, <2>1
<1>8. f = Step(f)
  <2> HIDE DEF Step
  <2> QED
    BY <1>1, <1>7
<1>9. DOMAIN f = 1..Len(path) /\ f[1] = v /\ \A n \in 2..Len(path) : f[n] = Under(f[n - 1], path[n - 1])
  <2>1. \A n \in 2..Len(path) : n \in 1..Len(path) /\ n # 1
    BY <1>3
  <2> QED
    BY <1>3, <1>8, <2>1
<1> QED
  BY <1>2, <1>9

\* What an object with one more field, or one fewer, says.
LEMMA WithIs ==
    ASSUME NEW v, NEW key, NEW new
    PROVE  /\ Is(With(v, key, new), "object") /\ ~Is(With(v, key, new), "array")
           /\ Field(With(v, key, new), key) = new
           /\ \A k : k # key /\ Is(v, "object") => Field(With(v, key, new), k) = Field(v, k)
           /\ \A k : k # key /\ v = Empty => Field(With(v, key, new), k) = NoValue
<1>1. PICK f : f = [k \in DOMAIN v.object \cup {key} |-> IF k = key THEN new ELSE v.object[k]]
  OBVIOUS
<1>2. PICK o : o = With(v, key, new)
  OBVIOUS
<1>3. o = [object |-> f]
  BY <1>1, <1>2 DEF With, Object
<1>4. Is(o, "object") /\ ~Is(o, "array") /\ o.object = f
  BY <1>3 DEF Is
<1>5. \A k : Field(o, k) = IF k \in DOMAIN f THEN f[k] ELSE NoValue
  BY <1>4 DEF Field, Member
<1>6. Field(o, key) = new
  BY <1>1, <1>5
<1>7. ASSUME NEW k, k # key, Is(v, "object") PROVE Field(o, k) = Field(v, k)
  <2>1. ~Is(v, "array")
    BY <1>7 DEF Is
  <2>2. Field(v, k) = IF k \in DOMAIN v.object THEN v.object[k] ELSE NoValue
    BY <1>7, <2>1 DEF Field, Member
  <2> QED
    BY <1>1, <1>5, <1>7, <2>2
<1>8. ASSUME NEW k, k # key, v = Empty PROVE Field(o, k) = NoValue
  <2>1. v = [object |-> <<>>]
    BY <1>8 DEF Empty, Object
  <2>2. v.object = <<>>
    BY <2>1
  <2>3. DOMAIN v.object = {}
    BY <2>2
  <2> QED
    BY <1>1, <1>5, <1>8, <2>3
<1> QED
  BY <1>2, <1>4, <1>6, <1>7, <1>8

\* An object without a key has all the others as before.
LEMMA LackingIs ==
    ASSUME NEW v, NEW key, Is(v, "object")
    PROVE  /\ Is(Lacking(v, key), "object") /\ ~Is(Lacking(v, key), "array")
           /\ Field(Lacking(v, key), key) = NoValue
           /\ \A k : k # key => Field(Lacking(v, key), k) = Field(v, k)
<1>1. PICK f : f = [k \in DOMAIN v.object \ {key} |-> v.object[k]]
  OBVIOUS
<1>2. PICK o : o = Lacking(v, key)
  OBVIOUS
<1>3. o = [object |-> f]
  BY <1>1, <1>2 DEF Lacking, Object
<1>4. Is(o, "object") /\ ~Is(o, "array") /\ o.object = f
  BY <1>3 DEF Is
<1>5. \A k : Field(o, k) = IF k \in DOMAIN f THEN f[k] ELSE NoValue
  BY <1>4 DEF Field, Member
<1>6. Field(o, key) = NoValue
  BY <1>1, <1>5
<1>7. ASSUME NEW k, k # key PROVE Field(o, k) = Field(v, k)
  <2>1. ~Is(v, "array")
    BY DEF Is
  <2>2. Field(v, k) = IF k \in DOMAIN v.object THEN v.object[k] ELSE NoValue
    BY <2>1 DEF Field, Member
  <2> QED
    BY <1>1, <1>5, <1>7, <2>2
<1> QED
  BY <1>2, <1>4, <1>6, <1>7

\* What is no object and no list has no fields.
LEMMA NothingUnder ==
    ASSUME NEW v, ~Is(v, "object"), ~Is(v, "array"), NEW key
    PROVE  Field(v, key) = NoValue
  BY DEF Field, Member

\* Objects on the way, made again, are found one after the other.
LEMMA RebuiltLeads ==
    ASSUME NEW on, NEW S, NEW path \in Seq(S), path # <<>>, NEW inner
    PROVE  LET r == Rebuilt(on, path, inner)
           IN  /\ Along(r, path)[Len(path) - 1] = inner
               /\ \A n \in 0..Len(path) - 1 :
                    n = Len(path) - 1 \/ Along(r, path)[n] = With(on[n + 1], path[n + 1], Along(r, path)[n + 1])
<1>1. PICK L \in Nat \ {0} : L = Len(path)
  OBVIOUS
<1>2. PICK r : r = Rebuilt(on, path, inner)
  OBVIOUS
<1>3. PICK made : /\ DOMAIN made = 0..L - 1 /\ made[0] = inner
                  /\ \A n \in 1..L - 1 : made[n] = With(on[L - n], path[L - n], made[n - 1])
                  /\ r = made[L - 1]
  <2>1. PICK made : IsRebuilding(made, on, path, inner) /\ Rebuilt(on, path, inner) = made[Len(path) - 1]
    BY RebuiltIs
  <2> QED
    BY <1>1, <1>2, <2>1 DEF IsRebuilding
<1>4. PICK a : a = Along(r, path)
  OBVIOUS
<1>5. a[0] = r /\ \A n \in 1..L : a[n] = Field(a[n - 1], path[n])
  BY <1>1, <1>4, AlongIs
<1> DEFINE T == {n \in Nat : n <= L - 1 => a[n] = made[L - 1 - n]}
<1>6. 0 \in T
  BY <1>1, <1>3, <1>5
<1>7. ASSUME NEW n \in Nat, n \in T PROVE n + 1 \in T
  <2> SUFFICES ASSUME n + 1 <= L - 1 PROVE a[n + 1] = made[L - 1 - (n + 1)]
    OBVIOUS
  <2>1. PICK k \in 1..L - 1 : k = L - 1 - n /\ L - 1 - (n + 1) = k - 1 /\ L - k = n + 1 /\ n + 1 \in 1..L
    <3>1. L - 1 - n \in 1..L - 1 /\ L - 1 - (n + 1) = (L - 1 - n) - 1 /\ L - (L - 1 - n) = n + 1 /\ n + 1 \in 1..L
      BY <1>1
    <3> QED
      BY <3>1
  <2>2. a[n] = made[k]
    BY <1>7, <2>1
  <2>3. made[k] = With(on[n + 1], path[n + 1], made[k - 1])
    BY <1>3, <2>1
  <2>4. a[n + 1] = Field(a[n], path[n + 1])
    BY <1>5, <2>1
  <2>5. Field(made[k], path[n + 1]) = made[k - 1]
    BY <2>3, WithIs
  <2> QED
    BY <2>1, <2>2, <2>4, <2>5
<1>8. \A n \in 0..L - 1 : a[n] = made[L - 1 - n]
  <2>1. \A n \in Nat : n \in T
    <3> HIDE DEF T
    <3> QED
      BY <1>6, <1>7, Numbers!NumberInduction
  <2> QED
    BY <2>1
<1>9. a[L - 1] = inner
  BY <1>1, <1>3, <1>8
<1>10. ASSUME NEW n \in 0..L - 1, n # L - 1 PROVE a[n] = With(on[n + 1], path[n + 1], a[n + 1])
  <2>1. PICK k \in 1..L - 1 : k = L - 1 - n /\ L - 1 - (n + 1) = k - 1 /\ L - k = n + 1 /\ n + 1 \in 0..L - 1
    <3>1. L - 1 - n \in 1..L - 1 /\ L - 1 - (n + 1) = (L - 1 - n) - 1 /\ L - (L - 1 - n) = n + 1 /\ n + 1 \in 0..L - 1
      BY <1>1, <1>10
    <3> QED
      BY <3>1
  <2>2. made[k] = With(on[n + 1], path[n + 1], made[k - 1])
    BY <1>3, <2>1
  <2>3. a[n] = made[k] /\ a[n + 1] = made[k - 1]
    BY <1>8, <2>1
  <2> QED
    BY <2>2, <2>3
<1> QED
  BY <1>1, <1>2, <1>4, <1>9, <1>10

\* What is set in an object is found where it was set.
LEMMA SetIsFound ==
    ASSUME NEW v, NEW S, NEW path \in Seq(S), path # <<>>, NEW new, Is(v, "object")
    PROVE  Is(PathSet(v, path, new), "object") /\ PathGet(PathSet(v, path, new), path) = new
<1>1. PICK L \in Nat \ {0} : L = Len(path)
  OBVIOUS
<1>2. PICK on : PathSet(v, path, new) = Rebuilt(on, path, With(on[L], path[L], new))
  BY <1>1, PathSetIs
<1>3. PICK inner : inner = With(on[L], path[L], new)
  OBVIOUS
<1>4. PICK r : r = Rebuilt(on, path, inner)
  OBVIOUS
<1>5. PICK a : a = Along(r, path)
  OBVIOUS
<1>6. a[L - 1] = inner /\ \A n \in 0..L - 1 : n = L - 1 \/ a[n] = With(on[n + 1], path[n + 1], a[n + 1])
  BY <1>1, <1>4, <1>5, RebuiltLeads
<1>7. a[0] = r /\ a[L] = Field(a[L - 1], path[L])
  BY <1>1, <1>5, AlongIs
<1>8. a[L] = new
  BY <1>3, <1>6, <1>7, WithIs
<1>9. Is(r, "object")
  <2>1. CASE L = 1
    BY <1>3, <1>6, <1>7, <2>1, WithIs
  <2>2. CASE L # 1
    <3>1. a[0] = With(on[0 + 1], path[0 + 1], a[0 + 1])
      BY <1>1, <1>6, <2>2
    <3> QED
      BY <1>7, <3>1, WithIs
  <2> QED
    BY <2>1, <2>2
<1> QED
  BY <1>1, <1>2, <1>3, <1>4, <1>5, <1>8, <1>9 DEF PathGet

\* The payload of a single message.
LEMMA FirstOfEmit == ASSUME NEW port, NEW payload PROVE Emit(port, payload)[1].payload = payload
<1>1. PICK m : m = [port |-> port, payload |-> payload]
  OBVIOUS
<1>2. m.payload = payload
  BY <1>1
<1>3. Emit(port, payload)[1] = m
  BY <1>1, EmitIs
<1> QED
  BY <1>2, <1>3

\* What a mapping writes, and the object after each of them.
MappedValue(payload, m) ==
    LET found == PathGet(payload, m.from) IN IF found = NoValue THEN m.default ELSE found
Mapped(x, payload, m) ==
    IF MappedValue(payload, m) = NoValue THEN x ELSE PathSet(x, m.to, MappedValue(payload, m))
IsMapping(made, cfg, payload) ==
    /\ DOMAIN made = 0..Len(cfg.mappings) /\ made[0] = IF cfg.passThrough THEN payload ELSE Empty
    /\ \A n \in 1..Len(cfg.mappings) : made[n] = Mapped(made[n - 1], payload, cfg.mappings[n])

\* The mappings are made one after the other.
LEMMA MapperIs ==
    ASSUME NEW cfg, NEW payload, NEW S, cfg.mappings \in Seq(S)
    PROVE  \E made : IsMapping(made, cfg, payload)
                     /\ MapperNode(cfg, payload) = Out(Emit("output", made[Len(cfg.mappings)]))
<1> DEFINE N == Len(cfg.mappings)
           base == IF cfg.passThrough THEN payload ELSE Empty
           E(x, n) == Mapped(x, payload, cfg.mappings[n])
           Step(g, k) == [n \in 0..k |-> IF n = 0 THEN base ELSE E(g[n - 1], n)]
           T == {k \in Nat : \E g : g = Step(g, k)}
<1>1. N \in Nat
  BY DEF N
<1>2. PICK f : f = CHOOSE g : g = Step(g, N)
  OBVIOUS
<1>3. MapperNode(cfg, payload) = Out(Emit("output", f[N]))
  BY <1>2 DEF MapperNode, N, base, E, Step, Mapped, MappedValue
<1> HIDE DEF N, base, E
<1>4. 0 \in T
  <2>1. PICK g : g = [n \in 0..0 |-> base]
    OBVIOUS
  <2>2. g = Step(g, 0)
    BY <2>1
  <2> QED
    BY <2>2
<1>5. ASSUME NEW k \in Nat, k \in T PROVE k + 1 \in T
  <2>1. PICK g : g = Step(g, k)
    BY <1>5
  <2>2. PICK h : h = [n \in 0..k + 1 |-> IF n = k + 1 THEN E(g[k], k + 1) ELSE g[n]]
    OBVIOUS
  <2>3. \A n \in 0..k : h[n] = g[n] /\ g[n] = IF n = 0 THEN base ELSE E(g[n - 1], n)
    BY <2>1, <2>2
  <2>4. h[k + 1] = E(h[k], k + 1)
    BY <2>2, <2>3
  <2>5. \A n \in 0..k + 1 : h[n] = IF n = 0 THEN base ELSE E(h[n - 1], n)
    <3> SUFFICES ASSUME NEW n \in 0..k + 1 PROVE h[n] = IF n = 0 THEN base ELSE E(h[n - 1], n)
      OBVIOUS
    <3>1. CASE n = k + 1
      BY <2>4, <3>1
    <3>2. CASE n # k + 1
      <4>1. n \in 0..k /\ (n # 0 => n - 1 \in 0..k)
        BY <3>2
      <4> QED
        BY <2>3, <4>1
    <3> QED
      BY <3>1, <3>2
  <2>6. h = Step(h, k + 1)
    <3>1. h = [n \in 0..k + 1 |-> h[n]]
      BY <2>2
    <3> QED
      BY <2>5, <3>1
  <2> QED
    BY <2>6
<1>6. \E g : g = Step(g, N)
  <2>1. N \in T
    <3> HIDE DEF T
    <3> QED
      BY <1>1, <1>4, <1>5, Numbers!NumberInduction
  <2> QED
    BY <2>1
<1>7. f = Step(f, N)
  <2> HIDE DEF Step
  <2> QED
    BY <1>2, <1>6
<1>8. DOMAIN f = 0..N /\ f[0] = base /\ \A n \in 1..N : f[n] = E(f[n - 1], n)
  BY <1>1, <1>7
<1> QED
  BY <1>3, <1>8 DEF N, base, E, IsMapping

\* What they make of an object is an object, in which the last is found.
LEMMA MappingLeads ==
    ASSUME NEW made, NEW cfg, NEW payload, NEW S, cfg.mappings \in Seq(S), cfg.mappings # <<>>,
           \A i \in 1..Len(cfg.mappings) : cfg.mappings[i].to \in JsonPath,
           IsMapping(made, cfg, payload), cfg.passThrough => Is(payload, "object")
    PROVE  LET m == cfg.mappings[Len(cfg.mappings)]
           IN  \/ MappedValue(payload, m) = NoValue
               \/ PathGet(made[Len(cfg.mappings)], m.to) = MappedValue(payload, m)
<1>1. PICK q : q = cfg.mappings
  OBVIOUS
<1>2. PICK N \in Nat \ {0} : N = Len(q)
  BY <1>1
<1>3. made[0] = (IF cfg.passThrough THEN payload ELSE Empty) /\ \A n \in 1..N : made[n] = Mapped(made[n - 1], payload, q[n])
  BY <1>1, <1>2 DEF IsMapping
<1>4. \A n \in 1..N : q[n].to \in Seq(STRING) /\ q[n].to # <<>>
  BY <1>1, <1>2 DEF JsonPath
<1>5. Is(made[0], "object")
  <2>1. Is(Empty, "object")
    <3>1. PICK o : o = Empty
      OBVIOUS
    <3>2. o = [object |-> <<>>]
      BY <3>1 DEF Empty, Object
    <3> QED
      BY <3>1, <3>2 DEF Is
  <2> QED
    BY <1>3, <2>1
<1>6. ASSUME NEW n \in 1..N, NEW x, Is(x, "object")
      PROVE  /\ Is(Mapped(x, payload, q[n]), "object")
             /\ MappedValue(payload, q[n]) # NoValue => PathGet(Mapped(x, payload, q[n]), q[n].to) = MappedValue(payload, q[n])
  <2>0. PICK new : new = MappedValue(payload, q[n])
    OBVIOUS
  <2>1. PICK path \in Seq(STRING) : path # <<>> /\ path = q[n].to /\ new = MappedValue(payload, q[n])
    BY <1>4, <2>0
  <2>2. Is(PathSet(x, path, new), "object") /\ PathGet(PathSet(x, path, new), path) = new
    BY <1>6, <2>1, SetIsFound
  <2> QED
    BY <1>6, <2>1, <2>2 DEF Mapped
<1> DEFINE T == {n \in Nat : n <= N => Is(made[n], "object")}
<1>7. 0 \in T
  BY <1>5
<1>8. ASSUME NEW n \in Nat, n \in T PROVE n + 1 \in T
  <2> SUFFICES ASSUME n + 1 <= N PROVE Is(made[n + 1], "object")
    OBVIOUS
  <2>1. n + 1 \in 1..N /\ n <= N /\ (n + 1) - 1 = n
    OBVIOUS
  <2>2. Is(made[n], "object")
    BY <1>8, <2>1
  <2>3. made[n + 1] = Mapped(made[n], payload, q[n + 1])
    BY <1>3, <2>1
  <2> QED
    BY <1>6, <2>1, <2>2, <2>3
<1>9. \A n \in Nat : n \in T
  <2> HIDE DEF T
  <2> QED
    BY <1>7, <1>8, Numbers!NumberInduction
<1>10. PICK k \in Nat : N = k + 1
  <2>1. N - 1 \in Nat /\ N = (N - 1) + 1
    OBVIOUS
  <2> QED
    BY <2>1
<1>11. Is(made[k], "object") /\ N \in 1..N /\ N - 1 = k
  <2>1. k \in T
    BY <1>9
  <2> QED
    BY <1>10, <2>1
<1>12. made[N] = Mapped(made[k], payload, q[N])
  BY <1>3, <1>11
<1>13. MappedValue(payload, q[N]) # NoValue => PathGet(made[N], q[N].to) = MappedValue(payload, q[N])
  BY <1>6, <1>11, <1>12
<1> QED
  BY <1>1, <1>2, <1>13

\* A mapper that has sent its answer has written what the last mapping says.
LEMMA MappedHere == RunInv /\ Sent => MappedIsThere
<1> SUFFICES ASSUME RunInv, Sent, task.node = "mapper", task.cfg.mappings # <<>>,
                    task.cfg.passThrough => Is(task.payload, "object")
             PROVE  LET m == task.cfg.mappings[Len(task.cfg.mappings)]
                    IN  \/ MappedValue(task.payload, m) = NoValue
                        \/ PathGet(Only, m.to) = MappedValue(task.payload, m)
  BY DEF MappedIsThere, MappedValue
<1>1. PICK t \in Task : t = task
  BY SentIs
<1>2. PICK cfg, payload, q : cfg = task.cfg /\ payload = task.payload /\ q = task.cfg.mappings
  OBVIOUS
<1>3. q \in Seq(ToSet(q)) /\ \A m \in ToSet(q) : {m.from, m.to} \subseteq JsonPath
  BY <1>1, <1>2, TaskAssumption
<1>4. \A i \in 1..Len(q) : q[i].to \in JsonPath
  <2>1. DOMAIN q = 1..Len(q)
    BY <1>3
  <2>2. \A i \in 1..Len(q) : q[i] \in ToSet(q)
    BY <2>1 DEF ToSet
  <2> QED
    BY <1>3, <2>2
<1>5. PICK made : IsMapping(made, cfg, payload) /\ MapperNode(cfg, payload) = Out(Emit("output", made[Len(q)]))
  BY <1>2, <1>3, MapperIs
<1>6. result.out = Emit("output", made[Len(q)])
  <2>1. PICK e : e = Emit("output", made[Len(q)])
    OBVIOUS
  <2>2. Out(e).out = e
    BY <2>1, EmitIs, OutIs
  <2>3. Process(task) = MapperNode(cfg, payload)
    BY <1>2 DEF Process
  <2> QED
    BY <1>5, <2>1, <2>2, <2>3, SentIs
<1>7. Only = made[Len(q)]
  BY <1>6, FirstOfEmit DEF Only
<1>8. LET m == q[Len(q)]
      IN  MappedValue(payload, m) = NoValue \/ PathGet(made[Len(q)], m.to) = MappedValue(payload, m)
  BY <1>2, <1>3, <1>4, <1>5, MappingLeads
<1> QED
  BY <1>2, <1>7, <1>8

----------------------------------------------------------------------------
(* Coming to an end.                                                        *)

\* A set of numbers that is not empty has a least one.
LEMMA LeastIs ==
    ASSUME NEW S \in SUBSET Nat, S # {}
    PROVE  Min(S) \in S /\ \A y \in S : Min(S) <= y
<1> DEFINE Bottom(u) == \E m \in u : \A y \in u : m <= y
           T == {n \in Nat : \A u \in SUBSET Nat : (\E y \in u : y <= n) => Bottom(u)}
<1>1. 0 \in T
  <2> SUFFICES ASSUME NEW u \in SUBSET Nat, NEW y \in u, y <= 0 PROVE Bottom(u)
    OBVIOUS
  <2>1. y = 0 /\ \A z \in u : 0 <= z
    OBVIOUS
  <2> QED
    BY <2>1
<1>2. ASSUME NEW n \in Nat, n \in T PROVE n + 1 \in T
  <2> SUFFICES ASSUME NEW u \in SUBSET Nat, NEW y \in u, y <= n + 1 PROVE Bottom(u)
    OBVIOUS
  <2>1. CASE \E z \in u : z <= n
    BY <1>2, <2>1
  <2>2. CASE ~ \E z \in u : z <= n
    <3>1. y = n + 1 /\ \A z \in u : n + 1 <= z
      BY <2>2
    <3> QED
      BY <3>1
  <2> QED
    BY <2>1, <2>2
<1>3. \A n \in Nat : n \in T
  <2> HIDE DEF T
  <2> QED
    BY <1>1, <1>2, Numbers!NumberInduction
<1>4. PICK x \in S : x \in T /\ x \in Nat
  BY <1>3
<1>5. PICK m \in S : \A y \in S : m <= y
  <2>1. x <= x
    BY <1>4
  <2>2. \A u \in SUBSET Nat : (\E y \in u : y <= x) => Bottom(u)
    BY <1>4
  <2>3. Bottom(S)
    BY <2>1, <2>2
  <2> QED
    BY <2>3
<1> QED
  BY <1>5 DEF Min

\* Finding is finding the first one.
LEMMA FindIs ==
    ASSUME NEW D, NEW text \in Seq(D), NEW token, NEW from \in Nat
    PROVE  \/ Find(text, token, from) = NotThere /\ \A i \in from..Len(text) : text[i] # token
           \/ /\ Find(text, token, from) \in from..Len(text) /\ text[Find(text, token, from)] = token
              /\ \A i \in from..Len(text) : text[i] = token => Find(text, token, from) <= i
<1>1. PICK at : at = {i \in from..Len(text) : text[i] = token}
  OBVIOUS
<1>2. Find(text, token, from) = IF at = {} THEN NotThere ELSE Min(at)
  BY <1>1 DEF Find
<1>3. at \in SUBSET Nat
  BY <1>1
<1>4. CASE at = {}
  BY <1>1, <1>2, <1>4
<1>5. CASE at # {}
  <2>1. Min(at) \in at /\ \A y \in at : Min(at) <= y
    BY <1>3, <1>5, LeastIs
  <2> QED
    BY <1>1, <1>2, <1>5, <2>1
<1> QED
  BY <1>4, <1>5

\* The braces, and what a text may hold.
Opening == "{"
Closing == "}"
NullToken == "null"
Tokens == STRING \cup {NullToken}

\* A brace is no other token.
LEMMA TokensDiffer == Opening # Closing /\ Opening # NullToken
  BY DEF Opening, Closing, NullToken

\* The steps of the function node, said with them.
LEMMA BracesAre ==
    ASSUME NEW text, NEW data
    PROVE  /\ Open(text) <=> /\ Find(text, Opening, 1) # NotThere
                              /\ Find(text, Closing, Find(text, Opening, 1)) # NotThere
           /\ LET start == Find(text, Opening, 1)
                  end == Find(text, Closing, start)
                  value == Lookup(data, SubSeq(text, start + 1, end - 1))
              IN  Replaced(text, data) = SubSeq(text, 1, start - 1) \o (IF value = NullText THEN <<NullToken>> ELSE value)
                                            \o SubSeq(text, end + 1, Len(text))
  BY DEF Open, Replaced, Opening, Closing, NullToken

\* Opening braces stand among the last r tokens only.
OpensWithin(text, r) == \A i \in 1..Len(text) : text[i] = Opening => i > Len(text) - r
HoldNone(data) == data \in [DOMAIN data -> Seq(Tokens)] /\ \A k \in DOMAIN data : Opening \notin Range(data[k])

\* Texts of words and braces are sequences of tokens.
LEMMA SeqsOfTokens ==
    /\ \A q \in Seq(STRING) : q \in Seq(Tokens)
    /\ \A f : f \in [DOMAIN f -> Seq(STRING)] => f \in [DOMAIN f -> Seq(Tokens)]
<1>1. PICK S, D : S = STRING /\ D = Tokens
  OBVIOUS
<1>2. S \subseteq D
  BY <1>1 DEF Tokens
<1>3. \A q \in Seq(S) : q \in Seq(D)
  <2> SUFFICES ASSUME NEW q \in Seq(S) PROVE q \in Seq(D)
    OBVIOUS
  <2>1. \A i \in 1..Len(q) : q[i] \in D
    BY <1>2
  <2> QED
    BY <2>1
<1>4. \A f : f \in [DOMAIN f -> Seq(S)] => f \in [DOMAIN f -> Seq(D)]
  BY <1>3
<1> QED
  BY <1>1, <1>3, <1>4

\* What is put in for a placeholder has no brace.
LEMMA ValuesHaveNone ==
    ASSUME NEW data, HoldNone(data), NEW path
    PROVE  LET v == IF Lookup(data, path) = NullText THEN <<NullToken>> ELSE Lookup(data, path)
           IN  v \in Seq(Tokens) /\ \A i \in 1..Len(v) : v[i] # Opening
<1>1. PICK v : v = IF Lookup(data, path) = NullText THEN <<NullToken>> ELSE Lookup(data, path)
  OBVIOUS
<1>2. CASE Lookup(data, path) = NullText
  <2>1. v = <<NullToken>>
    BY <1>1, <1>2
  <2>2. NullToken \in Tokens
    BY DEF Tokens
  <2>3. v \in Seq(Tokens)
    BY <2>1, <2>2
  <2>4. Len(v) = 1 /\ v[1] = NullToken
    BY <2>1
  <2>5. \A i \in 1..Len(v) : v[i] # Opening
    BY <2>4, TokensDiffer
  <2> QED
    BY <1>1, <2>3, <2>5
<1>3. CASE Lookup(data, path) # NullText
  <2>1. PICK k \in DOMAIN data : v = data[k]
    BY <1>1, <1>3 DEF Lookup
  <2>2. v \in Seq(Tokens) /\ Opening \notin Range(v)
    BY <2>1 DEF HoldNone
  <2>3. \A i \in 1..Len(v) : v[i] # Opening
    <3>1. DOMAIN v = 1..Len(v)
      BY <2>2
    <3>2. \A i \in DOMAIN v : v[i] \in Range(v)
      BY DEF Range
    <3> QED
      BY <2>2, <3>1, <3>2
  <2> QED
    BY <1>1, <2>2, <2>3
<1> QED
  BY <1>2, <1>3

\* A replacement brings the first brace further to the end.
LEMMA ReplacedIs ==
    ASSUME NEW text \in Seq(Tokens), NEW data, HoldNone(data), NEW r \in Nat, OpensWithin(text, r), Open(text)
    PROVE  Replaced(text, data) \in Seq(Tokens) /\ r # 0 /\ OpensWithin(Replaced(text, data), r - 1)
<1>1. PICK n \in Nat : n = Len(text)
  OBVIOUS
<1>2. Find(text, Opening, 1) # NotThere /\ Find(text, Closing, Find(text, Opening, 1)) # NotThere
  BY BracesAre
<1>3. PICK s \in 1..n : s = Find(text, Opening, 1) /\ text[s] = Opening /\ \A i \in 1..n : text[i] = Opening => s <= i
  BY <1>1, <1>2, FindIs
<1>4. Find(text, Closing, s) # NotThere /\ s \in Nat /\ 1 <= s /\ s <= n
  BY <1>1, <1>2, <1>3
<1>5. PICK e \in s..n : e = Find(text, Closing, s) /\ text[e] = Closing
  BY <1>1, <1>4, FindIs
<1>6. e # s /\ e \in Nat /\ s <= e /\ e <= n
  BY <1>1, <1>3, <1>4, <1>5, TokensDiffer
<1>7. s > n - r
  BY <1>1, <1>3 DEF OpensWithin
<1>8. \A i \in 1..n : text[i] \in Tokens
  BY <1>1
<1>9. PICK path : path = SubSeq(text, s + 1, e - 1)
  OBVIOUS
<1>10. PICK v \in Seq(Tokens) : v = (IF Lookup(data, path) = NullText THEN <<NullToken>> ELSE Lookup(data, path))
                                 /\ \A i \in 1..Len(v) : v[i] # Opening
  BY ValuesHaveNone
<1>11. PICK a \in Seq(Tokens) : a = SubSeq(text, 1, s - 1) /\ Len(a) = s - 1 /\ \A i \in 1..s - 1 : a[i] = text[i]
  <2>1. PICK k \in Nat : k = s - 1 /\ k <= n
    BY <1>1, <1>4
  <2>2. \A i \in 1..k : text[i] \in Tokens
    BY <1>8, <2>1
  <2>3. SubSeq(text, 1, k) \in Seq(Tokens) /\ Len(SubSeq(text, 1, k)) = k /\ \A i \in 1..k : SubSeq(text, 1, k)[i] = text[i]
    BY <2>2, SubSeqProperties
  <2> QED
    BY <2>1, <2>3
<1>12. PICK b \in Seq(Tokens) : b = SubSeq(text, e + 1, Len(text)) /\ Len(b) = n - e
  <2>1. PICK k \in Nat : k = e + 1 /\ k <= n + 1 /\ n - k + 1 = n - e /\ 1 <= k
    BY <1>1, <1>6
  <2>2. \A i \in k..n : text[i] \in Tokens
    BY <1>8, <2>1
  <2>3. SubSeq(text, k, n) \in Seq(Tokens) /\ Len(SubSeq(text, k, n)) = IF k <= n THEN n - k + 1 ELSE 0
    BY <2>1, <2>2, SubSeqProperties
  <2>4. Len(SubSeq(text, k, n)) = n - e
    BY <1>6, <2>1, <2>3
  <2> QED
    BY <1>1, <2>1, <2>3, <2>4
<1>13. Replaced(text, data) = a \o v \o b
  BY <1>3, <1>5, <1>9, <1>10, <1>11, <1>12, BracesAre
<1>14. PICK c \in Seq(Tokens) : c = a \o v
  BY ConcatProperties
<1>15. Len(v) \in Nat
  OBVIOUS
<1>16. Len(c) = s - 1 + Len(v) /\ \A i \in 1..Len(c) : c[i] # Opening
  <2>1. Len(c) = s - 1 + Len(v) /\ \A i \in 1..Len(c) : c[i] = IF i <= Len(a) THEN a[i] ELSE v[i - Len(a)]
    BY <1>11, <1>14, ConcatProperties
  <2>2. ASSUME NEW i \in 1..Len(c) PROVE c[i] # Opening
    <3>1. CASE i <= s - 1
      <4>1. i \in 1..s - 1 /\ i \in 1..n /\ ~(s <= i)
        BY <1>4, <1>15, <2>1, <3>1
      <4>2. c[i] = text[i]
        BY <1>11, <2>1, <3>1, <4>1
      <4> QED
        BY <1>3, <4>1, <4>2
    <3>2. CASE ~(i <= s - 1)
      <4>1. i - (s - 1) \in 1..Len(v)
        BY <1>4, <1>15, <2>1, <3>2
      <4>2. c[i] = v[i - (s - 1)]
        BY <1>11, <2>1, <3>2
      <4> QED
        BY <1>10, <4>1, <4>2
    <3> QED
      BY <3>1, <3>2
  <2> QED
    BY <2>1, <2>2
<1>17. PICK d \in Seq(Tokens) : d = c \o b
  BY ConcatProperties
<1>18. Len(d) = Len(c) + (n - e) /\ \A i \in 1..Len(d) : i <= Len(c) => d[i] = c[i]
  BY <1>12, <1>17, ConcatProperties
<1>19. OpensWithin(d, r - 1)
  <2> SUFFICES ASSUME NEW i \in 1..Len(d), d[i] = Opening PROVE i > Len(d) - (r - 1)
    BY DEF OpensWithin
  <2>0. Len(c) \in Nat /\ i \in Nat /\ 1 <= i
    BY <1>4, <1>6, <1>15, <1>16, <1>18
  <2>1. ~(i <= Len(c))
    <3>1. i <= Len(c) => i \in 1..Len(c)
      BY <2>0
    <3> QED
      BY <1>16, <1>18, <3>1
  <2>2. n - e <= r - 2
    BY <1>4, <1>6, <1>7
  <2> QED
    BY <1>6, <1>18, <2>0, <2>1, <2>2
<1>20. r # 0
  BY <1>4, <1>7
<1> QED
  BY <1>13, <1>14, <1>17, <1>19, <1>20

\* A template is searched again until nothing is found, or too often.
IsResolving(after, template, data) ==
    /\ DOMAIN after = 0..MaxReplacements /\ after[0] = template
    /\ \A n \in 1..MaxReplacements :
            after[n] = IF Open(after[n - 1]) THEN Replaced(after[n - 1], data) ELSE after[n - 1]
ResolvedAs(text, template, data) ==
    LET braces == {i \in DOMAIN template : template[i] = "{"}
        whole == Len(template) > 1 /\ template[1] = "{" /\ template[Len(template)] = "}"
                    /\ Cardinality(braces) = 1
        value == Lookup(data, SubSeq(template, 2, Len(template) - 1))
    IN  IF whole /\ value # NullText THEN Out(Emit("output", value))
        ELSE IF Open(text) THEN Spins
        ELSE Out(Emit("output", text))

\* The texts after each replacement.
LEMMA ResolveIs ==
    ASSUME NEW template, NEW data
    PROVE  \E after : IsResolving(after, template, data)
                     /\ ResolveTemplate(template, data) = ResolvedAs(after[MaxReplacements], template, data)
<1> DEFINE N == MaxReplacements
           base == template
           E(x, n) == IF Open(x) THEN Replaced(x, data) ELSE x
           Step(g, k) == [n \in 0..k |-> IF n = 0 THEN base ELSE E(g[n - 1], n)]
           T == {k \in Nat : \E g : g = Step(g, k)}
<1>1. N \in Nat
  BY TemplateAssumption DEF N
<1>2. PICK f : f = CHOOSE g : g = Step(g, N)
  OBVIOUS
<1>3. ResolveTemplate(template, data) = ResolvedAs(f[N], template, data)
  BY <1>2 DEF ResolveTemplate, ResolvedAs, N, base, E, Step
<1> HIDE DEF N, base, E
<1>4. 0 \in T
  <2>1. PICK g : g = [n \in 0..0 |-> base]
    OBVIOUS
  <2>2. g = Step(g, 0)
    BY <2>1
  <2> QED
    BY <2>2
<1>5. ASSUME NEW k \in Nat, k \in T PROVE k + 1 \in T
  <2>1. PICK g : g = Step(g, k)
    BY <1>5
  <2>2. PICK h : h = [n \in 0..k + 1 |-> IF n = k + 1 THEN E(g[k], k + 1) ELSE g[n]]
    OBVIOUS
  <2>3. \A n \in 0..k : h[n] = g[n] /\ g[n] = IF n = 0 THEN base ELSE E(g[n - 1], n)
    BY <2>1, <2>2
  <2>4. h[k + 1] = E(h[k], k + 1)
    BY <2>2, <2>3
  <2>5. \A n \in 0..k + 1 : h[n] = IF n = 0 THEN base ELSE E(h[n - 1], n)
    <3> SUFFICES ASSUME NEW n \in 0..k + 1 PROVE h[n] = IF n = 0 THEN base ELSE E(h[n - 1], n)
      OBVIOUS
    <3>1. CASE n = k + 1
      BY <2>4, <3>1
    <3>2. CASE n # k + 1
      <4>1. n \in 0..k /\ (n # 0 => n - 1 \in 0..k)
        BY <3>2
      <4> QED
        BY <2>3, <4>1
    <3> QED
      BY <3>1, <3>2
  <2>6. h = Step(h, k + 1)
    <3>1. h = [n \in 0..k + 1 |-> h[n]]
      BY <2>2
    <3> QED
      BY <2>5, <3>1
  <2> QED
    BY <2>6
<1>6. \E g : g = Step(g, N)
  <2>1. N \in T
    <3> HIDE DEF T
    <3> QED
      BY <1>1, <1>4, <1>5, Numbers!NumberInduction
  <2> QED
    BY <2>1
<1>7. f = Step(f, N)
  <2> HIDE DEF Step
  <2> QED
    BY <1>2, <1>6
<1>8. DOMAIN f = 0..N /\ f[0] = base /\ \A n \in 1..N : f[n] = E(f[n - 1], n)
  BY <1>1, <1>7
<1> QED
  BY <1>3, <1>8 DEF N, base, E, IsResolving

\* A function whose data have no brace comes to an end.
LEMMA FunctionEnds ==
    ASSUME NEW cfg, NEW data, cfg.template \in Seq(STRING), Len(cfg.template) <= MaxReplacements, HoldNone(data)
    PROVE  FunctionNode(cfg, data).end # "spins"
<1>1. PICK template \in Seq(Tokens) : template = cfg.template /\ Len(template) <= MaxReplacements
  BY SeqsOfTokens
<1>2. PICK L, M \in Nat : L = Len(template) /\ M = MaxReplacements /\ L <= M
  <2>1. Len(template) \in Nat /\ MaxReplacements \in Nat
    BY TemplateAssumption
  <2> QED
    BY <1>1, <2>1
<1>3. PICK after : IsResolving(after, template, data)
                   /\ ResolveTemplate(template, data) = ResolvedAs(after[MaxReplacements], template, data)
  BY ResolveIs
<1>4. after[0] = template /\ \A n \in 1..M : after[n] = IF Open(after[n - 1]) THEN Replaced(after[n - 1], data) ELSE after[n - 1]
  BY <1>2, <1>3 DEF IsResolving
<1> DEFINE Good(n) == after[n] \in Seq(Tokens) /\ (Open(after[n]) => \E r \in Nat : r + n <= L /\ OpensWithin(after[n], r))
           T == {n \in Nat : n <= M => Good(n)}
<1>5. 0 \in T
  <2>1. OpensWithin(template, L)
    <3>1. \A i \in 1..Len(template) : i > Len(template) - L
      BY <1>2
    <3> QED
      BY <3>1 DEF OpensWithin
  <2>2. L + 0 <= L
    BY <1>2
  <2>3. after[0] \in Seq(Tokens)
    BY <1>4
  <2>4. \E r \in Nat : r + 0 <= L /\ OpensWithin(after[0], r)
    BY <1>2, <1>4, <2>1, <2>2
  <2> QED
    BY <2>3, <2>4
<1>6. ASSUME NEW n \in Nat, n \in T PROVE n + 1 \in T
  <2> SUFFICES ASSUME n + 1 <= M PROVE Good(n + 1)
    <3> HIDE DEF Good
    <3> QED
      OBVIOUS
  <2>1. n <= M /\ n + 1 \in 1..M /\ (n + 1) - 1 = n
    BY <1>2
  <2>2. Good(n)
    <3> HIDE DEF Good
    <3> QED
      BY <1>6, <2>1
  <2>3. PICK x \in Seq(Tokens) : x = after[n]
    BY <2>2
  <2>4. after[n + 1] = IF Open(x) THEN Replaced(x, data) ELSE x
    BY <1>4, <2>1, <2>3
  <2>5. CASE ~Open(x)
    <3>1. after[n + 1] = x
      BY <2>4, <2>5
    <3> QED
      BY <2>5, <3>1
  <2>6. CASE Open(x)
    <3>1. PICK r \in Nat : r + n <= L /\ OpensWithin(x, r)
      BY <2>2, <2>3, <2>6
    <3>2. Replaced(x, data) \in Seq(Tokens) /\ r # 0 /\ OpensWithin(Replaced(x, data), r - 1)
      BY <2>6, <3>1, ReplacedIs
    <3>3. PICK y : y = Replaced(x, data)
      OBVIOUS
    <3>4. after[n + 1] = y /\ y \in Seq(Tokens) /\ OpensWithin(y, r - 1)
      BY <2>4, <2>6, <3>2, <3>3
    <3>5. r - 1 \in Nat /\ (r - 1) + (n + 1) <= L
      BY <1>2, <3>1, <3>2
    <3>6. \E k \in Nat : k + (n + 1) <= L /\ OpensWithin(y, k)
      BY <3>4, <3>5
    <3> QED
      BY <3>4, <3>6
  <2> QED
    BY <2>5, <2>6
<1>7. Good(M)
  <2>1. M \in T
    <3> HIDE DEF T
    <3> QED
      BY <1>5, <1>6, Numbers!NumberInduction
  <2>2. M <= M
    OBVIOUS
  <2> HIDE DEF Good
  <2> QED
    BY <2>1, <2>2
<1>8. PICK x : x = after[M]
  OBVIOUS
<1>9. ~Open(x)
  <2> SUFFICES ASSUME Open(x) PROVE FALSE
    OBVIOUS
  <2>1. PICK r \in Nat : r + M <= L /\ OpensWithin(x, r) /\ x \in Seq(Tokens)
    BY <1>7, <1>8
  <2>2. r = 0
    BY <1>2, <2>1
  <2>3. Replaced(x, data) \in Seq(Tokens) /\ r # 0
    BY <2>1, ReplacedIs
  <2> QED
    BY <2>2, <2>3
<1>10. ResolvedAs(x, template, data).end = "ok"
  <2>1. \E p : ResolvedAs(x, template, data) = Out(Emit("output", p))
    BY <1>9 DEF ResolvedAs
  <2> QED
    BY <2>1, OneMessage
<1> QED
  BY <1>1, <1>2, <1>3, <1>8, <1>10 DEF FunctionNode

\* A text whose chunks reach further than they overlap is split to its end.
LEMMA SplitterEnds ==
    ASSUME NEW cfg, NEW text, cfg.size \in Nat, cfg.overlap \in Nat, TextSplitterNode(cfg, text).end = "spins"
    PROVE  cfg.overlap >= cfg.size
<1>1. PICK unit \in {1, 4} : unit = IF cfg.action = "tokens" THEN 4 ELSE 1
  OBVIOUS
<1>2. PICK size, overlap : size = unit * cfg.size /\ overlap = unit * cfg.overlap
  OBVIOUS
<1>3. CASE overlap >= size
  BY <1>1, <1>2, <1>3
<1>4. CASE ~(overlap >= size)
  <2>1. \E port, p : TextSplitterNode(cfg, text) = Out(Emit(port, p))
    BY <1>1, <1>2, <1>4 DEF TextSplitterNode
  <2>2. TextSplitterNode(cfg, text).end = "ok"
    BY <2>1, OneMessage
  <2> QED
    BY <2>2
<1> QED
  BY <1>3, <1>4

\* Nodes come to an end, but where their configuration or their data say not.
LEMMA RunsEnd == RunInv => NodesComeToAnEnd
<1> SUFFICES ASSUME RunInv PROVE NodesComeToAnEnd
  OBVIOUS
<1>1. PICK t \in Task : t = task
  BY DEF RunInv
<1>2. PICK e : e = result.end
  OBVIOUS
<1>3. e = "waiting" \/ e = Process(task).end \/ e = "sent"
  BY <1>2 DEF RunInv, Waiting
<1>4. CASE e \notin {"spins", "panic"}
  BY <1>2, <1>4 DEF NodesComeToAnEnd
<1>5. CASE e = "panic"
  <2>1. Process(t).end = "panic"
    BY <1>1, <1>3, <1>5
  <2> QED
    BY <1>1, <1>2, <1>5, <2>1, ProcessAnswers DEF NodesComeToAnEnd
<1>6. CASE e = "spins"
  <2>1. Process(t).end = "spins"
    BY <1>1, <1>3, <1>6
  <2>2. t.node \in {"text-splitter", "function"}
    BY <2>1, ProcessAnswers
  <2>3. PICK cfg, payload : cfg = t.cfg /\ payload = t.payload
    OBVIOUS
  <2>4. CASE t.node = "text-splitter"
    <3>1. TextSplitterNode(cfg, payload).end = "spins"
      <4>1. Process(t) = TextSplitterNode(cfg, payload)
        BY <2>3, <2>4 DEF Process
      <4> QED
        BY <2>1, <4>1
    <3>2. cfg.size \in Nat /\ cfg.overlap \in Nat
      BY <2>3, <2>4, TaskAssumption
    <3>3. cfg.overlap >= cfg.size
      BY <3>1, <3>2, SplitterEnds
    <3> QED
      BY <1>1, <1>2, <1>6, <2>3, <2>4, <3>3 DEF NodesComeToAnEnd
  <2>5. CASE t.node = "function"
    <3>1. FunctionNode(cfg, payload).end = "spins"
      <4>1. Process(t) = FunctionNode(cfg, payload)
        BY <2>3, <2>5 DEF Process
      <4> QED
        BY <2>1, <4>1
    <3>2. /\ cfg.template \in Seq(STRING) /\ Len(cfg.template) <= MaxReplacements
          /\ payload \in [DOMAIN payload -> Seq(STRING)]
      BY <2>3, <2>5, TaskAssumption
    <3>3. ~HoldNone(payload)
      BY <3>1, <3>2, FunctionEnds
    <3>4. \E k \in DOMAIN payload : Opening \in Range(payload[k])
      BY <3>2, <3>3, SeqsOfTokens DEF HoldNone
    <3> QED
      BY <1>1, <1>2, <1>6, <2>3, <2>5, <3>4 DEF NodesComeToAnEnd, Opening
  <2> QED
    BY <2>2, <2>4, <2>5
<1> QED
  BY <1>4, <1>5, <1>6

----------------------------------------------------------------------------
(* Chunks of a text.                                                        *)

\* A turn of the splitter.
ChunkEnd(t, size, limit) == IF t.start + size < limit THEN t.start + size ELSE limit
ChunkOf(bounds, start, end) == IF {start, end} \subseteq bounds THEN << <<start, end>> >> ELSE <<>>
Turned(t, size, overlap, limit, bounds) ==
    LET end == ChunkEnd(t, size, limit)
    IN  IF t.over THEN t
        ELSE [start |-> IF end > overlap THEN end - overlap ELSE 0, over |-> end = limit,
              chunks |-> t.chunks \o ChunkOf(bounds, t.start, end)]
FirstTurn == [start |-> 0, over |-> FALSE, chunks |-> <<>>]
IsTurning(turn, size, overlap, limit, bounds) ==
    /\ DOMAIN turn = 0..limit /\ turn[0] = FirstTurn
    /\ \A n \in 1..limit : turn[n] = Turned(turn[n - 1], size, overlap, limit, bounds)

\* The chunks are made turn by turn.
LEMMA ChunksAre ==
    ASSUME NEW text, NEW size, NEW overlap, Total(text) \in Nat
    PROVE  \E turn : /\ IsTurning(turn, size, overlap, Total(text), Boundaries(text))
                     /\ FixedChunks(text, size, overlap) = turn[Total(text)].chunks
<1> DEFINE N == Total(text)
           base == FirstTurn
           E(x, n) == Turned(x, size, overlap, Total(text), Boundaries(text))
           Step(g, k) == [n \in 0..k |-> IF n = 0 THEN base ELSE E(g[n - 1], n)]
           T == {k \in Nat : \E g : g = Step(g, k)}
<1>1. N \in Nat
  BY DEF N
<1>2. PICK f : f = CHOOSE g : g = Step(g, N)
  OBVIOUS
<1>3. FixedChunks(text, size, overlap) = f[N].chunks
  BY <1>2 DEF FixedChunks, FirstTurn, Turned, ChunkEnd, ChunkOf, N, base, E, Step
<1> HIDE DEF N, base, E
<1>4. 0 \in T
  <2>1. PICK g : g = [n \in 0..0 |-> base]
    OBVIOUS
  <2>2. g = Step(g, 0)
    BY <2>1
  <2> QED
    BY <2>2
<1>5. ASSUME NEW k \in Nat, k \in T PROVE k + 1 \in T
  <2>1. PICK g : g = Step(g, k)
    BY <1>5
  <2>2. PICK h : h = [n \in 0..k + 1 |-> IF n = k + 1 THEN E(g[k], k + 1) ELSE g[n]]
    OBVIOUS
  <2>3. \A n \in 0..k : h[n] = g[n] /\ g[n] = IF n = 0 THEN base ELSE E(g[n - 1], n)
    BY <2>1, <2>2
  <2>4. h[k + 1] = E(h[k], k + 1)
    BY <2>2, <2>3
  <2>5. \A n \in 0..k + 1 : h[n] = IF n = 0 THEN base ELSE E(h[n - 1], n)
    <3> SUFFICES ASSUME NEW n \in 0..k + 1 PROVE h[n] = IF n = 0 THEN base ELSE E(h[n - 1], n)
      OBVIOUS
    <3>1. CASE n = k + 1
      BY <2>4, <3>1
    <3>2. CASE n # k + 1
      <4>1. n \in 0..k /\ (n # 0 => n - 1 \in 0..k)
        BY <3>2
      <4> QED
        BY <2>3, <4>1
    <3> QED
      BY <3>1, <3>2
  <2>6. h = Step(h, k + 1)
    <3>1. h = [n \in 0..k + 1 |-> h[n]]
      BY <2>2
    <3> QED
      BY <2>5, <3>1
  <2> QED
    BY <2>6
<1>6. \E g : g = Step(g, N)
  <2>1. N \in T
    <3> HIDE DEF T
    <3> QED
      BY <1>1, <1>4, <1>5, Numbers!NumberInduction
  <2> QED
    BY <2>1
<1>7. f = Step(f, N)
  <2> HIDE DEF Step
  <2> QED
    BY <1>2, <1>6
<1>8. DOMAIN f = 0..N /\ f[0] = base /\ \A n \in 1..N : f[n] = E(f[n - 1], n)
  BY <1>1, <1>7
<1> QED
  BY <1>3, <1>8 DEF N, base, E, IsTurning

\* In a text of one-byte characters every place is a boundary.
LEMMA NarrowTexts ==
    ASSUME NEW text \in Seq(1..4), \A i \in DOMAIN text : text[i] = 1
    PROVE  Total(text) = Len(text) /\ 0..Len(text) \subseteq Boundaries(text)
<1>1. PICK n \in Nat : n = Len(text)
  OBVIOUS
<1>2. \A i \in 1..n : text[i] \in Int /\ text[i] = 1
  BY <1>1
<1>3. text \in Seq(Int)
  BY <1>1, <1>2
<1>4. Total(text) = Len(text)
  BY <1>1, <1>2, <1>3, TotalSame
<1>5. ASSUME NEW k \in 0..n PROVE Total(SubSeq(text, 1, k)) = k
  <2>1. k \in Nat /\ k <= n /\ \A i \in 1..k : text[i] \in Int
    BY <1>2
  <2>2. PICK s : s = SubSeq(text, 1, k)
    OBVIOUS
  <2>3. s \in Seq(Int) /\ Len(s) = k /\ \A i \in 1..k : s[i] = text[i]
    BY <2>1, <2>2, SubSeqProperties
  <2>4. \A i \in 1..Len(s) : s[i] = 1
    <3>1. \A i \in 1..k : i \in 1..n
      BY <2>1
    <3> QED
      BY <1>2, <2>3, <3>1
  <2>5. Total(s) = Len(s)
    BY <2>3, <2>4, TotalSame
  <2> QED
    BY <2>2, <2>3, <2>5
<1>6. \A k \in 0..n : k \in Boundaries(text)
  BY <1>1, <1>5 DEF Boundaries
<1> QED
  BY <1>1, <1>4, <1>6

\* Chunks so far: each starts before the end of the one before it.
Chained(c, size, overlap) ==
    /\ c \in Seq(Nat \X Nat) /\ (c # <<>> => c[1][1] = 0)
    /\ \A i \in 1..Len(c) : c[i][2] - c[i][1] \in 1..size
    /\ \A i \in 1..Len(c) - 1 : c[i + 1][1] = c[i][2] - overlap
NextStart(c, overlap) == IF c = <<>> THEN 0 ELSE c[Len(c)][2] - overlap
TurnIs(t, n, size, overlap, limit) ==
    /\ t = [start |-> t.start, over |-> t.over, chunks |-> t.chunks] /\ t.over \in BOOLEAN
    /\ Chained(t.chunks, size, overlap)
    /\ ~t.over => /\ t.start \in Nat /\ t.start < limit /\ t.start >= n
                  /\ t.start = NextStart(t.chunks, overlap)
    /\ t.over => t.chunks # <<>> /\ t.chunks[Len(t.chunks)][2] = limit

\* One chunk more.
OneMore(c, a, b) == c \o << <<a, b>> >>
GrowsBy(d, c, a, b, size, overlap) ==
    /\ size \in Nat /\ overlap \in Nat /\ Chained(c, size, overlap) /\ a \in Nat /\ b \in Nat
    /\ b - a \in 1..size /\ a = NextStart(c, overlap) /\ d = OneMore(c, a, b)

\* One more chunk, which starts `overlap` before the end of the last one, and the chunks still hang together.
LEMMA ChainGrows ==
    ASSUME NEW size, NEW overlap, NEW c, NEW a, NEW b, NEW d, GrowsBy(d, c, a, b, size, overlap)
    PROVE  Chained(d, size, overlap) /\ d # <<>> /\ d[Len(d)][2] = b
<1>0. /\ size \in Nat /\ overlap \in Nat /\ Chained(c, size, overlap) /\ a \in Nat /\ b \in Nat
      /\ b - a \in 1..size /\ a = NextStart(c, overlap) /\ d = OneMore(c, a, b)
  BY DEF GrowsBy
<1>1. PICK D : D = Nat \X Nat
  OBVIOUS
<1>2. PICK x \in D : x = <<a, b>> /\ x[1] = a /\ x[2] = b
  <2>1. <<a, b>> \in Nat \X Nat
    BY <1>0
  <2>2. PICK x \in Nat \X Nat : x = <<a, b>>
    BY <2>1
  <2>3. x[1] = a /\ x[2] = b
    BY <2>2
  <2> QED
    BY <1>1, <2>2, <2>3
<1>3. c \in Seq(D)
  BY <1>0, <1>1 DEF Chained
<1>4. d = c \o <<x>>
  BY <1>0, <1>2 DEF OneMore
<1>5. PICK k \in Nat : k = Len(c)
  BY <1>3
<1>6. d \in Seq(D) /\ Len(d) = k + 1 /\ d[k + 1] = x /\ \A i \in 1..k : d[i] = c[i]
  <2>0. PICK e \in Seq(D) : e = Append(c, x)
    BY <1>3, AppendProperties
  <2>1. e = Append(c, x) /\ Len(e) = k + 1 /\ e[k + 1] = x /\ \A i \in 1..k : e[i] = c[i]
    BY <1>3, <1>5, <2>0, AppendProperties
  <2>2. d = e
    BY <1>2, <1>3, <1>4, <2>1, AppendIsConcat
  <2> QED
    BY <2>1, <2>2
<1>7. c = <<>> <=> k = 0
  BY <1>3, <1>5
<1>8. d # <<>> /\ d[1][1] = 0
  <2>1. CASE k = 0
    BY <1>0, <1>2, <1>6, <1>7, <2>1 DEF NextStart
  <2>2. CASE k # 0
    <3>1. 1 \in 1..k /\ c[1][1] = 0
      BY <1>0, <1>7, <2>2 DEF Chained
    <3> QED
      BY <1>6, <3>1
  <2> QED
    BY <2>1, <2>2
<1>9. ASSUME NEW i \in 1..k + 1 PROVE d[i][2] - d[i][1] \in 1..size
  <2>1. CASE i = k + 1
    BY <1>0, <1>2, <1>6, <2>1
  <2>2. CASE i # k + 1
    <3>1. i \in 1..k
      BY <2>2
    <3> QED
      BY <1>0, <1>5, <1>6, <3>1 DEF Chained
  <2> QED
    BY <2>1, <2>2
<1>10. ASSUME NEW i \in 1..k PROVE d[i + 1][1] = d[i][2] - overlap
  <2>1. CASE i = k
    <3>1. c # <<>> /\ d[i] = c[Len(c)] /\ d[i + 1] = x
      BY <1>5, <1>6, <1>7, <2>1
    <3> QED
      BY <1>0, <1>2, <3>1 DEF NextStart
  <2>2. CASE i # k
    <3>1. i \in 1..k - 1 /\ i + 1 \in 1..k
      BY <2>2
    <3>2. d[i] = c[i] /\ d[i + 1] = c[i + 1]
      BY <1>6, <3>1
    <3> QED
      BY <1>0, <1>5, <3>1, <3>2 DEF Chained
  <2> QED
    BY <2>1, <2>2
<1>11. Chained(d, size, overlap)
  <2>1. Len(d) - 1 = k
    BY <1>6
  <2> QED
    BY <1>1, <1>6, <1>8, <1>9, <1>10, <2>1 DEF Chained
<1> QED
  BY <1>2, <1>4, <1>6, <1>8, <1>11

\* A turn leads on, or is the last.
LEMMA TurnLeads ==
    ASSUME NEW size \in Nat \ {0}, NEW overlap \in Nat, NEW limit \in Nat, ~(overlap >= size /\ size < limit),
           NEW bounds, 0..limit \subseteq bounds, NEW n \in Nat, NEW t, TurnIs(t, n, size, overlap, limit)
    PROVE  TurnIs(Turned(t, size, overlap, limit, bounds), n + 1, size, overlap, limit)
<1>1. CASE t.over
  <2>1. Turned(t, size, overlap, limit, bounds) = t
    BY <1>1 DEF Turned
  <2> QED
    BY <1>1, <2>1 DEF TurnIs
<1>2. CASE ~t.over
  <2>1. PICK s, c : s = t.start /\ c = t.chunks
    OBVIOUS
  <2>2. /\ s \in Nat /\ s < limit /\ s >= n /\ Chained(c, size, overlap)
        /\ s = NextStart(c, overlap)
    BY <1>2, <2>1 DEF TurnIs
  <2>3. PICK e \in Nat : e = (IF s + size < limit THEN s + size ELSE limit)
    BY <2>2
  <2>4. e <= limit /\ e - s \in 1..size /\ e > s
    BY <2>2, <2>3
  <2>5. ChunkOf(bounds, s, e) = << <<s, e>> >>
    <3>1. s \in 0..limit /\ e \in 0..limit
      BY <2>2, <2>3, <2>4
    <3> QED
      BY <3>1 DEF ChunkOf
  <2>6. PICK d : d = c \o << <<s, e>> >> /\ d = OneMore(c, s, e)
    BY DEF OneMore
  <2>7. Chained(d, size, overlap) /\ d # <<>> /\ d[Len(d)][2] = e
    <3>1. size \in Nat /\ overlap \in Nat /\ s \in Nat /\ e \in Nat
      BY <2>2, <2>3
    <3>2. d = OneMore(c, s, e) /\ Chained(c, size, overlap) /\ s = NextStart(c, overlap) /\ e - s \in 1..size
      BY <2>2, <2>4, <2>6
    <3>3. GrowsBy(d, c, s, e, size, overlap)
      BY <3>1, <3>2 DEF GrowsBy
    <3> QED
      BY <3>3, ChainGrows
  <2>8. PICK u : u = Turned(t, size, overlap, limit, bounds)
    OBVIOUS
  <2>9. u = [start |-> IF e > overlap THEN e - overlap ELSE 0, over |-> e = limit, chunks |-> d]
    BY <1>2, <2>1, <2>3, <2>5, <2>6, <2>8 DEF Turned, ChunkEnd
  <2>10. u.start = (IF e > overlap THEN e - overlap ELSE 0) /\ u.over = (e = limit) /\ u.chunks = d
         /\ u = [start |-> u.start, over |-> u.over, chunks |-> u.chunks]
    BY <2>9
  <2>11. CASE e = limit
    <3>1. u.over = TRUE /\ u.over \in BOOLEAN
      BY <2>10, <2>11
    <3>2. Chained(u.chunks, size, overlap) /\ u.chunks # <<>> /\ u.chunks[Len(u.chunks)][2] = limit
      BY <2>7, <2>10, <2>11
    <3> QED
      BY <2>8, <2>10, <3>1, <3>2 DEF TurnIs
  <2>12. CASE e # limit
    <3>1. e = s + size /\ overlap < size
      BY <2>2, <2>3, <2>12
    <3>2. u.start = e - overlap /\ u.start \in Nat /\ u.start < limit /\ u.start >= n + 1
      <4>1. e > overlap
        BY <2>2, <3>1
      <4>2. u.start = e - overlap
        BY <2>10, <4>1
      <4>3. e < limit
        BY <2>4, <2>12
      <4>4. PICK z \in Nat : z = e - overlap
        BY <4>1
      <4>5. z < limit /\ z >= n + 1
        BY <2>2, <3>1, <4>3, <4>4
      <4> QED
        BY <4>2, <4>4, <4>5
    <3>3. ~u.over /\ u.over \in BOOLEAN
      BY <2>10, <2>12
    <3>4. u.start = NextStart(u.chunks, overlap) /\ Chained(u.chunks, size, overlap)
      BY <2>7, <2>10, <3>2 DEF NextStart
    <3> QED
      BY <2>8, <2>10, <3>2, <3>3, <3>4 DEF TurnIs
  <2> QED
    BY <2>8, <2>11, <2>12
<1>3. t.over \in BOOLEAN
  BY DEF TurnIs
<1> QED
  BY <1>1, <1>2, <1>3

\* The chunks of a text that has an end.
LEMMA ChunksReach ==
    ASSUME NEW text \in Seq(1..4), text # <<>>, \A i \in DOMAIN text : text[i] = 1,
           NEW size \in Nat, NEW overlap \in Nat, ~(overlap >= size /\ size < Len(text))
    PROVE  LET c == FixedChunks(text, size, overlap)
           IN  Chained(c, size, overlap) /\ c # <<>> /\ c[Len(c)][2] = Len(text)
<1>1. PICK limit \in Nat \ {0} : limit = Len(text)
  OBVIOUS
<1>2. Total(text) = limit /\ 0..limit \subseteq Boundaries(text)
  BY <1>1, NarrowTexts
<1>3. PICK bounds : bounds = Boundaries(text)
  OBVIOUS
<1>4. size \in Nat \ {0} /\ ~(overlap >= size /\ size < limit)
  BY <1>1
<1>5. PICK turn : IsTurning(turn, size, overlap, limit, bounds) /\ FixedChunks(text, size, overlap) = turn[limit].chunks
  <2>1. Total(text) \in Nat
    BY <1>2
  <2>2. PICK turn : /\ IsTurning(turn, size, overlap, Total(text), Boundaries(text))
                    /\ FixedChunks(text, size, overlap) = turn[Total(text)].chunks
    BY <2>1, ChunksAre
  <2> QED
    BY <1>2, <1>3, <2>2
<1>6. turn[0] = FirstTurn /\ \A n \in 1..limit : turn[n] = Turned(turn[n - 1], size, overlap, limit, bounds)
  BY <1>5 DEF IsTurning
<1> DEFINE T == {n \in Nat : n <= limit => TurnIs(turn[n], n, size, overlap, limit)}
<1>7. 0 \in T
  <2>1. PICK t : t = FirstTurn
    OBVIOUS
  <2>2. t = [start |-> 0, over |-> FALSE, chunks |-> <<>>]
    BY <2>1 DEF FirstTurn
  <2>3. t.start = 0 /\ t.over = FALSE /\ t.chunks = <<>>
    BY <2>2
  <2>4. Chained(<<>>, size, overlap)
    BY DEF Chained
  <2>5. TurnIs(t, 0, size, overlap, limit)
    BY <2>2, <2>3, <2>4 DEF TurnIs, NextStart
  <2> QED
    BY <1>6, <2>1, <2>5
<1>8. ASSUME NEW n \in Nat, n \in T PROVE n + 1 \in T
  <2> SUFFICES ASSUME n + 1 <= limit PROVE TurnIs(turn[n + 1], n + 1, size, overlap, limit)
    OBVIOUS
  <2>1. n + 1 \in 1..limit /\ (n + 1) - 1 = n /\ n <= limit
    OBVIOUS
  <2>2. TurnIs(turn[n], n, size, overlap, limit)
    BY <1>8, <2>1
  <2>3. turn[n + 1] = Turned(turn[n], size, overlap, limit, bounds)
    BY <1>6, <2>1
  <2>4. PICK t : t = turn[n]
    OBVIOUS
  <2>5. TurnIs(Turned(t, size, overlap, limit, bounds), n + 1, size, overlap, limit)
    BY <1>2, <1>3, <1>4, <2>2, <2>4, TurnLeads
  <2> QED
    BY <2>3, <2>4, <2>5
<1>9. TurnIs(turn[limit], limit, size, overlap, limit)
  <2>1. limit \in T
    <3> HIDE DEF T
    <3> QED
      BY <1>7, <1>8, Numbers!NumberInduction
  <2> QED
    BY <2>1
<1>10. turn[limit].over
  BY <1>9 DEF TurnIs
<1> QED
  BY <1>1, <1>5, <1>9, <1>10 DEF TurnIs

\* The chunks of a splitter cover the text, with the overlap that was asked for.
LEMMA ChunksHere == RunInv /\ Sent => ChunksCover
<1> SUFFICES ASSUME RunInv, Sent, task.node = "text-splitter", SentOn("chunks"), task.cfg.action = "fixed",
                    \A i \in DOMAIN task.payload : task.payload[i] = 1
             PROVE  LET c == Only
                    IN  /\ c[1][1] = 0 /\ c[Len(c)][2] = Len(task.payload)
                        /\ \A i \in DOMAIN c : c[i][2] - c[i][1] \in 1..task.cfg.size
                        /\ \A i \in 1..Len(c) - 1 : c[i + 1][1] = c[i][2] - task.cfg.overlap
  BY DEF ChunksCover
<1>1. PICK t \in Task : t = task
  BY SentIs
<1>2. PICK cfg, text, size, overlap : cfg = task.cfg /\ text = task.payload /\ size = cfg.size /\ overlap = cfg.overlap
  OBVIOUS
<1>3. size \in Nat /\ overlap \in Nat /\ text \in Seq(1..4)
  BY <1>1, <1>2, TaskAssumption
<1>4. Process(task) = TextSplitterNode(cfg, text)
  BY <1>2 DEF Process
<1>5. result.out = TextSplitterNode(cfg, text).out /\ TextSplitterNode(cfg, text).end = "ok"
  BY <1>4, SentIs
<1>6. text # <<>>
  <2> SUFFICES ASSUME text = <<>> PROVE FALSE
    OBVIOUS
  <2>1. PICK e : e = Emit("error", <<>>)
    OBVIOUS
  <2>2. TextSplitterNode(cfg, text) = Out(e)
    BY <2>1 DEF TextSplitterNode
  <2>3. e \in Seq(ToSet(e)) /\ Len(e) = 1 /\ e[1] = [port |-> "error", payload |-> <<>>]
    BY <2>1, EmitIs
  <2>4. result.out = e
    BY <1>5, <2>2, <2>3, OutIs
  <2>5. \E i \in DOMAIN e : e[i].port = "chunks"
    BY <2>3, <2>4, PayloadsAre, PortIsUsed DEF SentOn
  <2>6. e[1].port = "error" /\ DOMAIN e = 1..1
    BY <2>3
  <2> QED
    BY <2>5, <2>6
<1>7. Total(text) = Len(text) /\ Len(text) \in Nat
  BY <1>2, <1>3, NarrowTexts
<1>8. PICK c : c = FixedChunks(text, size, overlap)
  OBVIOUS
<1>9. TextSplitterNode(cfg, text) = IF overlap >= size /\ size < Len(text) THEN Spins ELSE Out(Emit("chunks", c))
  <2>1. 1 * cfg.size = size /\ 1 * cfg.overlap = overlap
    BY <1>2, <1>3
  <2>2. TextSplitterNode(cfg, text) =
            IF 1 * cfg.overlap >= 1 * cfg.size /\ 1 * cfg.size < Total(text) THEN Spins
            ELSE Out(Emit("chunks", FixedChunks(text, 1 * cfg.size, 1 * cfg.overlap)))
    BY <1>2, <1>6 DEF TextSplitterNode
  <2> QED
    BY <1>7, <1>8, <2>1, <2>2
<1>10. ~(overlap >= size /\ size < Len(text))
  BY <1>5, <1>9, NoMessage
<1>11. result.out = Emit("chunks", c)
  <2>1. PICK e : e = Emit("chunks", c)
    OBVIOUS
  <2>2. Out(e).out = e
    BY <2>1, EmitIs, OutIs
  <2> QED
    BY <1>5, <1>9, <1>10, <2>1, <2>2
<1>12. Only = c
  BY <1>11, FirstOfEmit DEF Only
<1>13. Chained(c, size, overlap) /\ c # <<>> /\ c[Len(c)][2] = Len(text)
  BY <1>2, <1>3, <1>6, <1>8, <1>10, ChunksReach
<1>14. DOMAIN c = 1..Len(c)
  <2>1. PICK D : D = Nat \X Nat
    OBVIOUS
  <2>2. c \in Seq(D)
    BY <1>13, <2>1 DEF Chained
  <2> QED
    BY <2>2
<1>15. /\ c[1][1] = 0 /\ c[Len(c)][2] = Len(text)
       /\ \A i \in DOMAIN c : c[i][2] - c[i][1] \in 1..size
       /\ \A i \in 1..Len(c) - 1 : c[i + 1][1] = c[i][2] - overlap
  BY <1>13, <1>14 DEF Chained
<1> QED
  BY <1>2, <1>12, <1>15

----------------------------------------------------------------------------
(* Prompts.                                                                 *)

\* What is not empty is a list with one element at its end.
LEMMA LastOf ==
    ASSUME NEW D, NEW n \in Nat, NEW q \in Seq(D), Len(q) = n + 1
    PROVE  \E p \in Seq(D), x \in D : q = Append(p, x) /\ Len(p) = n
<1>1. \A i \in 1..n + 1 : q[i] \in D
  OBVIOUS
<1>2. \A i \in 1..n : q[i] \in D
  BY <1>1
<1>3. PICK p : p = SubSeq(q, 1, n)
  OBVIOUS
<1>4. p \in Seq(D) /\ Len(p) = n /\ \A i \in 1..n : p[i] = q[i]
  BY <1>2, <1>3, SubSeqProperties
<1>5. PICK x \in D : x = q[n + 1]
  <2>1. n + 1 \in 1..n + 1
    OBVIOUS
  <2> QED
    BY <1>1, <2>1
<1>6. PICK a \in Seq(D) : a = Append(p, x)
  BY <1>4, AppendProperties
<1>7. Len(a) = n + 1 /\ a[n + 1] = x /\ \A i \in 1..n : a[i] = p[i]
  BY <1>4, <1>6, AppendProperties
<1>8. \A i \in 1..n + 1 : q[i] = a[i]
  <2>1. \A i \in 1..n + 1 : i \in 1..n \/ i = n + 1
    OBVIOUS
  <2> QED
    BY <1>4, <1>5, <1>7, <2>1
<1>9. q = a
  BY <1>7, <1>8
<1> QED
  BY <1>4, <1>6, <1>9

\* What f makes of each element of q, joined.
Fills(f, D) == f \in [D -> Seq(D)]
MapJoin(f, q) == FlattenSeq([i \in DOMAIN q |-> f[q[i]]])

\* Nothing joins to nothing.
LEMMA JoinNone == ASSUME NEW f PROVE MapJoin(f, <<>>) = <<>>
<1>1. PICK q : q = <<>>
  OBVIOUS
<1>2. [i \in DOMAIN q |-> f[q[i]]] = <<>>
  BY <1>1
<1> QED
  BY <1>1, <1>2, FlattenNone DEF MapJoin

\* One element more is one part more,
LEMMA JoinAppend ==
    ASSUME NEW D, NEW f, Fills(f, D), NEW q \in Seq(D), NEW x \in D
    PROVE  MapJoin(f, q) \in Seq(D) /\ MapJoin(f, Append(q, x)) = MapJoin(f, q) \o f[x]
<1> DEFINE A == Seq(D)
<1>1. PICK n \in Nat : n = Len(q)
  OBVIOUS
<1>2. \A i \in 1..n : q[i] \in D
  BY <1>1
<1>3. PICK a \in Seq(D) : a = Append(q, x)
  BY AppendProperties
<1>4. Len(a) = n + 1 /\ a[n + 1] = x /\ \A i \in 1..n : a[i] = q[i]
  BY <1>1, <1>3, AppendProperties
<1>5. PICK ss : ss = [i \in 1..n |-> f[q[i]]]
  OBVIOUS
<1>6. PICK y : y = f[x]
  OBVIOUS
<1>7. PICK tt : tt = [i \in 1..n + 1 |-> f[a[i]]]
  OBVIOUS
<1>8. f \in [D -> A]
  BY DEF Fills
<1>9. DOMAIN q = 1..n /\ DOMAIN a = 1..n + 1
  BY <1>1, <1>3, <1>4
<1> HIDE DEF A
<1>10. ss \in Seq(A) /\ Len(ss) = n /\ y \in A
  <2>1. ss \in [1..n -> A]
    BY <1>2, <1>5, <1>8
  <2> QED
    BY <1>6, <1>8, <2>1
<1>11. PICK b \in Seq(A) : b = Append(ss, y)
  BY <1>10, AppendProperties
<1>12. Len(b) = n + 1 /\ b[n + 1] = y /\ \A i \in 1..n : b[i] = ss[i]
  BY <1>10, <1>11, AppendProperties
<1>13. \A i \in 1..n + 1 : tt[i] = b[i]
  <2>1. \A i \in 1..n + 1 : i \in 1..n \/ i = n + 1
    OBVIOUS
  <2> QED
    BY <1>4, <1>5, <1>6, <1>7, <1>12, <2>1
<1>14. tt = b
  <2>1. DOMAIN b = 1..n + 1 /\ b = [i \in 1..n + 1 |-> b[i]]
    <3>1. DOMAIN b = 1..Len(b)
      OBVIOUS
    <3>2. b = [i \in DOMAIN b |-> b[i]]
      OBVIOUS
    <3> QED
      BY <1>12, <3>1, <3>2
  <2> QED
    BY <1>7, <1>13, <2>1
<1>15. MapJoin(f, q) = FlattenSeq(ss) /\ MapJoin(f, a) = FlattenSeq(b)
  BY <1>5, <1>7, <1>9, <1>14 DEF MapJoin
<1>16. FlattenSeq(ss) \in Seq(D) /\ FlattenSeq(Append(ss, y)) = FlattenSeq(ss) \o y
  BY <1>10, FlattenAppend DEF A
<1>17. FlattenSeq(b) = FlattenSeq(ss) \o y
  BY <1>11, <1>16
<1> QED
  BY <1>3, <1>6, <1>15, <1>16, <1>17

\* Lists, and what is done with them, said so that a step has few facts to weigh.
IsList(q, D) == q \in Seq(D)

\* A sequence that is not empty has a last element, and those before it.
LEMMA ListEnds ==
    ASSUME NEW D, NEW n \in Nat, NEW q, IsList(q, D), Len(q) = n + 1
    PROVE  \E p, x : IsList(p, D) /\ x \in D /\ q = Append(p, x) /\ Len(p) = n
  BY LastOf DEF IsList

\* A sequence of no length is empty, and adds nothing to another one.
LEMMA ListEmpty ==
    ASSUME NEW D, NEW q, IsList(q, D)
    PROVE  (Len(q) = 0 => q = <<>>) /\ q \o <<>> = q /\ Len(q) \in Nat
  BY ConcatEmptySeq DEF IsList

\* Two ways to put three sequences together.
Regroups(u, v, w) == (u \o v) \o w = u \o (v \o w)

\* It is all one in which order sequences are put together.
LEMMA Regroup ==
    ASSUME NEW D, NEW u, NEW v, NEW w, IsList(u, D), IsList(v, D), IsList(w, D)
    PROVE  Regroups(u, v, w)
  BY ConcatAssociative DEF IsList, Regroups

\* The last element of what is put behind another sequence comes last.
LEMMA AppendLast ==
    ASSUME NEW D, NEW a, NEW p, NEW x, IsList(a, D), IsList(p, D), x \in D
    PROVE  a \o Append(p, x) = Append(a \o p, x) /\ IsList(a \o p, D)
<1>1. PICK s \in Seq(D) : s = <<x>>
  <2>1. <<x>> \in Seq(D)
    OBVIOUS
  <2> QED
    BY <2>1
<1>2. IsList(s, D)
  BY DEF IsList
<1>3. (a \o p) \o s = a \o (p \o s)
  BY <1>2, Regroup DEF Regroups
<1>4. a \o p \in Seq(D)
  BY ConcatProperties DEF IsList
<1>5. PICK c \in Seq(D) : c = a \o p
  BY <1>4
<1>6. Append(p, x) = p \o s
  BY <1>1, AppendIsConcat DEF IsList
<1>7. Append(c, x) = c \o s
  BY <1>1, AppendIsConcat
<1> QED
  BY <1>3, <1>4, <1>5, <1>6, <1>7 DEF IsList

\* One more element adds what stands for it.
LEMMA JoinOne ==
    ASSUME NEW D, NEW f, Fills(f, D), NEW q, IsList(q, D), NEW x \in D
    PROVE  /\ IsList(MapJoin(f, q), D) /\ IsList(f[x], D)
           /\ MapJoin(f, Append(q, x)) = MapJoin(f, q) \o f[x]
<1>1. f[x] \in Seq(D)
  BY DEF Fills
<1>2. MapJoin(f, q) \in Seq(D) /\ MapJoin(f, Append(q, x)) = MapJoin(f, q) \o f[x]
  BY JoinAppend DEF IsList
<1> QED
  BY <1>1, <1>2 DEF IsList

\* What sequences join to is a sequence of the same.
LEMMA JoinTyped ==
    ASSUME NEW D, NEW f, Fills(f, D), NEW q, IsList(q, D)
    PROVE  IsList(MapJoin(f, q), D)
<1>1. CASE D = {}
  <2>1. q = <<>>
    BY <1>1 DEF IsList
  <2>2. MapJoin(f, q) = <<>>
    BY <2>1, JoinNone
  <2>3. <<>> \in Seq(D)
    OBVIOUS
  <2> QED
    BY <2>2, <2>3 DEF IsList
<1>2. CASE D # {}
  <2>1. PICK x \in D : TRUE
    BY <1>2
  <2> QED
    BY <2>1, JoinOne
<1> QED
  BY <1>1, <1>2

\* A list of parts is joined part by part,
LEMMA JoinConcat ==
    ASSUME NEW D, NEW f, Fills(f, D), NEW a, NEW b, IsList(a, D), IsList(b, D)
    PROVE  MapJoin(f, a \o b) = MapJoin(f, a) \o MapJoin(f, b)
<1> DEFINE Joins(c) == MapJoin(f, a \o c) = MapJoin(f, a) \o MapJoin(f, c)
           T == {n \in Nat : \A c : IsList(c, D) /\ Len(c) = n => Joins(c)}
<1>1. 0 \in T
  <2> SUFFICES ASSUME NEW c, IsList(c, D), Len(c) = 0 PROVE MapJoin(f, a \o c) = MapJoin(f, a) \o MapJoin(f, c)
    OBVIOUS
  <2>1. c = <<>>
    BY ListEmpty
  <2>2. PICK z : z = MapJoin(f, a)
    OBVIOUS
  <2>3. a \o <<>> = a /\ z \o <<>> = z
    BY <2>2, ListEmpty, JoinTyped
  <2>4. MapJoin(f, <<>>) = <<>>
    BY JoinNone
  <2> QED
    BY <2>1, <2>2, <2>3, <2>4
<1>2. ASSUME NEW n \in Nat, n \in T PROVE n + 1 \in T
  <2> SUFFICES ASSUME NEW c, IsList(c, D), Len(c) = n + 1 PROVE MapJoin(f, a \o c) = MapJoin(f, a) \o MapJoin(f, c)
    OBVIOUS
  <2>1. PICK p, x : IsList(p, D) /\ x \in D /\ c = Append(p, x) /\ Len(p) = n
    BY ListEnds
  <2>2. MapJoin(f, a \o p) = MapJoin(f, a) \o MapJoin(f, p)
    BY <1>2, <2>1
  <2>3. PICK ap : ap = a \o p
    OBVIOUS
  <2>4. a \o c = Append(ap, x) /\ IsList(ap, D)
    BY <2>1, <2>3, AppendLast
  <2>5. MapJoin(f, Append(ap, x)) = MapJoin(f, ap) \o f[x]
    BY <2>1, <2>4, JoinOne
  <2>6. MapJoin(f, Append(p, x)) = MapJoin(f, p) \o f[x] /\ IsList(f[x], D)
    BY <2>1, JoinOne
  <2>7. IsList(MapJoin(f, a), D) /\ IsList(MapJoin(f, p), D)
    BY <2>1, JoinTyped
  <2>8. (MapJoin(f, a) \o MapJoin(f, p)) \o f[x] = MapJoin(f, a) \o (MapJoin(f, p) \o f[x])
    <3>1. PICK u : u = MapJoin(f, a)
      OBVIOUS
    <3>2. PICK v : v = MapJoin(f, p)
      OBVIOUS
    <3>3. PICK w : w = f[x]
      OBVIOUS
    <3>4. IsList(u, D)
      BY <2>7, <3>1
    <3>5. IsList(v, D)
      BY <2>7, <3>2
    <3>6. IsList(w, D)
      BY <2>6, <3>3
    <3>7. Regroups(u, v, w)
      BY <3>4, <3>5, <3>6, Regroup
    <3> QED
      BY <3>1, <3>2, <3>3, <3>7 DEF Regroups
  <2> QED
    BY <2>1, <2>2, <2>3, <2>4, <2>5, <2>6, <2>8
<1>3. \A n \in Nat : n \in T
  <2> HIDE DEF T
  <2> QED
    BY <1>1, <1>2, Numbers!NumberInduction
<1>4. Len(b) \in Nat
  BY ListEmpty
<1> QED
  BY <1>3, <1>4

\* what f leaves alone stays as it is,
LEMMA JoinSame ==
    ASSUME NEW D, NEW f, Fills(f, D), NEW q, IsList(q, D), \A i \in 1..Len(q) : f[q[i]] = <<q[i]>>
    PROVE  MapJoin(f, q) = q
<1> DEFINE Kept(c) == \A i \in 1..Len(c) : f[c[i]] = <<c[i]>>
           T == {n \in Nat : \A c : IsList(c, D) /\ Len(c) = n /\ Kept(c) => MapJoin(f, c) = c}
<1>1. 0 \in T
  <2> SUFFICES ASSUME NEW c, IsList(c, D), Len(c) = 0 PROVE MapJoin(f, c) = c
    OBVIOUS
  <2>1. c = <<>>
    BY ListEmpty
  <2> QED
    BY <2>1, JoinNone
<1>2. ASSUME NEW n \in Nat, n \in T PROVE n + 1 \in T
  <2> SUFFICES ASSUME NEW c, IsList(c, D), Len(c) = n + 1, Kept(c) PROVE MapJoin(f, c) = c
    OBVIOUS
  <2>1. PICK p, x : IsList(p, D) /\ x \in D /\ c = Append(p, x) /\ Len(p) = n
    BY ListEnds
  <2>2. c[n + 1] = x /\ \A i \in 1..n : c[i] = p[i]
    BY <2>1, AppendProperties DEF IsList
  <2>3. f[x] = <<x>>
    <3>1. n + 1 \in 1..Len(c)
      OBVIOUS
    <3> QED
      BY <2>2, <3>1
  <2>4. Kept(p)
    <3>1. \A i \in 1..n : i \in 1..Len(c)
      OBVIOUS
    <3> QED
      BY <2>1, <2>2, <3>1
  <2>5. MapJoin(f, p) = p
    <3> HIDE DEF Kept
    <3> QED
      BY <1>2, <2>1, <2>4
  <2>6. MapJoin(f, Append(p, x)) = MapJoin(f, p) \o f[x]
    <3>1. IsList(p, D) /\ x \in D
      BY <2>1
    <3> HIDE DEF T, Kept
    <3> QED
      BY <3>1, JoinOne
  <2>7. Append(p, x) = p \o <<x>>
    BY <2>1, AppendIsConcat DEF IsList
  <2> QED
    BY <2>1, <2>3, <2>5, <2>6, <2>7
<1>3. \A n \in Nat : n \in T
  <2> HIDE DEF T
  <2> QED
    BY <1>1, <1>2, Numbers!NumberInduction
<1>4. Len(q) \in Nat
  BY ListEmpty
<1> QED
  BY <1>3, <1>4

\* h is f and then g, for single elements,
FollowsOn(h, f, g, D) == \A x \in D : MapJoin(g, f[x]) = h[x]

\* and then one after the other is both at once.
LEMMA JoinTwice ==
    ASSUME NEW D, NEW f, NEW g, NEW h, Fills(f, D), Fills(g, D), Fills(h, D), NEW q, IsList(q, D),
           FollowsOn(h, f, g, D)
    PROVE  MapJoin(g, MapJoin(f, q)) = MapJoin(h, q)
<1> DEFINE T == {n \in Nat : \A c : IsList(c, D) /\ Len(c) = n => MapJoin(g, MapJoin(f, c)) = MapJoin(h, c)}
<1>1. 0 \in T
  <2> SUFFICES ASSUME NEW c, IsList(c, D), Len(c) = 0 PROVE MapJoin(g, MapJoin(f, c)) = MapJoin(h, c)
    OBVIOUS
  <2>1. c = <<>>
    BY ListEmpty
  <2> QED
    BY <2>1, JoinNone
<1>2. ASSUME NEW n \in Nat, n \in T PROVE n + 1 \in T
  <2> SUFFICES ASSUME NEW c, IsList(c, D), Len(c) = n + 1 PROVE MapJoin(g, MapJoin(f, c)) = MapJoin(h, c)
    OBVIOUS
  <2>1. PICK p, x : IsList(p, D) /\ x \in D /\ c = Append(p, x) /\ Len(p) = n
    <3> HIDE DEF T
    <3> QED
      BY ListEnds
  <2>2. MapJoin(g, MapJoin(f, p)) = MapJoin(h, p)
    <3>1. \A e : IsList(e, D) /\ Len(e) = n => MapJoin(g, MapJoin(f, e)) = MapJoin(h, e)
      BY <1>2
    <3> HIDE DEF T
    <3> QED
      BY <2>1, <3>1, Zenon
  <2>3. PICK u, v : u = MapJoin(f, p) /\ v = f[x]
    OBVIOUS
  <2>4. MapJoin(f, Append(p, x)) = MapJoin(f, p) \o f[x] /\ IsList(u, D) /\ IsList(v, D)
    <3>1. IsList(p, D) /\ x \in D /\ Fills(f, D)
      BY <2>1
    <3>2. /\ IsList(MapJoin(f, p), D) /\ IsList(f[x], D)
          /\ MapJoin(f, Append(p, x)) = MapJoin(f, p) \o f[x]
      <4> HIDE DEF T
      <4> QED
        BY <3>1, JoinOne
    <3> HIDE DEF T
    <3> QED
      BY <2>3, <3>2
  <2>5. MapJoin(g, u \o v) = MapJoin(g, u) \o MapJoin(g, v)
    BY <2>4, JoinConcat
  <2>6. MapJoin(g, v) = h[x]
    BY <2>1, <2>3 DEF FollowsOn
  <2>7. MapJoin(h, Append(p, x)) = MapJoin(h, p) \o h[x]
    BY <2>1, JoinOne
  <2> QED
    BY <2>1, <2>2, <2>3, <2>4, <2>5, <2>6, <2>7
<1>3. \A n \in Nat : n \in T
  <2> HIDE DEF T
  <2> QED
    BY <1>1, <1>2, Numbers!NumberInduction
<1>4. Len(q) \in Nat
  BY ListEmpty
<1> QED
  BY <1>3, <1>4

\* {{name}} as a token; what one variable's filling in makes of a token, and
\* what that of all variables in K does.
VarOf(name) == <<"var", name>>
FillBy(D, name, value) == [x \in D |-> IF x = VarOf(name) THEN value ELSE <<x>>]
FillAll(D, data, K) == [x \in D |-> IF \E k \in K : x = VarOf(k) THEN data[x[2]] ELSE <<x>>]

\* No two names make the same token.
LEMMA VarIs ==
    ASSUME NEW name
    PROVE  VarOf(name)[2] = name /\ \A k : VarOf(name) = VarOf(k) => k = name
  BY DEF VarOf

\* Filling in is what it is, part by part.
LEMMA FillIs ==
    ASSUME NEW D, NEW name, NEW value, IsList(value, D)
    PROVE  /\ Fills(FillBy(D, name, value), D)
           /\ \A text : IsList(text, D) => Filled(text, name, value) = MapJoin(FillBy(D, name, value), text)
<1>1. PICK g : g = FillBy(D, name, value)
  OBVIOUS
<1>2. \A x \in D : g[x] = IF x = VarOf(name) THEN value ELSE <<x>>
  BY <1>1 DEF FillBy
<1>3. DOMAIN g = D /\ g = [x \in D |-> g[x]]
  BY <1>1 DEF FillBy
<1>4. Fills(g, D)
  <2>1. \A x \in D : g[x] \in Seq(D)
    <3> SUFFICES ASSUME NEW x \in D PROVE g[x] \in Seq(D)
      OBVIOUS
    <3>1. CASE x = VarOf(name)
      BY <1>2, <3>1 DEF IsList
    <3>2. CASE x # VarOf(name)
      <4>1. <<x>> \in Seq(D)
        OBVIOUS
      <4> QED
        BY <1>2, <3>2, <4>1
    <3> QED
      BY <3>1, <3>2
  <2>2. g \in [D -> Seq(D)]
    BY <1>3, <2>1
  <2> QED
    BY <2>2 DEF Fills
<1>5. ASSUME NEW text, IsList(text, D) PROVE Filled(text, name, value) = MapJoin(g, text)
  <2>1. \A i \in DOMAIN text : text[i] \in D
    BY <1>5 DEF IsList
  <2>2. [i \in DOMAIN text |-> IF text[i] = VarOf(name) THEN value ELSE <<text[i]>>] = [i \in DOMAIN text |-> g[text[i]]]
    BY <1>2, <2>1
  <2>3. Filled(text, name, value) = FlattenSeq([i \in DOMAIN text |-> IF text[i] = VarOf(name) THEN value ELSE <<text[i]>>])
    BY DEF Filled, VarOf
  <2> QED
    BY <2>2, <2>3 DEF MapJoin
<1> QED
  BY <1>1, <1>4, <1>5

\* A list of one element is made what its element is made.
LEMMA JoinSingle ==
    ASSUME NEW D, NEW f, Fills(f, D), NEW x \in D
    PROVE  MapJoin(f, <<x>>) = f[x] /\ IsList(<<x>>, D)
<1>1. PICK e : e = <<>>
  OBVIOUS
<1>2. e \in Seq(D)
  BY <1>1
<1>3. IsList(e, D)
  BY <1>2 DEF IsList
<1>4. MapJoin(f, Append(e, x)) = MapJoin(f, e) \o f[x] /\ IsList(f[x], D)
  BY <1>3, JoinOne
<1>5. MapJoin(f, e) = <<>>
  BY <1>1, JoinNone
<1>6. <<>> \o f[x] = f[x]
  BY <1>4, ConcatEmptySeq DEF IsList
<1>7. Append(e, x) = <<x>>
  BY <1>1
<1>8. <<x>> \in Seq(D)
  OBVIOUS
<1> QED
  BY <1>4, <1>5, <1>6, <1>7, <1>8 DEF IsList

\* Values to fill in, and such that hold no variable.
AreValues(data, D) == \A k \in DOMAIN data : IsList(data[k], D)
HoldNoVar(data, D) ==
    \A k \in DOMAIN data : IsList(data[k], D) /\ \A i \in 1..Len(data[k]) : \A j : data[k][i] # VarOf(j)

\* What all variables in K make of a token is a list of tokens.
LEMMA FillAllIs ==
    ASSUME NEW D, NEW data, AreValues(data, D), NEW K \in SUBSET DOMAIN data
    PROVE  /\ Fills(FillAll(D, data, K), D)
           /\ \A x \in D : (\A k \in K : x # VarOf(k)) => FillAll(D, data, K)[x] = <<x>>
           /\ \A k \in K : VarOf(k) \in D => FillAll(D, data, K)[VarOf(k)] = data[k]
<1>1. PICK g : g = FillAll(D, data, K)
  OBVIOUS
<1>2. \A x \in D : g[x] = IF \E k \in K : x = VarOf(k) THEN data[x[2]] ELSE <<x>>
  BY <1>1 DEF FillAll
<1>3. DOMAIN g = D /\ g = [x \in D |-> g[x]]
  BY <1>1 DEF FillAll
<1>4. \A k \in K : VarOf(k) \in D => g[VarOf(k)] = data[k]
  BY <1>2, VarIs
<1>5. \A x \in D : (\A k \in K : x # VarOf(k)) => g[x] = <<x>>
  BY <1>2
<1>6. Fills(g, D)
  <2>1. \A x \in D : g[x] \in Seq(D)
    <3> SUFFICES ASSUME NEW x \in D PROVE g[x] \in Seq(D)
      OBVIOUS
    <3>1. CASE \E k \in K : x = VarOf(k)
      BY <1>4, <3>1 DEF IsList, AreValues
    <3>2. CASE \A k \in K : x # VarOf(k)
      <4>1. <<x>> \in Seq(D)
        OBVIOUS
      <4> QED
        BY <1>5, <3>2, <4>1
    <3> QED
      BY <3>1, <3>2
  <2>2. g \in [D -> Seq(D)]
    BY <1>3, <2>1
  <2> QED
    BY <2>2 DEF Fills
<1> QED
  BY <1>1, <1>4, <1>5, <1>6

\* One variable after those in K is K with one more.
LEMMA FillOneMore ==
    ASSUME NEW D, NEW data, HoldNoVar(data, D), NEW K \in SUBSET DOMAIN data, NEW k \in DOMAIN data, NEW x \in D
    PROVE  MapJoin(FillBy(D, k, data[k]), FillAll(D, data, K)[x]) = FillAll(D, data, K \cup {k})[x]
<1>1. IsList(data[k], D) /\ AreValues(data, D)
  BY DEF HoldNoVar, AreValues
<1>2. PICK L \in SUBSET DOMAIN data : L = K \cup {k}
  OBVIOUS
<1>3. PICK g : g = FillBy(D, k, data[k])
  OBVIOUS
<1>4. Fills(g, D)
  BY <1>1, <1>3, FillIs
<1>5. \A y \in D : g[y] = IF y = VarOf(k) THEN data[k] ELSE <<y>>
  BY <1>3 DEF FillBy
<1>6. CASE \E j \in K : x = VarOf(j)
  <2>1. PICK j \in K : x = VarOf(j)
    BY <1>6
  <2>2. FillAll(D, data, K)[x] = data[j] /\ FillAll(D, data, L)[x] = data[j]
    BY <1>1, <1>2, <2>1, FillAllIs
  <2>3. PICK v : v = data[j]
    OBVIOUS
  <2>4. IsList(v, D) /\ \A i \in 1..Len(v) : v[i] # VarOf(k)
    BY <2>1, <2>3 DEF HoldNoVar
  <2>5. \A i \in 1..Len(v) : v[i] \in D
    BY <2>4 DEF IsList
  <2>6. \A i \in 1..Len(v) : g[v[i]] = <<v[i]>>
    BY <1>5, <2>4, <2>5
  <2>7. MapJoin(g, v) = v
    BY <1>4, <2>4, <2>6, JoinSame
  <2> QED
    BY <1>2, <1>3, <2>2, <2>3, <2>7
<1>7. CASE \A j \in K : x # VarOf(j)
  <2>1. FillAll(D, data, K)[x] = <<x>>
    BY <1>1, <1>7, FillAllIs
  <2>2. MapJoin(g, <<x>>) = g[x]
    BY <1>4, JoinSingle
  <2>3. CASE x = VarOf(k)
    <3>1. FillAll(D, data, L)[x] = data[k]
      BY <1>1, <1>2, <2>3, FillAllIs
    <3> QED
      BY <1>2, <1>3, <1>5, <2>1, <2>2, <2>3, <3>1
  <2>4. CASE x # VarOf(k)
    <3>1. \A j \in L : x # VarOf(j)
      BY <1>2, <1>7, <2>4
    <3>2. FillAll(D, data, L)[x] = <<x>>
      BY <1>1, <1>2, <3>1, FillAllIs
    <3> QED
      BY <1>2, <1>3, <1>5, <2>1, <2>2, <2>4, <3>2
  <2> QED
    BY <2>3, <2>4
<1> QED
  BY <1>6, <1>7

\* The text after each of the variables.
IsRendering(text, template, data, o) ==
    /\ DOMAIN text = 0..Len(o) /\ text[0] = template
    /\ \A n \in 1..Len(o) : text[n] = Filled(text[n - 1], o[n], data[o[n]])

\* The variables are filled in one after the other.
LEMMA RenderIs ==
    ASSUME NEW template, NEW data, NEW S, NEW o \in Seq(S)
    PROVE  \E text : IsRendering(text, template, data, o)
                     /\ RenderTemplate(template, data, o) = text[Len(o)]
<1> DEFINE N == Len(o)
           base == template
           E(x, n) == Filled(x, o[n], data[o[n]])
           Step(g, k) == [n \in 0..k |-> IF n = 0 THEN base ELSE E(g[n - 1], n)]
           T == {k \in Nat : \E g : g = Step(g, k)}
<1>1. N \in Nat
  BY DEF N
<1>2. PICK f : f = CHOOSE g : g = Step(g, N)
  OBVIOUS
<1>3. RenderTemplate(template, data, o) = f[N]
  BY <1>2 DEF RenderTemplate, N, base, E, Step
<1> HIDE DEF N, base, E
<1>4. 0 \in T
  <2>1. PICK g : g = [n \in 0..0 |-> base]
    OBVIOUS
  <2>2. g = Step(g, 0)
    BY <2>1
  <2> QED
    BY <2>2
<1>5. ASSUME NEW k \in Nat, k \in T PROVE k + 1 \in T
  <2>1. PICK g : g = Step(g, k)
    BY <1>5
  <2>2. PICK h : h = [n \in 0..k + 1 |-> IF n = k + 1 THEN E(g[k], k + 1) ELSE g[n]]
    OBVIOUS
  <2>3. \A n \in 0..k : h[n] = g[n] /\ g[n] = IF n = 0 THEN base ELSE E(g[n - 1], n)
    BY <2>1, <2>2
  <2>4. h[k + 1] = E(h[k], k + 1)
    BY <2>2, <2>3
  <2>5. \A n \in 0..k + 1 : h[n] = IF n = 0 THEN base ELSE E(h[n - 1], n)
    <3> SUFFICES ASSUME NEW n \in 0..k + 1 PROVE h[n] = IF n = 0 THEN base ELSE E(h[n - 1], n)
      OBVIOUS
    <3>1. CASE n = k + 1
      BY <2>4, <3>1
    <3>2. CASE n # k + 1
      <4>1. n \in 0..k /\ (n # 0 => n - 1 \in 0..k)
        BY <3>2
      <4> QED
        BY <2>3, <4>1
    <3> QED
      BY <3>1, <3>2
  <2>6. h = Step(h, k + 1)
    <3>1. h = [n \in 0..k + 1 |-> h[n]]
      BY <2>2
    <3> QED
      BY <2>5, <3>1
  <2> QED
    BY <2>6
<1>6. \E g : g = Step(g, N)
  <2>1. N \in T
    <3> HIDE DEF T
    <3> QED
      BY <1>1, <1>4, <1>5, Numbers!NumberInduction
  <2> QED
    BY <2>1
<1>7. f = Step(f, N)
  <2> HIDE DEF Step
  <2> QED
    BY <1>2, <1>6
<1>8. DOMAIN f = 0..N /\ f[0] = base /\ \A n \in 1..N : f[n] = E(f[n - 1], n)
  BY <1>1, <1>7
<1> QED
  BY <1>3, <1>8 DEF N, base, E, IsRendering

\* What is rendered is a list of tokens,
LEMMA RenderTyped ==
    ASSUME NEW D, NEW data, AreValues(data, D), NEW template, IsList(template, D),
           NEW o \in Seq(DOMAIN data)
    PROVE  IsList(RenderTemplate(template, data, o), D)
<1>1. PICK text : IsRendering(text, template, data, o) /\ RenderTemplate(template, data, o) = text[Len(o)]
  BY RenderIs
<1>2. PICK N \in Nat : N = Len(o)
  OBVIOUS
<1>3. text[0] = template /\ \A n \in 1..N : text[n] = Filled(text[n - 1], o[n], data[o[n]])
  BY <1>1, <1>2 DEF IsRendering
<1> DEFINE T == {n \in Nat : n <= N => IsList(text[n], D)}
<1>4. 0 \in T
  BY <1>3
<1>5. ASSUME NEW n \in Nat, n \in T PROVE n + 1 \in T
  <2> SUFFICES ASSUME n + 1 <= N PROVE IsList(text[n + 1], D)
    OBVIOUS
  <2>1. n + 1 \in 1..N /\ n <= N /\ (n + 1) - 1 = n
    OBVIOUS
  <2>2. IsList(text[n], D)
    BY <1>5, <2>1
  <2>3. PICK k : k = o[n + 1]
    OBVIOUS
  <2>4. k \in DOMAIN data
    BY <1>2, <2>1, <2>3
  <2>5. text[n + 1] = Filled(text[n], k, data[k])
    BY <1>3, <2>1, <2>3
  <2>6. IsList(data[k], D)
    BY <2>4 DEF AreValues
  <2>7. Fills(FillBy(D, k, data[k]), D) /\ Filled(text[n], k, data[k]) = MapJoin(FillBy(D, k, data[k]), text[n])
    BY <2>2, <2>6, FillIs
  <2> QED
    BY <2>2, <2>5, <2>7, JoinTyped
<1>6. \A n \in Nat : n \in T
  <2> HIDE DEF T
  <2> QED
    BY <1>4, <1>5, Numbers!NumberInduction
<1> QED
  BY <1>1, <1>2, <1>6

\* and all the variables make of it what they make of it at once.
LEMMA RenderIsFillAll ==
    ASSUME NEW D, NEW data, HoldNoVar(data, D), NEW template, IsList(template, D),
           NEW o \in Seq(DOMAIN data)
    PROVE  RenderTemplate(template, data, o) = MapJoin(FillAll(D, data, {o[i] : i \in 1..Len(o)}), template)
<1>1. PICK text : IsRendering(text, template, data, o) /\ RenderTemplate(template, data, o) = text[Len(o)]
  BY RenderIs
<1>2. PICK N \in Nat : N = Len(o)
  OBVIOUS
<1>3. text[0] = template /\ \A n \in 1..N : text[n] = Filled(text[n - 1], o[n], data[o[n]])
  BY <1>1, <1>2 DEF IsRendering
<1>4. AreValues(data, D)
  BY DEF HoldNoVar, AreValues
<1> DEFINE K(n) == {o[i] : i \in 1..n}
           T == {n \in Nat : n <= N => text[n] = MapJoin(FillAll(D, data, K(n)), template)}
<1>5. \A n \in 0..N : K(n) \in SUBSET DOMAIN data
  BY <1>2
<1>6. 0 \in T
  <2>1. PICK L \in SUBSET DOMAIN data : L = {}
    OBVIOUS
  <2>2. K(0) = L
    BY <2>1
  <2>3. Fills(FillAll(D, data, L), D) /\ \A x \in D : FillAll(D, data, L)[x] = <<x>>
    BY <1>4, <2>1, FillAllIs
  <2>4. \A i \in 1..Len(template) : template[i] \in D
    BY DEF IsList
  <2>5. MapJoin(FillAll(D, data, L), template) = template
    <3>1. PICK f : f = FillAll(D, data, L)
      OBVIOUS
    <3>2. Fills(f, D) /\ \A i \in 1..Len(template) : f[template[i]] = <<template[i]>>
      BY <2>3, <2>4, <3>1
    <3>3. MapJoin(f, template) = template
      BY <3>2, JoinSame
    <3> QED
      BY <3>1, <3>3
  <2> QED
    BY <1>3, <2>2, <2>5
<1>7. ASSUME NEW n \in Nat, n \in T PROVE n + 1 \in T
  <2> SUFFICES ASSUME n + 1 <= N PROVE text[n + 1] = MapJoin(FillAll(D, data, K(n + 1)), template)
    OBVIOUS
  <2>1. n + 1 \in 1..N /\ n <= N /\ (n + 1) - 1 = n /\ n \in 0..N /\ n + 1 \in 0..N
    OBVIOUS
  <2>2. text[n] = MapJoin(FillAll(D, data, K(n)), template)
    BY <1>7, <2>1
  <2>3. PICK k : k = o[n + 1]
    OBVIOUS
  <2>4. k \in DOMAIN data
    BY <1>2, <2>1, <2>3
  <2>5. text[n + 1] = Filled(text[n], k, data[k])
    BY <1>3, <2>1, <2>3
  <2>6. PICK L \in SUBSET DOMAIN data : L = K(n)
    BY <1>5, <2>1
  <2>7. K(n + 1) = L \cup {k}
    <3>1. \A i \in 1..n + 1 : i \in 1..n \/ i = n + 1
      OBVIOUS
    <3> QED
      BY <2>1, <2>3, <2>6, <3>1
  <2>8. PICK M \in SUBSET DOMAIN data : M = L \cup {k}
    BY <2>4
  <2>9. PICK f : f = FillAll(D, data, L)
    OBVIOUS
  <2>10. PICK g : g = FillBy(D, k, data[k])
    OBVIOUS
  <2>11. PICK h : h = FillAll(D, data, M)
    OBVIOUS
  <2>12. IsList(data[k], D)
    BY <1>4, <2>4 DEF AreValues
  <2>13. Fills(f, D) /\ Fills(h, D)
    BY <1>4, <2>9, <2>11, FillAllIs
  <2>14. Fills(g, D) /\ \A t : IsList(t, D) => Filled(t, k, data[k]) = MapJoin(g, t)
    BY <2>10, <2>12, FillIs
  <2>15. FollowsOn(h, f, g, D)
    BY <2>4, <2>8, <2>9, <2>10, <2>11, FillOneMore DEF FollowsOn
  <2>16. text[n] = MapJoin(f, template) /\ IsList(MapJoin(f, template), D)
    BY <2>2, <2>6, <2>9, <2>13, JoinTyped
  <2>17. MapJoin(g, MapJoin(f, template)) = MapJoin(h, template)
    <3> HIDE DEF T, K
    <3> QED
      BY <2>13, <2>14, <2>15, JoinTwice
  <2>18. text[n + 1] = MapJoin(g, MapJoin(f, template))
    BY <2>5, <2>14, <2>16
  <2> QED
    BY <2>7, <2>8, <2>11, <2>17, <2>18
<1>8. \A n \in Nat : n \in T
  <2> HIDE DEF T
  <2> QED
    BY <1>6, <1>7, Numbers!NumberInduction
<1> QED
  BY <1>1, <1>2, <1>8

\* An order of the variables has every variable.
LEMMA OrdersAre ==
    ASSUME NEW data, IsFiniteSet(DOMAIN data), NEW o \in ExtractVariables(data)
    PROVE  o \in Seq(DOMAIN data) /\ {o[i] : i \in 1..Len(o)} = DOMAIN data
<1>1. PICK K : K = DOMAIN data
  OBVIOUS
<1>2. IsFiniteSet(K) /\ Cardinality(K) \in Nat
  BY <1>1, FS_CardinalityType
<1>3. PICK n \in Nat : n = Cardinality(K)
  BY <1>2
<1>4. o \in [1..n -> K] /\ \A i, j \in 1..n : i # j => o[i] # o[j]
  BY <1>1, <1>3 DEF ExtractVariables, SetToSeqs
<1>5. IsInjective(o)
  BY <1>4 DEF IsInjective
<1>6. o \in Injection(1..n, K)
  BY <1>4, <1>5 DEF Injection
<1>7. IsFiniteSet(1..n) /\ Cardinality(1..n) = n
  BY FS_Interval
<1>8. o \in Surjection(1..n, K)
  BY <1>2, <1>3, <1>6, <1>7, FS_Injection
<1>9. \A k \in K : \E i \in 1..n : o[i] = k
  BY <1>8 DEF Surjection
<1>10. o \in Seq(K) /\ Len(o) = n
  BY <1>4, SeqDef, LenProperties
<1>11. {o[i] : i \in 1..n} = K
  BY <1>4, <1>9
<1> QED
  BY <1>1, <1>10, <1>11

\* A prompt is the template with all its variables filled in, in whatever order.
LEMMA PromptIs ==
    ASSUME NEW cfg, NEW data, NEW o
    PROVE  LET rendered == RenderTemplate(cfg.template, data, o)
               unresolved == \E i \in DOMAIN rendered : rendered[i][1] = "var"
           IN  PromptTemplateNode(cfg, data, o)
                    = Out(Emit(IF unresolved /\ cfg.strict THEN "error" ELSE "output", rendered))
  BY DEF PromptTemplateNode

\* A strict prompt that is sent has no placeholder, and the order of its variables was of no account.
LEMMA PromptHere == RunInv => PromptIsFilled
<1> SUFFICES ASSUME RunInv, Sent, task.node = "prompt-template" PROVE PromptIsFilled
  BY DEF PromptIsFilled
<1>1. PICK cfg, data, template : cfg = task.cfg /\ data = task.payload /\ template = cfg.template
  OBVIOUS
<1>2. PICK D : D = {"word", "var"} \X STRING
  OBVIOUS
<1>3. template \in Seq(D) /\ data \in [DOMAIN data -> Seq(D)] /\ IsFiniteSet(DOMAIN data)
  <2>1. task \in Task
    BY SentIs
  <2> QED
    BY <1>1, <1>2, <2>1, TaskAssumption
<1>4. IsList(template, D) /\ AreValues(data, D)
  BY <1>3 DEF IsList, AreValues
<1>5. order \in ExtractVariables(data)
  BY <1>1 DEF RunInv
<1>6. order \in Seq(DOMAIN data)
  BY <1>3, <1>5, OrdersAre
<1>7. PICK rendered : rendered = RenderTemplate(template, data, order)
  OBVIOUS
<1>8. rendered \in Seq(D)
  BY <1>4, <1>6, <1>7, RenderTyped DEF IsList
<1>9. Process(task) = PromptTemplateNode(cfg, data, order)
  BY <1>1 DEF Process
<1>10. PICK port : port = IF (\E i \in DOMAIN rendered : rendered[i][1] = "var") /\ cfg.strict THEN "error" ELSE "output"
  OBVIOUS
<1>11. PICK e : e = Emit(port, rendered)
  OBVIOUS
<1>12. Process(task) = Out(e)
  BY <1>1, <1>7, <1>9, <1>10, <1>11, PromptIs
<1>13. e \in Seq(ToSet(e)) /\ Len(e) = 1 /\ e[1] = [port |-> port, payload |-> rendered]
  BY <1>11, EmitIs
<1>14. result.out = e
  BY <1>12, <1>13, OutIs, SentIs
<1>15. ASSUME cfg.strict, SentOn("output") PROVE \A i \in DOMAIN Only : Only[i][1] = "word"
  <2>1. \E i \in DOMAIN e : e[i].port = "output"
    BY <1>13, <1>14, <1>15, PayloadsAre, PortIsUsed DEF SentOn
  <2>2. e[1].port = port /\ DOMAIN e = 1..1
    BY <1>13
  <2>3. port = "output"
    BY <2>1, <2>2
  <2>4. \A i \in DOMAIN rendered : rendered[i][1] # "var"
    BY <1>10, <1>15, <2>3
  <2>5. Only = rendered
    BY <1>11, <1>14, FirstOfEmit DEF Only
  <2>6. \A i \in DOMAIN rendered : rendered[i] \in D
    BY <1>8
  <2>7. \A x \in D : x[1] = "word" \/ x[1] = "var"
    BY <1>2
  <2> QED
    BY <2>4, <2>5, <2>6, <2>7
<1>16. ASSUME \A k \in DOMAIN data : \A i \in DOMAIN data[k] : data[k][i][1] = "word", NEW o \in ExtractVariables(data)
       PROVE  PromptTemplateNode(cfg, data, o) = [result EXCEPT !.end = "ok"]
  <2>1. HoldNoVar(data, D)
    <3> SUFFICES ASSUME NEW k \in DOMAIN data, NEW i \in 1..Len(data[k]), NEW j PROVE data[k][i] # VarOf(j)
      BY <1>4 DEF HoldNoVar, AreValues
    <3>1. i \in DOMAIN data[k]
      BY <1>3
    <3>2. data[k][i][1] = "word"
      BY <1>16, <3>1
    <3>3. VarOf(j)[1] = "var"
      BY DEF VarOf
    <3> QED
      BY <3>2, <3>3
  <2>2. PICK K : K = DOMAIN data
    OBVIOUS
  <2>3. o \in Seq(DOMAIN data) /\ {o[i] : i \in 1..Len(o)} = K
    BY <1>3, <2>2, OrdersAre
  <2>4. {order[i] : i \in 1..Len(order)} = K
    BY <1>3, <1>5, <2>2, OrdersAre
  <2>5. RenderTemplate(template, data, o) = MapJoin(FillAll(D, data, K), template)
    BY <1>4, <2>1, <2>3, RenderIsFillAll
  <2>6. rendered = MapJoin(FillAll(D, data, K), template)
    BY <1>4, <1>6, <1>7, <2>1, <2>4, RenderIsFillAll
  <2>7. PromptTemplateNode(cfg, data, o) = Out(e)
    BY <1>1, <1>10, <1>11, <2>5, <2>6, PromptIs
  <2>8. [result EXCEPT !.end = "ok"] = Process(task)
    <3>1. result = [end |-> "sent", out |-> e]
      BY <1>12, <1>13, <1>14, OutIs DEF RunInv, Sent, Waiting
    <3>2. Process(task) = [end |-> "ok", out |-> e]
      BY <1>12 DEF Out
    <3>3. [[end |-> "sent", out |-> e] EXCEPT !.end = "ok"] = [end |-> "ok", out |-> e]
      OBVIOUS
    <3> QED
      BY <3>1, <3>2, <3>3
  <2> QED
    BY <1>12, <2>7, <2>8
<1> QED
  BY <1>1, <1>15, <1>16 DEF PromptIsFilled

----------------------------------------------------------------------------
(* CSV there and back.                                                      *)

\* A value whose field is read as it again.
Plain(v) ==
    \/ Is(v, "null") \/ Is(v, "bool") \/ Is(v, "number")
    \/ Is(v, "text") /\ v.text \notin DOMAIN Numerals \cup {"", "true", "false"}

\* A text holds what it was made of.
LEMMA TextIs == ASSUME NEW s PROVE Text(s).text = s
  BY DEF Text

\* A plain value comes back.
LEMMA FieldComesBack ==
    ASSUME NEW v \in Json, Plain(v)
    PROVE  ParseField(CsvField(v)) = v
<1>1. \A s \in DOMAIN Numerals : s # "" /\ s # "true" /\ s # "false"
  BY JsonAssumption
<1>2. v = [k \in DOMAIN v |-> v[k]]
  <2>1. PICK kind \in DOMAIN v : v = [k \in {kind} |-> v[kind]]
    BY JsonAssumption
  <2> QED
    BY <2>1
<1>3. CASE Is(v, "null")
  <2>1. v = Null
    BY <1>3, JsonAssumption
  <2>2. CsvField(v) = ""
    <3>1. ~Is(v, "text") /\ ~Is(v, "number") /\ ~Is(v, "bool")
      BY <1>3 DEF Is
    <3> QED
      BY <2>1, <3>1 DEF CsvField
  <2>3. ParseField("") = Null
    BY <1>1 DEF ParseField
  <2> QED
    BY <2>1, <2>2, <2>3
<1>4. ASSUME ~Is(v, "null") PROVE v # Null
  BY <1>4 DEF Null, Is
<1>5. ASSUME Is(v, "text") \/ Is(v, "number") \/ Is(v, "bool") PROVE v # Null /\ v # NoValue
  <2>1. DOMAIN v = {"text"} \/ DOMAIN v = {"number"} \/ DOMAIN v = {"bool"}
    BY <1>5 DEF Is
  <2>2. DOMAIN Null = {"null"} /\ DOMAIN NoValue = {"novalue"}
    BY DEF Null, NoValue
  <2>3. v = Null => {"null"} = {"text"} \/ {"null"} = {"number"} \/ {"null"} = {"bool"}
    BY <2>1, <2>2
  <2>4. v = NoValue => {"novalue"} = {"text"} \/ {"novalue"} = {"number"} \/ {"novalue"} = {"bool"}
    BY <2>1, <2>2
  <2>5. "null" # "text" /\ "null" # "number" /\ "null" # "bool"
    OBVIOUS
  <2>6. "novalue" # "text" /\ "novalue" # "number" /\ "novalue" # "bool"
    OBVIOUS
  <2> QED
    BY <2>3, <2>4, <2>5, <2>6
<1>6. ASSUME Is(v, "text") \/ Is(v, "number") \/ Is(v, "bool") PROVE CsvField(v) = Printed(v, "").text
  BY <1>5, <1>6 DEF CsvField
<1>7. CASE Is(v, "bool")
  <2>1. PICK b \in BOOLEAN : v = [bool |-> b]
    BY <1>2, <1>7, JsonAssumption DEF Is
  <2>2. Printed(v, "") = Text(IF b THEN "true" ELSE "false")
    <3>1. ~Is(v, "number")
      BY <1>7 DEF Is
    <3> QED
      BY <1>5, <1>7, <2>1, <3>1 DEF Printed
  <2>3. CsvField(v) = IF b THEN "true" ELSE "false"
    BY <1>6, <1>7, <2>2, TextIs
  <2>4. ParseField("true") = Bool(TRUE) /\ ParseField("false") = Bool(FALSE)
    BY <1>1 DEF ParseField
  <2> QED
    BY <2>1, <2>3, <2>4 DEF Bool
<1>8. CASE Is(v, "number")
  <2>1. PICK n : v = [number |-> n] /\ n \in Range(Numerals)
    BY <1>2, <1>8, JsonAssumption DEF Is
  <2>2. PICK s : s = Numeral(n)
    OBVIOUS
  <2>3. s \in DOMAIN Numerals /\ Numerals[s] = n
    BY <2>1, <2>2 DEF Numeral, Range
  <2>4. Printed(v, "") = Text(s)
    <3>1. ~Is(v, "bool")
      BY <1>8 DEF Is
    <3> QED
      BY <1>5, <1>8, <2>1, <2>2, <3>1 DEF Printed
  <2>5. CsvField(v) = s
    BY <1>6, <1>8, <2>4, TextIs
  <2>6. ParseField(s) = Number(n)
    BY <1>1, <2>3 DEF ParseField
  <2> QED
    BY <2>1, <2>5, <2>6 DEF Number
<1>9. CASE Is(v, "text") /\ v.text \notin DOMAIN Numerals \cup {"", "true", "false"}
  <2>1. PICK s : s = v.text
    OBVIOUS
  <2>2. v = [text |-> s]
    BY <1>2, <1>9, <2>1 DEF Is
  <2>3. Printed(v, "") = v
    BY <1>5, <1>9 DEF Printed, Is
  <2>4. CsvField(v) = s
    BY <1>6, <1>9, <2>1, <2>3
  <2>5. s \notin DOMAIN Numerals /\ s # "" /\ s # "true" /\ s # "false"
    BY <1>9, <2>1
  <2>6. ParseField(s) = Text(s)
    BY <2>5 DEF ParseField
  <2> QED
    BY <2>2, <2>4, <2>6 DEF Text
<1> QED
  BY <1>3, <1>7, <1>8, <1>9 DEF Plain

\* The text of rows under their columns.
CsvRow(columns, v) == [j \in DOMAIN columns |-> CsvField(Member(v, columns[j]))]
CsvGrid(columns, items) == <<columns>> \o [i \in DOMAIN items |-> CsvRow(columns, items[i])]
ReadBack(K, v) == Object([h \in K |-> ParseField(CsvField(v.object[h]))])
AreRows(items, K) == \A i \in DOMAIN items : Is(items[i], "object") /\ DOMAIN items[i].object = K

\* The first record is the columns, every other a row.
LEMMA GridIs ==
    ASSUME NEW columns, NEW items \in Seq(Json)
    PROVE  LET g == CsvGrid(columns, items)
           IN  /\ Len(g) = Len(items) + 1 /\ DOMAIN g = 1..Len(items) + 1 /\ g[1] = columns /\ g # <<>>
               /\ \A i \in 1..Len(items) : g[i + 1] = CsvRow(columns, items[i])
               /\ Tail(g) = [i \in 1..Len(items) |-> CsvRow(columns, items[i])]
<1>1. PICK n \in Nat : n = Len(items)
  OBVIOUS
<1>2. PICK R : R = {columns} \cup {CsvRow(columns, v) : v \in Json}
  OBVIOUS
<1>3. PICK rest : rest = [i \in DOMAIN items |-> CsvRow(columns, items[i])]
  OBVIOUS
<1>4. rest = [i \in 1..n |-> CsvRow(columns, items[i])] /\ DOMAIN rest = 1..n
  BY <1>1, <1>3
<1>5. rest \in Seq(R) /\ Len(rest) = n
  <2>1. \A i \in 1..n : CsvRow(columns, items[i]) \in R
    BY <1>1, <1>2
  <2> QED
    BY <1>4, <2>1
<1>6. PICK one : one = <<columns>>
  OBVIOUS
<1>7. one \in Seq(R) /\ Len(one) = 1 /\ one[1] = columns
  BY <1>2, <1>6
<1>8. PICK g : g = CsvGrid(columns, items)
  OBVIOUS
<1>9. g = one \o rest
  BY <1>3, <1>6, <1>8 DEF CsvGrid
<1>10. /\ g \in Seq(R) /\ Len(g) = n + 1 /\ g[1] = columns
       /\ \A i \in 1..n : g[i + 1] = rest[i]
  <2>1. g \in Seq(R) /\ Len(g) = 1 + n /\ \A i \in 1..1 + n : g[i] = IF i <= 1 THEN one[i] ELSE rest[i - 1]
    <3>1. PICK z : z = one \o rest
      OBVIOUS
    <3>2. /\ z \in Seq(R) /\ Len(z) = Len(one) + Len(rest)
          /\ \A i \in 1..Len(one) + Len(rest) : z[i] = IF i <= Len(one) THEN one[i] ELSE rest[i - Len(one)]
      BY <1>5, <1>7, <3>1, ConcatProperties
    <3> QED
      BY <1>5, <1>7, <1>9, <3>1, <3>2
  <2>2. \A i \in 1..n : i + 1 \in 1..1 + n /\ ~(i + 1 <= 1) /\ (i + 1) - 1 = i
    OBVIOUS
  <2>3. 1 \in 1..1 + n
    OBVIOUS
  <2> QED
    BY <1>7, <2>1, <2>2, <2>3
<1>11. g # <<>> /\ DOMAIN g = 1..n + 1
  BY <1>10
<1>12. Tail(g) \in Seq(R) /\ Len(Tail(g)) = n /\ \A i \in 1..n : Tail(g)[i] = g[i + 1]
  BY <1>10, <1>11, HeadTailProperties
<1>13. Tail(g) = rest
  BY <1>5, <1>10, <1>12
<1> QED
  BY <1>1, <1>4, <1>8, <1>10, <1>11, <1>13

\* Rows of the same keys are written under them,
LEMMA StringifyIs ==
    ASSUME NEW cfg, NEW payload, cfg.columns = <<>>, NEW items \in Seq(Json), items # <<>>,
           NEW found, found = CsvList(payload), Is(found, "array"), items = found.array,
           NEW K, K # {}, AreRows(items, K), NEW columns, columns = SetToSeq(K), Listing(columns, K)
    PROVE  CsvStringify(cfg, payload) = Out(Emit("output", [grid |-> CsvGrid(columns, items)]))
<1>1. PICK n \in Nat : n = Len(items)
  OBVIOUS
<1>2. DOMAIN items = 1..n /\ n # 0
  BY <1>1
<1>3. Is(items[1], "object") /\ DOMAIN items[1].object = K
  BY <1>2 DEF AreRows
<1>4. columns # <<>>
  <2>1. PICK k \in K : TRUE
    OBVIOUS
  <2>2. PICK i \in DOMAIN columns : columns[i] = k
    BY <2>1 DEF Listing
  <2> QED
    BY <2>2
<1>5. Record(columns) = columns
  BY <1>4 DEF Record
<1>6. PICK objects : objects = Picked(items, {v \in ToSet(items) : Is(v, "object")})
  OBVIOUS
<1>7. objects = items
  <2>1. PICK S : S = {v \in ToSet(items) : Is(v, "object")}
    OBVIOUS
  <2>2. \A i \in 1..Len(items) : items[i] \in S
    BY <1>1, <1>2, <2>1 DEF AreRows, ToSet
  <2>3. Picked(items, S) = items
    BY <2>2, PickedAll
  <2> QED
    BY <1>6, <2>1, <2>3
<1>8. \A v : Record(CsvRow(columns, v)) = CsvRow(columns, v)
  <2> SUFFICES ASSUME NEW v PROVE CsvRow(columns, v) # <<>>
    BY DEF Record
  <2>1. DOMAIN CsvRow(columns, v) = DOMAIN columns
    BY DEF CsvRow
  <2>2. 1 \in DOMAIN columns
    BY <1>4 DEF Listing
  <2> QED
    BY <2>1, <2>2
<1>9. [i \in DOMAIN items |-> Record(CsvRow(columns, items[i]))] = [i \in DOMAIN items |-> CsvRow(columns, items[i])]
  BY <1>8
<1>10. CsvStringify(cfg, payload) = Out(Emit("output", [grid |-> <<Record(columns)>> \o
                                    [i \in DOMAIN items |-> Record(CsvRow(columns, items[i]))]]))
  BY <1>3, <1>6, <1>7 DEF CsvStringify, CsvRow
<1> QED
  BY <1>5, <1>9, <1>10 DEF CsvGrid

\* The place of a header, the last one of it; and what a record is read as.
CsvAt(header, h) ==
    CHOOSE i \in DOMAIN header : header[i] = h /\ \A j \in DOMAIN header : header[j] = h => j <= i
CsvRead(cfg, header, r) ==
    IF cfg.hasHeaders
    THEN Object([h \in {h \in Range(header) : cfg.columns = <<>> \/ h \in Range(cfg.columns)} |-> ParseField(r[CsvAt(header, h)])])
    ELSE Array([i \in DOMAIN r |-> ParseField(r[i])])

CsvReading(cfg, text) ==
    LET all == IF cfg.hasHeaders THEN Tail(text.grid) ELSE text.grid
    IN  IF ~Is(text, "grid") THEN Fails
        ELSE IF text.grid = <<>> THEN Out(Emit("output", Object([rows |-> Array(<<>>)])))
        ELSE IF \E i \in DOMAIN text.grid : Len(text.grid[i]) # Len(text.grid[1]) THEN Fails
        ELSE Out(Emit("output", Object([rows |-> Array([i \in DOMAIN all |-> CsvRead(cfg, text.grid[1], all[i])])])))

CsvAnswer(cfg, header, rows) ==
    Out(Emit("output", Object([rows |-> Array([i \in DOMAIN rows |-> CsvRead(cfg, header, rows[i])])])))

\* Records as long as the first one.
IsEven(g) == \A i \in DOMAIN g : Len(g[i]) = Len(g[1])

\* A grid whose records are as long as the first is read record by record,
LEMMA ParseReads ==
    ASSUME NEW cfg, cfg.hasHeaders, NEW g, g # <<>>, NEW rows, rows = Tail(g),
           IsEven(g)
    PROVE  CsvParse(cfg, [grid |-> g]) = CsvAnswer(cfg, g[1], rows)
<1>1. PICK text : text = [grid |-> g]
  OBVIOUS
<1>2. Is(text, "grid") /\ text.grid = g
  BY <1>1 DEF Is
<1>3. CsvParse(cfg, text) = CsvReading(cfg, IF Is(text, "grid") THEN text ELSE FirstMember(text, <<"text", "data", "body">>))
  BY DEF CsvParse, CsvReading, CsvRead, CsvAt
<1>4. CsvParse(cfg, text) = CsvReading(cfg, text)
  BY <1>2, <1>3
<1>5. PICK all : all = IF cfg.hasHeaders THEN Tail(text.grid) ELSE text.grid
  OBVIOUS
<1>6. CsvReading(cfg, text)
            = IF ~Is(text, "grid") THEN Fails
              ELSE IF text.grid = <<>> THEN Out(Emit("output", Object([rows |-> Array(<<>>)])))
              ELSE IF \E i \in DOMAIN text.grid : Len(text.grid[i]) # Len(text.grid[1]) THEN Fails
              ELSE Out(Emit("output", Object([rows |-> Array([i \in DOMAIN all |-> CsvRead(cfg, text.grid[1], all[i])])])))
  BY <1>5 DEF CsvReading
<1>7. all = rows
  BY <1>2, <1>5
<1>8. ~\E i \in DOMAIN g : Len(g[i]) # Len(g[1])
  BY DEF IsEven
<1> QED
  BY <1>1, <1>2, <1>4, <1>6, <1>7, <1>8 DEF CsvAnswer

\* and with that a row from under its columns again.
LEMMA ParseIs ==
    ASSUME NEW cfg, cfg.columns = <<>>, cfg.hasHeaders, NEW items \in Seq(Json),
           NEW K, K # {}, AreRows(items, K), NEW columns, Listing(columns, K)
    PROVE  CsvParse(cfg, [grid |-> CsvGrid(columns, items)])
                = Out(Emit("output", Object([rows |-> Array([i \in 1..Len(items) |-> ReadBack(K, items[i])])])))
<1>1. PICK n \in Nat : n = Len(items)
  OBVIOUS
<1>2. DOMAIN items = 1..n
  BY <1>1
<1>3. PICK g : g = CsvGrid(columns, items)
  OBVIOUS
<1>4. /\ DOMAIN g = 1..n + 1 /\ g[1] = columns /\ g # <<>>
      /\ \A i \in 1..n : g[i + 1] = CsvRow(columns, items[i])
      /\ Tail(g) = [i \in 1..n |-> CsvRow(columns, items[i])]
  BY <1>1, <1>3, GridIs
<1>5. PICK text : text = [grid |-> g]
  OBVIOUS
<1>6. Is(text, "grid") /\ text.grid = g
  BY <1>5 DEF Is
<1> DEFINE wanted == {h \in Range(columns) : cfg.columns = <<>> \/ h \in Range(cfg.columns)}
           at(h) == CsvAt(columns, h)
           row(r) == CsvRead(cfg, columns, r)
<1>7. wanted = K
  <2>1. Range(columns) = K
    BY DEF Listing, Range
  <2> QED
    BY <2>1
<1>8. \A h \in K : at(h) \in DOMAIN columns /\ columns[at(h)] = h
  <2> SUFFICES ASSUME NEW h \in K PROVE at(h) \in DOMAIN columns /\ columns[at(h)] = h
    OBVIOUS
  <2>1. PICK i \in DOMAIN columns : columns[i] = h
    BY DEF Listing
  <2>2. \A j \in DOMAIN columns : columns[j] = h => j <= i
    <3>1. \A j \in DOMAIN columns : columns[j] = h => j = i
      BY <2>1 DEF Listing
    <3>2. i <= i
      BY DEF Listing
    <3> QED
      BY <3>1, <3>2
  <2> QED
    BY <2>1, <2>2 DEF CsvAt
<1>9. \A i \in 1..n : row(CsvRow(columns, items[i])) = ReadBack(K, items[i])
  <2> SUFFICES ASSUME NEW i \in 1..n
               PROVE  row(CsvRow(columns, items[i])) = ReadBack(K, items[i])
    OBVIOUS
  <2>1. PICK v : v = items[i]
    OBVIOUS
  <2>2. Is(v, "object") /\ DOMAIN v.object = K
    BY <1>2, <2>1 DEF AreRows
  <2>3. \A h \in K : CsvRow(columns, v)[at(h)] = CsvField(v.object[h])
    <3> SUFFICES ASSUME NEW h \in K PROVE CsvRow(columns, v)[at(h)] = CsvField(v.object[h])
      OBVIOUS
    <3>1. PICK a : a = at(h)
      OBVIOUS
    <3>2. a \in DOMAIN columns /\ columns[a] = h
      BY <1>8, <3>1
    <3>3. CsvRow(columns, v)[a] = CsvField(Member(v, columns[a]))
      BY <3>2 DEF CsvRow
    <3>4. Member(v, h) = v.object[h]
      BY <2>2 DEF Member
    <3> QED
      BY <3>1, <3>2, <3>3, <3>4
  <2>4. PICK r : r = CsvRow(columns, v)
    OBVIOUS
  <2>5. row(r) = Object([h \in wanted |-> ParseField(r[CsvAt(columns, h)])])
    BY DEF CsvRead
  <2>6. \A h \in K : r[CsvAt(columns, h)] = CsvField(v.object[h])
    BY <2>3, <2>4
  <2>7. row(r) = Object([h \in K |-> ParseField(r[CsvAt(columns, h)])])
    <3> HIDE DEF row, wanted
    <3> QED
      BY <1>7, <2>5
  <2>8. [h \in K |-> ParseField(r[CsvAt(columns, h)])] = [h \in K |-> ParseField(CsvField(v.object[h]))]
    BY <2>6
  <2> QED
    BY <2>1, <2>4, <2>7, <2>8 DEF ReadBack
<1>10. IsEven(g)
  <2>1. \A i \in 1..n : Len(CsvRow(columns, items[i])) = Len(columns)
    <3> SUFFICES ASSUME NEW i \in 1..n PROVE Len(CsvRow(columns, items[i])) = Len(columns)
      OBVIOUS
    <3>1. PICK m \in Nat : m = Len(columns) /\ DOMAIN columns = 1..m
      BY DEF Listing
    <3>2. PICK r : r = CsvRow(columns, items[i])
      OBVIOUS
    <3>3. r = [j \in 1..m |-> r[j]] /\ DOMAIN r = 1..m
      BY <3>1, <3>2 DEF CsvRow
    <3>4. Len(r) = m
      BY <3>3, ListIs
    <3> QED
      BY <3>1, <3>2, <3>4
  <2>2. \A i \in 1..n + 1 : i = 1 \/ \E j \in 1..n : i = j + 1
    <3> SUFFICES ASSUME NEW i \in 1..n + 1, i # 1 PROVE \E j \in 1..n : i = j + 1
      OBVIOUS
    <3>1. i - 1 \in 1..n /\ i = (i - 1) + 1
      OBVIOUS
    <3> QED
      BY <3>1
  <2> SUFFICES ASSUME NEW i \in DOMAIN g PROVE Len(g[i]) = Len(columns)
    BY <1>4 DEF IsEven
  <2>3. CASE i = 1
    BY <1>4, <2>3
  <2>4. ASSUME NEW k \in 1..n, i = k + 1 PROVE Len(g[i]) = Len(columns)
    BY <1>4, <2>1, <2>4
  <2> QED
    BY <1>4, <2>2, <2>3, <2>4
<1>11. PICK rows : rows = Tail(g)
  OBVIOUS
<1>12. CsvParse(cfg, text) = Out(Emit("output", Object([rows |-> Array([i \in DOMAIN rows |-> row(rows[i])])])))
  <2>1. CsvParse(cfg, [grid |-> g]) = CsvAnswer(cfg, g[1], rows)
    <3>1. g # <<>> /\ rows = Tail(g) /\ IsEven(g) /\ cfg.hasHeaders
      BY <1>4, <1>10, <1>11
    <3> HIDE DEF wanted, at, row
    <3> QED
      BY <3>1, ParseReads
  <2> QED
    BY <1>4, <1>5, <2>1 DEF CsvAnswer
<1>13. [i \in DOMAIN rows |-> row(rows[i])]
            = [i \in 1..n |-> ReadBack(K, items[i])]
  <2>1. DOMAIN rows = 1..n /\ \A i \in 1..n : rows[i] = CsvRow(columns, items[i])
    BY <1>4, <1>11
  <2> HIDE DEF row
  <2> QED
    BY <1>9, <2>1
<1> QED
  BY <1>1, <1>3, <1>5, <1>12, <1>13

\* Rows of the same keys, one at least, that are plain.
ArePlainRows(items) ==
    \A i \in DOMAIN items :
        /\ Is(items[i], "object") /\ DOMAIN items[i].object # {}
        /\ DOMAIN items[i].object = DOMAIN items[1].object
        /\ \A k \in DOMAIN items[i].object : Plain(items[i].object[k])

\* They are written to a text that is read as they are.
LEMMA PlainRowsComeBack ==
    ASSUME NEW cfg, cfg.columns = <<>>, NEW cfg2, cfg2.columns = <<>>, cfg2.hasHeaders, NEW payload,
           NEW found, found = CsvList(payload), Is(found, "array"), NEW items \in Seq(Json), items # <<>>,
           items = found.array, ArePlainRows(items)
    PROVE  \E text : /\ CsvStringify(cfg, payload) = Out(Emit("output", text))
                     /\ CsvParse(cfg2, text) = Out(Emit("output", Object([rows |-> Array(items)])))
<1>1. PICK n \in Nat \ {0} : n = Len(items) /\ DOMAIN items = 1..n
  OBVIOUS
<1>2. PICK K : K = DOMAIN items[1].object
  OBVIOUS
<1>3. AreRows(items, K) /\ K # {} /\ \A i \in 1..n : \A k \in K : Plain(items[i].object[k])
  <2>1. 1 \in 1..n
    OBVIOUS
  <2> QED
    BY <1>1, <1>2, <2>1 DEF AreRows, ArePlainRows
<1>4. \A i \in 1..n : items[i] \in Json
  BY <1>1
<1>5. IsFiniteSet(K)
  <2>1. 1 \in 1..n
    OBVIOUS
  <2>2. PICK v \in Json : v = items[1]
    BY <1>4, <2>1
  <2>3. Is(v, "object")
    BY <1>1, <1>3, <2>1, <2>2 DEF AreRows
  <2> QED
    BY <1>2, <2>2, <2>3, JsonAssumption
<1>6. PICK columns : columns = SetToSeq(K)
  OBVIOUS
<1>7. Listing(columns, K)
  BY <1>5, <1>6, SetIsListed
<1>8. PICK text : text = [grid |-> CsvGrid(columns, items)]
  OBVIOUS
<1>9. PICK e : e = Emit("output", text)
  OBVIOUS
<1>10. CsvStringify(cfg, payload) = Out(e)
  BY <1>3, <1>6, <1>7, <1>8, <1>9, StringifyIs
<1>13. CsvParse(cfg2, text) = Out(Emit("output", Object([rows |-> Array([i \in 1..Len(items) |-> ReadBack(K, items[i])])])))
  BY <1>3, <1>7, <1>8, ParseIs
<1>14. \A i \in 1..n : ReadBack(K, items[i]) = items[i]
  <2> SUFFICES ASSUME NEW i \in 1..n PROVE ReadBack(K, items[i]) = items[i]
    OBVIOUS
  <2>1. PICK v \in Json : v = items[i]
    BY <1>4
  <2>2. Is(v, "object") /\ DOMAIN v.object = K /\ \A k \in K : Plain(v.object[k])
    BY <1>1, <1>3, <2>1 DEF AreRows
  <2>3. v.object \in [K -> Json]
    BY <2>2, JsonAssumption
  <2>4. PICK o \in [K -> Json] : o = v.object
    BY <2>3
  <2>5. \A h \in K : ParseField(CsvField(o[h])) = o[h]
    BY <2>2, <2>4, FieldComesBack
  <2>6. [h \in K |-> ParseField(CsvField(o[h]))] = o
    BY <2>5
  <2>7. v = [object |-> o]
    <3>1. PICK kind \in DOMAIN v : v = [k \in {kind} |-> v[kind]]
      BY JsonAssumption
    <3> QED
      BY <2>2, <2>4, <3>1 DEF Is
  <2> QED
    BY <2>1, <2>4, <2>6, <2>7 DEF Object, ReadBack
<1>15. [i \in 1..Len(items) |-> ReadBack(K, items[i])] = items
  <2>1. items = [i \in 1..n |-> items[i]]
    BY <1>1
  <2> QED
    BY <1>1, <1>14, <2>1
<1> QED
  BY <1>9, <1>10, <1>13, <1>15

\* What stringify makes of plain rows, parse makes the rows of again.
LEMMA CsvHere == RunInv /\ Sent => CsvComesBack
<1> DEFINE rows == CsvList(task.payload).array
           plain(v) == \/ Is(v, "null") \/ Is(v, "bool") \/ Is(v, "number")
                       \/ Is(v, "text") /\ v.text \notin DOMAIN Numerals \cup {"", "true", "false"}
           alike == \A i \in DOMAIN rows :
                       /\ Is(rows[i], "object") /\ DOMAIN rows[i].object # {}
                       /\ DOMAIN rows[i].object = DOMAIN rows[1].object
                       /\ \A k \in DOMAIN rows[i].object : plain(rows[i].object[k])
<1> SUFFICES ASSUME RunInv, Sent, task.node = "csv", task.cfg.action = "stringify", task.cfg.columns = <<>>, alike
             PROVE  CsvParse([task.cfg EXCEPT !.hasHeaders = TRUE], Only) = Out(Emit("output", Object([rows |-> Array(rows)])))
  BY DEF CsvComesBack
<1>1. PICK cfg, payload : cfg = task.cfg /\ payload = task.payload
  OBVIOUS
<1>2. /\ task \in Task /\ payload \in Json /\ {"columns", "hasHeaders"} \subseteq DOMAIN cfg
      /\ cfg.action = "stringify" /\ cfg.columns = <<>>
  <2>1. task \in Task
    BY SentIs
  <2> QED
    BY <1>1, <2>1, TaskAssumption DEF OfJson
<1>3. PICK cfg2 : cfg2 = [cfg EXCEPT !.hasHeaders = TRUE]
  OBVIOUS
<1>4. cfg2.hasHeaders /\ cfg2.columns = <<>>
  BY <1>2, <1>3
<1>5. PICK found : found = CsvList(payload)
  OBVIOUS
<1>6. PICK items : items = found.array
  OBVIOUS
<1>7. Process(task) = CsvStringify(cfg, payload)
  <2>1. Process(task) = CsvNode(cfg, payload)
    BY <1>1 DEF Process
  <2> QED
    BY <1>2, <2>1 DEF CsvNode
<1>8. CsvStringify(cfg, payload).end = "ok" /\ result.out = CsvStringify(cfg, payload).out
  BY <1>7, SentIs
<1>9. Is(found, "array")
  <2> SUFFICES ASSUME ~Is(found, "array") PROVE FALSE
    OBVIOUS
  <2>1. CsvStringify(cfg, payload) = Fails
    BY <1>5 DEF CsvStringify
  <2> QED
    BY <1>8, <2>1, NoMessage
<1>10. found \in JsonOrNone
  <2>1. FirstMember(payload, <<"rows", "data", "results">>) \in JsonOrNone
    <3>1. payload \in JsonOrNone
      BY <1>2 DEF JsonOrNone
    <3>2. \A f : Member(payload, f) \in JsonOrNone
      BY <3>1, FieldIsJson
    <3>3. NoValue \in JsonOrNone
      BY DEF JsonOrNone
    <3> QED
      BY <3>2, <3>3 DEF FirstMember
  <2> QED
    BY <1>2, <1>5, <2>1 DEF CsvList, JsonOrNone
<1>11. items \in Seq(Json)
  BY <1>6, <1>9, <1>10, JsonParts
<1>12. rows = items
  BY <1>1, <1>5, <1>6
<1>13. CASE items = <<>>
  <2> HIDE DEF rows, alike, plain
  <2>1. PICK text : text = [grid |-> <<>>]
    OBVIOUS
  <2>2. PICK e : e = Emit("output", text)
    OBVIOUS
  <2>3. CsvStringify(cfg, payload) = Out(e)
    BY <1>5, <1>6, <1>9, <1>13, <2>1, <2>2 DEF CsvStringify
  <2>4. result.out = e
    BY <1>8, <2>2, <2>3, EmitIs, OutIs
  <2>5. Only = text
    BY <2>2, <2>4, FirstOfEmit DEF Only
  <2>6. Is(text, "grid") /\ text.grid = <<>>
    BY <2>1 DEF Is
  <2>7. CsvParse(cfg2, text) = Out(Emit("output", Object([rows |-> Array(<<>>)])))
    BY <2>6 DEF CsvParse
  <2> QED
    BY <1>1, <1>3, <1>12, <1>13, <2>5, <2>7
<1>14. CASE items # <<>>
  <2>1. ArePlainRows(items)
    <3>1. \A v : plain(v) <=> Plain(v)
      BY DEF Plain
    <3> HIDE DEF plain
    <3> QED
      BY <1>12, <3>1 DEF ArePlainRows
  <2> HIDE DEF rows, alike, plain
  <2>2. PICK text : /\ CsvStringify(cfg, payload) = Out(Emit("output", text))
                    /\ CsvParse(cfg2, text) = Out(Emit("output", Object([rows |-> Array(items)])))
    BY <1>2, <1>4, <1>5, <1>6, <1>9, <1>11, <1>14, <2>1, PlainRowsComeBack
  <2>3. PICK e : e = Emit("output", text)
    OBVIOUS
  <2>4. result.out = e
    BY <1>8, <2>2, <2>3, EmitIs, OutIs
  <2>5. Only = text
    BY <2>3, <2>4, FirstOfEmit DEF Only
  <2> QED
    BY <1>1, <1>3, <1>12, <2>2, <2>5
<1> QED
  BY <1>13, <1>14

----------------------------------------------------------------------------
(* What sanitize leaves.                                                    *)

\* What a listed field may be afterwards: nothing is under it.
Barren(x) == x \in {NoValue, Mask}

\* Nothing is found under what is no object and no array.
LEMMA BarrenIs ==
    ASSUME NEW x, Barren(x)
    PROVE  ~Is(x, "object") /\ ~Is(x, "array") /\ \A k : Field(x, k) = NoValue
<1>1. ~Is(NoValue, "object") /\ ~Is(NoValue, "array")
  <2>1. PICK e : e = NoValue
    OBVIOUS
  <2>2. DOMAIN e = {"novalue"}
    BY <2>1 DEF NoValue
  <2> QED
    BY <2>1, <2>2 DEF Is
<1>2. ~Is(Mask, "object") /\ ~Is(Mask, "array")
  <2>1. PICK e : e = Mask
    OBVIOUS
  <2>2. DOMAIN e = {"text"}
    BY <2>1 DEF Mask, Text
  <2> QED
    BY <2>1, <2>2 DEF Is
<1>3. ~Is(x, "object") /\ ~Is(x, "array")
  BY <1>1, <1>2 DEF Barren
<1> QED
  BY <1>3, NothingUnder

IsAlong(a, v, path) == a[0] = v /\ \A n \in 1..Len(path) : a[n] = Field(a[n - 1], path[n])

\* The values along a path, each under the one before.
LEMMA AlongSteps ==
    ASSUME NEW v, NEW S, NEW path \in Seq(S)
    PROVE  IsAlong(Along(v, path), v, path)
  BY AlongIs DEF IsAlong

\* Behind what is barren there is nothing.
LEMMA DeadEnd ==
    ASSUME NEW v, NEW S, NEW path \in Seq(S), NEW j \in 0..Len(path), Barren(Along(v, path)[j])
    PROVE  \A n \in j + 1..Len(path) : Along(v, path)[n] = NoValue
<1>1. PICK N \in Nat : N = Len(path)
  OBVIOUS
<1>2. PICK a : a = Along(v, path)
  OBVIOUS
<1>3. \A n \in 1..N : a[n] = Field(a[n - 1], path[n])
  BY <1>1, <1>2, AlongIs
<1> DEFINE T == {n \in Nat : j + n <= N => Barren(a[j + n])}
<1>4. 0 \in T
  <2>1. j + 0 = j
    BY <1>1
  <2> QED
    BY <1>2, <2>1
<1>5. ASSUME NEW n \in Nat, n \in T PROVE n + 1 \in T
  <2> SUFFICES ASSUME j + (n + 1) <= N PROVE Barren(a[j + (n + 1)])
    OBVIOUS
  <2>1. j + (n + 1) \in 1..N /\ (j + (n + 1)) - 1 = j + n /\ j + n <= N
    BY <1>1
  <2>2. Barren(a[j + n])
    BY <1>5, <2>1
  <2>3. a[j + (n + 1)] = Field(a[j + n], path[j + (n + 1)])
    BY <1>3, <2>1
  <2>4. a[j + (n + 1)] = NoValue
    BY <2>2, <2>3, BarrenIs
  <2> QED
    BY <2>4 DEF Barren
<1>6. \A n \in Nat : n \in T
  <2> HIDE DEF T
  <2> QED
    BY <1>4, <1>5, Numbers!NumberInduction
<1>7. ASSUME NEW n \in j + 1..N PROVE a[n] = NoValue
  <2>1. n \in 1..N /\ (n - 1) - j \in Nat /\ j + ((n - 1) - j) = n - 1 /\ n - 1 <= N
    BY <1>1
  <2>2. Barren(a[n - 1])
    BY <1>6, <2>1
  <2> QED
    BY <1>3, <2>1, <2>2, BarrenIs
<1> QED
  BY <1>1, <1>2, <1>7

\* w is v without what was at p: on the way there are objects, that hold what
\* they held, or nothing where v had none.
IsCut(v, w, p) ==
    /\ \A n \in 0..Len(p) - 1 : Is(Along(w, p)[n], "object")
    /\ \A n \in 0..Len(p) - 1 : \A k : k # p[n + 1] =>
            \/ Field(Along(w, p)[n], k) = Field(Along(v, p)[n], k)
            \/ Field(Along(w, p)[n], k) = NoValue
    /\ Barren(PathGet(w, p))
NoArrays(v, q) == \A n \in 0..Len(q) - 1 : ~Is(Along(v, q)[n], "array")
NothingAt(v, q) == Barren(PathGet(v, q))

\* Rebuilding the way of objects that are v's own or empty cuts p out of v.
LEMMA RebuiltIsCut ==
    ASSUME NEW v, NEW S, NEW p \in Seq(S), p # <<>>, NEW on, NEW inner,
           \A n \in 1..Len(p) : (on[n] = Along(v, p)[n - 1] /\ Is(on[n], "object")) \/ on[n] = Empty,
           Is(inner, "object"), Barren(Field(inner, p[Len(p)])),
           \A k : k # p[Len(p)] => \/ Field(inner, k) = Field(on[Len(p)], k)
                                   \/ Field(inner, k) = NoValue
    PROVE  IsCut(v, Rebuilt(on, p, inner), p)
<1>1. PICK N \in Nat \ {0} : N = Len(p)
  OBVIOUS
<1>2. PICK w : w = Rebuilt(on, p, inner)
  OBVIOUS
<1>3. PICK a : a = Along(w, p)
  OBVIOUS
<1>4. PICK b : b = Along(v, p)
  OBVIOUS
<1>5. a[N - 1] = inner /\ \A n \in 0..N - 1 : n = N - 1 \/ a[n] = With(on[n + 1], p[n + 1], a[n + 1])
  BY <1>1, <1>2, <1>3, RebuiltLeads
<1>6. \A n \in 1..N : a[n] = Field(a[n - 1], p[n])
  <2>1. IsAlong(a, w, p)
    BY <1>3, AlongSteps
  <2> QED
    BY <1>1, <2>1 DEF IsAlong
<1>7. ASSUME NEW n \in 1..N, NEW k
      PROVE  Field(on[n], k) = Field(b[n - 1], k) \/ Field(on[n], k) = NoValue
  <2>1. on[n] = b[n - 1] \/ on[n] = Empty
    BY <1>1, <1>4, <1>7
  <2>2. Field(Empty, k) = NoValue
    <3>1. PICK e : e = Empty
      OBVIOUS
    <3>2. e = [object |-> <<>>]
      BY <3>1 DEF Empty, Object
    <3>3. DOMAIN e.object = {} /\ ~Is(e, "array")
      BY <3>2 DEF Is
    <3>4. Field(e, k) = NoValue
      BY <3>3 DEF Field, Member
    <3> QED
      BY <3>1, <3>4
  <2> QED
    BY <2>1, <2>2
<1>8. ASSUME NEW n \in 0..N - 1
      PROVE  /\ Is(a[n], "object")
             /\ \A k : k # p[n + 1] => Field(a[n], k) = Field(b[n], k) \/ Field(a[n], k) = NoValue
  <2>1. n + 1 \in 1..N /\ (n + 1) - 1 = n
    BY <1>8
  <2>2. CASE n = N - 1
    <3>1. n + 1 = N
      BY <2>2
    <3>2. Is(a[n], "object")
      BY <1>5, <2>2
    <3>3. ASSUME NEW k, k # p[n + 1] PROVE Field(a[n], k) = Field(b[n], k) \/ Field(a[n], k) = NoValue
      <4>1. Field(inner, k) = Field(on[N], k) \/ Field(inner, k) = NoValue
        BY <1>1, <3>1, <3>3
      <4>2. Field(on[n + 1], k) = Field(b[n], k) \/ Field(on[n + 1], k) = NoValue
        BY <1>7, <2>1
      <4> QED
        BY <1>5, <2>2, <3>1, <4>1, <4>2
    <3> QED
      BY <3>2, <3>3
  <2>3. CASE n # N - 1
    <3>1. PICK o : o = on[n + 1]
      OBVIOUS
    <3>2. a[n] = With(o, p[n + 1], a[n + 1])
      BY <1>5, <2>3, <3>1
    <3>3. Is(a[n], "object")
      BY <3>2, WithIs
    <3>4. ASSUME NEW k, k # p[n + 1] PROVE Field(a[n], k) = Field(b[n], k) \/ Field(a[n], k) = NoValue
      <4>1. (o = b[n] /\ Is(o, "object")) \/ o = Empty
        BY <1>1, <1>4, <2>1, <3>1
      <4>2. CASE o = b[n] /\ Is(o, "object")
        <5>1. Field(a[n], k) = Field(o, k)
          BY <3>2, <3>4, <4>2, WithIs
        <5> QED
          BY <4>2, <5>1
      <4>3. CASE o = Empty
        BY <3>2, <3>4, <4>3, WithIs
      <4> QED
        BY <4>1, <4>2, <4>3
    <3> QED
      BY <3>3, <3>4
  <2> QED
    BY <2>2, <2>3
<1>9. Barren(PathGet(w, p))
  <2>1. PathGet(w, p) = a[N]
    BY <1>1, <1>3 DEF PathGet
  <2>2. a[N] = Field(inner, p[N])
    BY <1>5, <1>6
  <2> QED
    BY <1>1, <2>1, <2>2
<1> QED
  BY <1>1, <1>2, <1>3, <1>4, <1>8, <1>9 DEF IsCut

\* Nothing is in an empty object.
LEMMA EmptyIs ==
    /\ Is(Empty, "object") /\ \A k : Field(Empty, k) = NoValue /\ Member(Empty, k) = NoValue
<1>1. PICK e : e = Empty
  OBVIOUS
<1>2. e = [object |-> <<>>]
  BY <1>1 DEF Empty, Object
<1>3. DOMAIN e.object = {} /\ ~Is(e, "array") /\ Is(e, "object")
  BY <1>2 DEF Is
<1>4. \A k : Field(e, k) = NoValue /\ Member(e, k) = NoValue
  BY <1>3 DEF Field, Member
<1> QED
  BY <1>1, <1>3, <1>4

\* Where a mask is put in and a member taken out.
LEMMA MaskedIsCut ==
    ASSUME NEW v, Is(v, "object"), NEW p \in JsonPath
    PROVE  IsCut(v, PathSet(v, p, Mask), p)
<1>1. p \in Seq(STRING) /\ p # <<>>
  BY DEF JsonPath
<1>2. PICK N \in Nat \ {0} : N = Len(p)
  BY <1>1
<1>3. PICK on : /\ on[1] = v
                /\ \A n \in 2..N : on[n] = Under(on[n - 1], p[n - 1])
                /\ PathSet(v, p, Mask) = Rebuilt(on, p, With(on[N], p[N], Mask))
  BY <1>1, <1>2, PathSetIs
<1>4. PICK a : a = Along(v, p)
  OBVIOUS
<1>5. a[0] = v /\ \A n \in 1..N : a[n] = Field(a[n - 1], p[n])
  <2>1. IsAlong(a, v, p)
    BY <1>1, <1>4, AlongSteps
  <2> QED
    BY <1>2, <2>1 DEF IsAlong
<1> DEFINE Ok(n) == (on[n + 1] = a[n] /\ Is(on[n + 1], "object")) \/ on[n + 1] = Empty
           T == {n \in Nat : n < N => Ok(n)}
<1>6. 0 \in T
  BY <1>3, <1>5
<1>7. ASSUME NEW n \in Nat, n \in T PROVE n + 1 \in T
  <2> SUFFICES ASSUME n + 1 < N PROVE Ok(n + 1)
    OBVIOUS
  <2>1. n + 1 \in 1..N /\ n < N /\ (n + 1) - 1 = n /\ (n + 1) + 1 \in 2..N /\ ((n + 1) + 1) - 1 = n + 1
    OBVIOUS
  <2>2. Ok(n)
    BY <1>7, <2>1
  <2>3. PICK o : o = on[n + 1]
    OBVIOUS
  <2>4. PICK o2 : o2 = on[(n + 1) + 1]
    OBVIOUS
  <2>5. o2 = Under(o, p[n + 1])
    BY <1>3, <2>1, <2>3, <2>4
  <2>6. CASE o = Empty
    <3>1. Member(o, p[n + 1]) = NoValue
      BY <2>6, EmptyIs
    <3>2. ~Is(NoValue, "object")
      BY BarrenIs DEF Barren
    <3>3. o2 = Empty
      BY <2>5, <3>1, <3>2 DEF Under
    <3> QED
      BY <2>4, <3>3
  <2>7. CASE o = a[n] /\ Is(o, "object")
    <3>1. ~Is(o, "array")
      BY <2>7 DEF Is
    <3>2. Member(o, p[n + 1]) = Field(o, p[n + 1])
      BY <3>1 DEF Field
    <3>3. a[n + 1] = Field(o, p[n + 1])
      BY <1>5, <2>1, <2>7
    <3> QED
      BY <2>4, <2>5, <3>2, <3>3 DEF Under
  <2> QED
    BY <2>2, <2>3, <2>6, <2>7
<1>8. \A n \in Nat : n \in T
  <2> HIDE DEF T
  <2> QED
    BY <1>6, <1>7, Numbers!NumberInduction
<1>9. \A n \in 1..N : (on[n] = a[n - 1] /\ Is(on[n], "object")) \/ on[n] = Empty
  <2> SUFFICES ASSUME NEW n \in 1..N PROVE (on[n] = a[n - 1] /\ Is(on[n], "object")) \/ on[n] = Empty
    OBVIOUS
  <2>1. n - 1 \in Nat /\ n - 1 < N /\ (n - 1) + 1 = n
    OBVIOUS
  <2>2. Ok(n - 1)
    BY <1>8, <2>1
  <2> QED
    BY <2>1, <2>2
<1> HIDE DEF T, Ok
<1>10. PICK o : o = on[N]
  OBVIOUS
<1>11. PICK key : key = p[N]
  OBVIOUS
<1>12. PICK inner : inner = With(o, key, Mask)
  OBVIOUS
<1>13. Is(o, "object") \/ o = Empty
  BY <1>9, <1>10
<1>14. Is(inner, "object") /\ Field(inner, key) = Mask
  BY <1>12, WithIs
<1>15. \A k : k # key => Field(inner, k) = Field(o, k) \/ Field(inner, k) = NoValue
  BY <1>12, <1>13, WithIs
<1>16. Barren(Field(inner, key))
  BY <1>14 DEF Barren
<1>17. \A n \in 1..Len(p) : (on[n] = Along(v, p)[n - 1] /\ Is(on[n], "object")) \/ on[n] = Empty
  BY <1>2, <1>4, <1>9
<1>18. IsCut(v, Rebuilt(on, p, inner), p)
  BY <1>1, <1>2, <1>10, <1>11, <1>14, <1>15, <1>16, <1>17, RebuiltIsCut
<1> QED
  BY <1>3, <1>10, <1>11, <1>12, <1>18

\* A field that is removed from objects leaves nothing where it was.
LEMMA RemovedIsCut ==
    ASSUME NEW v, NEW p \in JsonPath, \A n \in 1..Len(p) : Is(Along(v, p)[n - 1], "object")
    PROVE  IsCut(v, PathRemove(v, p), p)
<1>1. p \in Seq(STRING) /\ p # <<>>
  BY DEF JsonPath
<1>2. PICK N \in Nat \ {0} : N = Len(p)
  BY <1>1
<1>3. PICK on : on = [n \in 1..Len(p) |-> Along(v, p)[n - 1]]
  OBVIOUS
<1>4. \A n \in 1..N : on[n] = Along(v, p)[n - 1] /\ Is(on[n], "object")
  BY <1>2, <1>3
<1>5. PathRemove(v, p) = Rebuilt(on, p, Lacking(on[Len(p)], p[Len(p)]))
  BY <1>2, <1>3, <1>4 DEF PathRemove
<1>6. PICK o : o = on[N]
  OBVIOUS
<1>7. PICK key : key = p[N]
  OBVIOUS
<1>8. PICK inner : inner = Lacking(o, key)
  OBVIOUS
<1>9. Is(o, "object")
  BY <1>4, <1>6
<1>10. Is(inner, "object") /\ Field(inner, key) = NoValue /\ \A k : k # key => Field(inner, k) = Field(o, k)
  BY <1>8, <1>9, LackingIs
<1>11. Barren(Field(inner, key))
  BY <1>10 DEF Barren
<1>12. \A n \in 1..Len(p) : (on[n] = Along(v, p)[n - 1] /\ Is(on[n], "object")) \/ on[n] = Empty
  BY <1>2, <1>4
<1>13. \A k : k # key => Field(inner, k) = Field(o, k) \/ Field(inner, k) = NoValue
  BY <1>10
<1>14. IsCut(v, Rebuilt(on, p, inner), p)
  BY <1>1, <1>2, <1>6, <1>7, <1>10, <1>11, <1>12, <1>13, RebuiltIsCut
<1> QED
  BY <1>2, <1>5, <1>6, <1>7, <1>8, <1>14

\* A path that leads to something leads through objects and arrays alone.
LEMMA WayIsThere ==
    ASSUME NEW v, NEW p \in JsonPath, PathGet(v, p) # NoValue, NEW n \in 0..Len(p) - 1
    PROVE  Is(Along(v, p)[n], "object") \/ Is(Along(v, p)[n], "array")
<1> SUFFICES ASSUME ~Is(Along(v, p)[n], "object"), ~Is(Along(v, p)[n], "array") PROVE FALSE
  OBVIOUS
<1>1. p \in Seq(STRING) /\ p # <<>>
  BY DEF JsonPath
<1>2. PICK N \in Nat \ {0} : N = Len(p)
  BY <1>1
<1>3. PICK a : a = Along(v, p)
  OBVIOUS
<1>4. IsAlong(a, v, p)
  BY <1>1, <1>3, AlongSteps
<1>5. n + 1 \in 1..N /\ (n + 1) - 1 = n
  BY <1>2
<1>6. a[n + 1] = Field(a[n], p[n + 1])
  BY <1>2, <1>4, <1>5 DEF IsAlong
<1>7. a[n + 1] = NoValue
  BY <1>3, <1>6, NothingUnder
<1>8. Barren(a[n + 1])
  BY <1>7 DEF Barren
<1>9. n + 1 \in 0..Len(p)
  BY <1>2, <1>5
<1>10. \A k \in (n + 1) + 1..Len(p) : Along(v, p)[k] = NoValue
  BY <1>1, <1>3, <1>8, <1>9, DeadEnd
<1>11. N = n + 1 \/ N \in (n + 1) + 1..N
  BY <1>5
<1>12. a[N] = NoValue
  BY <1>2, <1>3, <1>7, <1>10, <1>11
<1> QED
  BY <1>2, <1>3, <1>12 DEF PathGet

\* A listed field is left alone or cut out, and is gone if no array is on the way.
LEMMA FieldIsCut ==
    ASSUME NEW cfg, NEW v, NEW p \in JsonPath, NEW w, w = SanitizeField(cfg, v, p)
    PROVE  /\ w = v \/ (PathGet(v, p) # NoValue /\ IsCut(v, w, p))
           /\ NoArrays(v, p) => NothingAt(w, p)
<1>1. p \in Seq(STRING) /\ p # <<>>
  BY DEF JsonPath
<1>2. PICK N \in Nat \ {0} : N = Len(p)
  BY <1>1
<1>3. CASE PathGet(v, p) = NoValue
  <2>1. w = v
    BY <1>3 DEF SanitizeField
  <2> QED
    BY <1>3, <2>1 DEF NothingAt, Barren
<1>4. CASE PathGet(v, p) # NoValue
  <2>1. \A n \in 0..N - 1 : Is(Along(v, p)[n], "object") \/ Is(Along(v, p)[n], "array")
    BY <1>2, <1>4, WayIsThere
  <2>2. IsCut(v, w, p) => NothingAt(w, p)
    BY DEF IsCut, NothingAt
  <2>3. Along(v, p)[0] = v
    <3>1. PICK a : a = Along(v, p)
      OBVIOUS
    <3>2. IsAlong(a, v, p)
      BY <1>1, <3>1, AlongSteps
    <3> QED
      BY <3>1, <3>2 DEF IsAlong
  <2>4. CASE cfg.strategy = "remove"
    <3>1. w = PathRemove(v, p)
      BY <1>4, <2>4 DEF SanitizeField
    <3>2. CASE \A n \in 1..Len(p) : Is(Along(v, p)[n - 1], "object")
      BY <1>4, <2>2, <3>1, <3>2, RemovedIsCut
    <3>3. CASE \E n \in 1..Len(p) : ~Is(Along(v, p)[n - 1], "object")
      <4>1. PICK n \in 1..N : ~Is(Along(v, p)[n - 1], "object")
        BY <1>2, <3>3
      <4>2. n - 1 \in 0..N - 1
        OBVIOUS
      <4>3. ~NoArrays(v, p)
        BY <1>2, <2>1, <4>1, <4>2 DEF NoArrays
      <4>4. PathRemove(v, p) = v
        <5>1. PICK on : on = [k \in 1..Len(p) |-> Along(v, p)[k - 1]]
          OBVIOUS
        <5>2. ~\A k \in DOMAIN on : Is(on[k], "object")
          BY <1>2, <4>1, <5>1
        <5> QED
          BY <5>1, <5>2 DEF PathRemove
      <4> QED
        BY <3>1, <4>3, <4>4
    <3> QED
      BY <3>2, <3>3
  <2>5. CASE cfg.strategy # "remove"
    <3>1. w = PathSet(v, p, Mask)
      BY <1>4, <2>5 DEF SanitizeField
    <3>2. CASE Is(v, "object")
      BY <1>4, <2>2, <3>1, <3>2, MaskedIsCut
    <3>3. CASE ~Is(v, "object")
      <4>1. w = v
        BY <3>1, <3>3 DEF PathSet
      <4>2. 0 \in 0..N - 1
        OBVIOUS
      <4>3. Is(v, "array")
        BY <2>1, <2>3, <3>3, <4>2
      <4>4. ~NoArrays(v, p)
        BY <1>2, <2>3, <4>2, <4>3 DEF NoArrays
      <4> QED
        BY <4>1, <4>4
    <3> QED
      BY <3>2, <3>3
  <2> QED
    BY <2>4, <2>5
<1> QED
  BY <1>3, <1>4

\* After a cut every other path leads where it led, or to something barren, or
\* along the path that was cut.
LEMMA CutLeads ==
    ASSUME NEW v, NEW w, NEW p \in JsonPath, IsCut(v, w, p), NEW q \in JsonPath
    PROVE  \A n \in 0..Len(q) :
                \/ Along(w, q)[n] = Along(v, q)[n]
                \/ Barren(Along(w, q)[n])
                \/ n < Len(p) /\ Along(w, q)[n] = Along(w, p)[n] /\ Along(v, q)[n] = Along(v, p)[n]
<1>1. p \in Seq(STRING) /\ p # <<>> /\ q \in Seq(STRING)
  BY DEF JsonPath
<1>2. PICK N \in Nat \ {0} : N = Len(p)
  BY <1>1
<1>3. PICK M \in Nat : M = Len(q)
  BY <1>1
<1>4. PICK a : a = Along(v, q)
  OBVIOUS
<1>5. PICK b : b = Along(w, q)
  OBVIOUS
<1>6. PICK c : c = Along(v, p)
  OBVIOUS
<1>7. PICK d : d = Along(w, p)
  OBVIOUS
<1>8. IsAlong(a, v, q) /\ IsAlong(b, w, q) /\ IsAlong(c, v, p) /\ IsAlong(d, w, p)
  BY <1>1, <1>4, <1>5, <1>6, <1>7, AlongSteps
<1>9. /\ a[0] = v /\ b[0] = w /\ c[0] = v /\ d[0] = w
      /\ \A n \in 1..M : a[n] = Field(a[n - 1], q[n]) /\ b[n] = Field(b[n - 1], q[n])
      /\ \A n \in 1..N : c[n] = Field(c[n - 1], p[n]) /\ d[n] = Field(d[n - 1], p[n])
  BY <1>2, <1>3, <1>8 DEF IsAlong
<1>10. /\ \A n \in 0..N - 1 : \A k : k # p[n + 1] => Field(d[n], k) = Field(c[n], k) \/ Field(d[n], k) = NoValue
       /\ Barren(d[N])
  BY <1>2, <1>6, <1>7 DEF IsCut, PathGet
<1> DEFINE Ok(n) == b[n] = a[n] \/ Barren(b[n]) \/ (n < N /\ b[n] = d[n] /\ a[n] = c[n])
           T == {n \in Nat : n <= M => Ok(n)}
<1>11. 0 \in T
  BY <1>9
<1>12. ASSUME NEW n \in Nat, n \in T PROVE n + 1 \in T
  <2> SUFFICES ASSUME n + 1 <= M PROVE Ok(n + 1)
    OBVIOUS
  <2>1. n + 1 \in 1..M /\ n <= M /\ (n + 1) - 1 = n
    OBVIOUS
  <2>2. Ok(n)
    BY <1>12, <2>1
  <2>3. PICK key : key = q[n + 1]
    OBVIOUS
  <2>4. a[n + 1] = Field(a[n], key) /\ b[n + 1] = Field(b[n], key)
    BY <1>9, <2>1, <2>3
  <2>5. CASE b[n] = a[n]
    BY <2>4, <2>5
  <2>6. CASE Barren(b[n])
    <3>1. b[n + 1] = NoValue
      BY <2>4, <2>6, BarrenIs
    <3> QED
      BY <3>1 DEF Barren
  <2>7. CASE n < N /\ b[n] = d[n] /\ a[n] = c[n]
    <3>1. n \in 0..N - 1 /\ n + 1 \in 1..N
      BY <2>7
    <3>2. c[n + 1] = Field(c[n], p[n + 1]) /\ d[n + 1] = Field(d[n], p[n + 1])
      BY <1>9, <2>1, <3>1
    <3>3. CASE key = p[n + 1]
      <4>1. b[n + 1] = d[n + 1] /\ a[n + 1] = c[n + 1]
        BY <2>4, <2>7, <3>2, <3>3
      <4>2. CASE n + 1 = N
        BY <1>10, <4>1, <4>2
      <4>3. CASE n + 1 # N
        <5>1. n + 1 < N
          BY <3>1, <4>3
        <5> QED
          BY <4>1, <5>1
      <4> QED
        BY <4>2, <4>3
    <3>4. CASE key # p[n + 1]
      <4>1. Field(d[n], key) = Field(c[n], key) \/ Field(d[n], key) = NoValue
        BY <1>10, <3>1, <3>4
      <4>2. b[n + 1] = a[n + 1] \/ b[n + 1] = NoValue
        BY <2>4, <2>7, <4>1
      <4> QED
        BY <4>2 DEF Barren
    <3> QED
      BY <3>3, <3>4
  <2> QED
    BY <2>2, <2>5, <2>6, <2>7
<1>13. \A n \in Nat : n \in T
  <2> HIDE DEF T
  <2> QED
    BY <1>11, <1>12, Numbers!NumberInduction
<1>14. \A n \in 0..M : Ok(n)
  BY <1>13
<1> QED
  BY <1>2, <1>3, <1>4, <1>5, <1>6, <1>7, <1>14

\* So no array comes on the way of another path, and what is gone stays so.
LEMMA CutKeeps ==
    ASSUME NEW v, NEW w, NEW p \in JsonPath, IsCut(v, w, p), PathGet(v, p) # NoValue, NEW q \in JsonPath
    PROVE  /\ NoArrays(v, q) => NoArrays(w, q)
           /\ NothingAt(v, q) => NothingAt(w, q)
<1>1. p \in Seq(STRING) /\ p # <<>> /\ q \in Seq(STRING)
  BY DEF JsonPath
<1>2. PICK N \in Nat \ {0} : N = Len(p)
  BY <1>1
<1>3. PICK M \in Nat : M = Len(q)
  BY <1>1
<1>4. PICK a : a = Along(v, q)
  OBVIOUS
<1>5. PICK b : b = Along(w, q)
  OBVIOUS
<1>6. PICK c : c = Along(v, p)
  OBVIOUS
<1>7. PICK d : d = Along(w, p)
  OBVIOUS
<1>8. \A n \in 0..M : b[n] = a[n] \/ Barren(b[n]) \/ (n < N /\ b[n] = d[n] /\ a[n] = c[n])
  BY <1>2, <1>3, <1>4, <1>5, <1>6, <1>7, CutLeads
<1>9. \A n \in 0..N - 1 : Is(d[n], "object")
  BY <1>2, <1>7 DEF IsCut
<1>10. ASSUME NoArrays(v, q) PROVE NoArrays(w, q)
  <2> SUFFICES ASSUME NEW n \in 0..M - 1 PROVE ~Is(b[n], "array")
    BY <1>3, <1>5 DEF NoArrays
  <2>1. n \in 0..M
    OBVIOUS
  <2>2. CASE b[n] = a[n]
    BY <1>3, <1>4, <1>10, <2>2 DEF NoArrays
  <2>3. CASE Barren(b[n])
    BY <2>3, BarrenIs
  <2>4. CASE n < N /\ b[n] = d[n]
    <3>1. n \in 0..N - 1
      BY <2>4
    <3>2. Is(b[n], "object")
      BY <1>9, <2>4, <3>1
    <3> QED
      BY <3>2 DEF Is
  <2> QED
    BY <1>8, <2>1, <2>2, <2>3, <2>4
<1>11. ASSUME NothingAt(v, q) PROVE NothingAt(w, q)
  <2>1. PathGet(v, q) = a[M] /\ PathGet(w, q) = b[M]
    BY <1>3, <1>4, <1>5 DEF PathGet
  <2>2. Barren(a[M])
    BY <1>11, <2>1 DEF NothingAt
  <2>3. CASE b[M] = a[M] \/ Barren(b[M])
    BY <2>1, <2>2, <2>3 DEF NothingAt
  <2>4. CASE M < N /\ a[M] = c[M]
    <3>1. Barren(c[M])
      BY <2>2, <2>4
    <3>2. M \in 0..N - 1
      BY <2>4
    <3>3. Is(c[M], "object") \/ Is(c[M], "array")
      BY <1>2, <1>6, <3>2, WayIsThere
    <3> QED
      BY <3>1, <3>3, BarrenIs
  <2>5. M \in 0..M
    OBVIOUS
  <2> QED
    BY <1>8, <2>3, <2>4, <2>5
<1> QED
  BY <1>10, <1>11

\* What each listed field leaves.
IsSanitizing(listed, cfg, payload) ==
    /\ DOMAIN listed = 0..Len(cfg.fields) /\ listed[0] = payload
    /\ \A n \in 1..Len(cfg.fields) : listed[n] = SanitizeField(cfg, listed[n - 1], cfg.fields[n])
Sanitized(cfg, last) == IF cfg.detectPatterns THEN ScanAndSanitize(last) ELSE last
Stamped(cfg, clean) == IF Is(clean, "object") THEN With(clean, "_sanitized", Text(cfg.strategy)) ELSE clean

\* The fields are taken one after the other, then the patterns.
LEMMA SanitizeIs ==
    ASSUME NEW cfg, NEW payload, NEW S, cfg.fields \in Seq(S)
    PROVE  \E listed : /\ IsSanitizing(listed, cfg, payload)
                       /\ SanitizeNode(cfg, payload)
                            = Out(Emit("output", Stamped(cfg, Sanitized(cfg, listed[Len(cfg.fields)]))))
<1> DEFINE N == Len(cfg.fields)
           base == payload
           E(x, n) == SanitizeField(cfg, x, cfg.fields[n])
           Step(g, k) == [n \in 0..k |-> IF n = 0 THEN base ELSE E(g[n - 1], n)]
           T == {k \in Nat : \E g : g = Step(g, k)}
<1>1. N \in Nat
  BY DEF N
<1>2. PICK f : f = CHOOSE g : g = Step(g, N)
  OBVIOUS
<1>3. SanitizeNode(cfg, payload) = Out(Emit("output", Stamped(cfg, Sanitized(cfg, f[N]))))
  BY <1>2 DEF SanitizeNode, N, base, E, Step, Sanitized, Stamped
<1> HIDE DEF N, base, E
<1>4. 0 \in T
  <2>1. PICK g : g = [n \in 0..0 |-> base]
    OBVIOUS
  <2>2. g = Step(g, 0)
    BY <2>1
  <2> QED
    BY <2>2
<1>5. ASSUME NEW k \in Nat, k \in T PROVE k + 1 \in T
  <2>1. PICK g : g = Step(g, k)
    BY <1>5
  <2>2. PICK h : h = [n \in 0..k + 1 |-> IF n = k + 1 THEN E(g[k], k + 1) ELSE g[n]]
    OBVIOUS
  <2>3. \A n \in 0..k : h[n] = g[n] /\ g[n] = IF n = 0 THEN base ELSE E(g[n - 1], n)
    BY <2>1, <2>2
  <2>4. h[k + 1] = E(h[k], k + 1)
    BY <2>2, <2>3
  <2>5. \A n \in 0..k + 1 : h[n] = IF n = 0 THEN base ELSE E(h[n - 1], n)
    <3> SUFFICES ASSUME NEW n \in 0..k + 1 PROVE h[n] = IF n = 0 THEN base ELSE E(h[n - 1], n)
      OBVIOUS
    <3>1. CASE n = k + 1
      BY <2>4, <3>1
    <3>2. CASE n # k + 1
      <4>1. n \in 0..k /\ (n # 0 => n - 1 \in 0..k)
        BY <3>2
      <4> QED
        BY <2>3, <4>1
    <3> QED
      BY <3>1, <3>2
  <2>6. h = Step(h, k + 1)
    <3>1. h = [n \in 0..k + 1 |-> h[n]]
      BY <2>2
    <3> QED
      BY <2>5, <3>1
  <2> QED
    BY <2>6
<1>6. \E g : g = Step(g, N)
  <2>1. N \in T
    <3> HIDE DEF T
    <3> QED
      BY <1>1, <1>4, <1>5, Numbers!NumberInduction
  <2> QED
    BY <2>1
<1>7. f = Step(f, N)
  <2> HIDE DEF Step
  <2> QED
    BY <1>2, <1>6
<1>8. DOMAIN f = 0..N /\ f[0] = base /\ \A n \in 1..N : f[n] = E(f[n - 1], n)
  BY <1>1, <1>7
<1> QED
  BY <1>3, <1>8 DEF N, base, E, IsSanitizing

\* In the end every listed field is gone that has no array on its way.
LEMMA FieldsAreGone ==
    ASSUME NEW cfg, NEW payload, cfg.fields \in Seq(JsonPath), NEW listed, IsSanitizing(listed, cfg, payload),
           NEW q \in ToSet(cfg.fields), NoArrays(payload, q)
    PROVE  NothingAt(listed[Len(cfg.fields)], q)
<1>1. PICK fields \in Seq(JsonPath) : fields = cfg.fields
  OBVIOUS
<1>2. PICK N \in Nat : N = Len(fields)
  BY <1>1
<1>3. PICK j \in 1..N : q = fields[j]
  BY <1>1, <1>2 DEF ToSet
<1>4. \A n \in 1..N : fields[n] \in JsonPath
  BY <1>1, <1>2
<1>5. q \in JsonPath
  BY <1>3, <1>4
<1>6. listed[0] = payload /\ \A n \in 1..N : listed[n] = SanitizeField(cfg, listed[n - 1], fields[n])
  BY <1>1, <1>2 DEF IsSanitizing
<1> DEFINE Ok(n) == NoArrays(listed[n], q) /\ (n >= j => NothingAt(listed[n], q))
           T == {n \in Nat : n <= N => Ok(n)}
<1>7. 0 \in T
  BY <1>3, <1>6
<1>8. ASSUME NEW n \in Nat, n \in T PROVE n + 1 \in T
  <2> SUFFICES ASSUME n + 1 <= N PROVE Ok(n + 1)
    OBVIOUS
  <2>1. n + 1 \in 1..N /\ n <= N /\ (n + 1) - 1 = n
    OBVIOUS
  <2>2. Ok(n)
    BY <1>8, <2>1
  <2>3. PICK v : v = listed[n]
    OBVIOUS
  <2>4. PICK w : w = listed[n + 1]
    OBVIOUS
  <2>5. PICK p \in JsonPath : p = fields[n + 1]
    BY <1>4, <2>1
  <2>6. w = SanitizeField(cfg, v, p)
    BY <1>6, <2>1, <2>3, <2>4, <2>5
  <2>7. /\ w = v \/ (PathGet(v, p) # NoValue /\ IsCut(v, w, p))
        /\ NoArrays(v, p) => NothingAt(w, p)
    BY <2>6, FieldIsCut
  <2>8. (NoArrays(v, q) => NoArrays(w, q)) /\ (NothingAt(v, q) => NothingAt(w, q))
    <3>1. CASE w = v
      BY <3>1
    <3>2. CASE PathGet(v, p) # NoValue /\ IsCut(v, w, p)
      BY <1>5, <3>2, CutKeeps
    <3> QED
      BY <2>7, <3>1, <3>2
  <2>9. NoArrays(v, q) /\ NoArrays(w, q)
    BY <2>2, <2>3, <2>8
  <2>10. ASSUME n + 1 >= j PROVE NothingAt(w, q)
    <3>1. CASE n + 1 = j
      <4>1. p = q
        BY <1>3, <2>5, <3>1
      <4> QED
        BY <2>7, <2>9, <4>1
    <3>2. CASE n + 1 # j
      <4>1. n >= j
        BY <1>3, <2>10, <3>2
      <4> QED
        BY <2>2, <2>3, <2>8, <4>1
    <3> QED
      BY <3>1, <3>2
  <2> QED
    BY <2>4, <2>9, <2>10
<1>9. \A n \in Nat : n \in T
  <2> HIDE DEF T
  <2> QED
    BY <1>7, <1>8, Numbers!NumberInduction
<1>10. N \in Nat /\ N <= N /\ N >= j
  BY <1>3
<1>11. Ok(N)
  BY <1>9, <1>10
<1> QED
  BY <1>1, <1>2, <1>10, <1>11

\* The kinds of a value exclude each other.
LEMMA TextsAre ==
    ASSUME NEW s
    PROVE  Is(Text(s), "text") /\ ~Is(Text(s), "object") /\ ~Is(Text(s), "array") /\ Text(s).text = s
<1>1. PICK e : e = Text(s)
  OBVIOUS
<1>2. DOMAIN e = {"text"} /\ e.text = s
  BY <1>1 DEF Text
<1> QED
  BY <1>1, <1>2 DEF Is

\* An object is no text and no array, and holds its fields.
LEMMA ObjectsAre ==
    ASSUME NEW f
    PROVE  Is(Object(f), "object") /\ ~Is(Object(f), "text") /\ ~Is(Object(f), "array") /\ Object(f).object = f
<1>1. PICK e : e = Object(f)
  OBVIOUS
<1>2. DOMAIN e = {"object"} /\ e.object = f
  BY <1>1 DEF Object
<1> QED
  BY <1>1, <1>2 DEF Is

\* An array is no text and no object, and holds its items.
LEMMA ArraysAre ==
    ASSUME NEW f
    PROVE  Is(Array(f), "array") /\ ~Is(Array(f), "text") /\ ~Is(Array(f), "object") /\ Array(f).array = f
<1>1. PICK e : e = Array(f)
  OBVIOUS
<1>2. DOMAIN e = {"array"} /\ e.array = f
  BY <1>1 DEF Array
<1> QED
  BY <1>1, <1>2 DEF Is

\* What a value is made of, by its kind.
LEMMA ChildrenAre ==
    ASSUME NEW v
    PROVE  /\ Is(v, "object") => Children(v) = {v.object[k] : k \in DOMAIN v.object}
           /\ Is(v, "array") => Children(v) = {v.array[i] : i \in DOMAIN v.array}
           /\ ~Is(v, "object") /\ ~Is(v, "array") => Children(v) = {}
<1>1. ~(Is(v, "object") /\ Is(v, "array"))
  BY DEF Is
<1> QED
  BY <1>1 DEF Children

\* What a pattern matches.
Secret == Text("secret")

\* A text that a pattern matches is no mask, no object and no array.
LEMMA SecretIs ==
    /\ Mask # Secret /\ ~Is(Secret, "object") /\ ~Is(Secret, "array") /\ NoValue # Secret
<1>1. Text("***").text = "***" /\ Text("secret").text = "secret"
  BY TextsAre
<1>2. Is(Secret, "text") /\ ~Is(Secret, "object") /\ ~Is(Secret, "array")
  BY TextsAre DEF Secret
<1>3. ~Is(NoValue, "text")
  <2>1. PICK e : e = NoValue
    OBVIOUS
  <2>2. DOMAIN e = {"novalue"}
    BY <2>1 DEF NoValue
  <2> QED
    BY <2>1, <2>2 DEF Is
<1> QED
  BY <1>1, <1>2, <1>3 DEF Secret, Mask

\* Every level is what the one above is made of.
LEMMA LevelsAre ==
    ASSUME NEW v
    PROVE  /\ Levels(v)[0] = {v}
           /\ \A n \in 1..MaxDepth : Levels(v)[n] = UNION {Children(x) : x \in Levels(v)[n - 1]}
<1> DEFINE N == MaxDepth
           base == {v}
           E(x, n) == UNION {Children(y) : y \in x}
           Step(g, k) == [n \in 0..k |-> IF n = 0 THEN base ELSE E(g[n - 1], n)]
           T == {k \in Nat : \E g : g = Step(g, k)}
<1>1. N \in Nat
  BY DepthAssumption DEF N
<1>2. PICK f : f = CHOOSE g : g = Step(g, N)
  OBVIOUS
<1>3. Levels(v) = f
  BY <1>2 DEF Levels, N, base, E, Step
<1> HIDE DEF N, base, E
<1>4. 0 \in T
  <2>1. PICK g : g = [n \in 0..0 |-> base]
    OBVIOUS
  <2>2. g = Step(g, 0)
    BY <2>1
  <2> QED
    BY <2>2
<1>5. ASSUME NEW k \in Nat, k \in T PROVE k + 1 \in T
  <2>1. PICK g : g = Step(g, k)
    BY <1>5
  <2>2. PICK h : h = [n \in 0..k + 1 |-> IF n = k + 1 THEN E(g[k], k + 1) ELSE g[n]]
    OBVIOUS
  <2>3. \A n \in 0..k : h[n] = g[n] /\ g[n] = IF n = 0 THEN base ELSE E(g[n - 1], n)
    BY <2>1, <2>2
  <2>4. h[k + 1] = E(h[k], k + 1)
    BY <2>2, <2>3
  <2>5. \A n \in 0..k + 1 : h[n] = IF n = 0 THEN base ELSE E(h[n - 1], n)
    <3> SUFFICES ASSUME NEW n \in 0..k + 1 PROVE h[n] = IF n = 0 THEN base ELSE E(h[n - 1], n)
      OBVIOUS
    <3>1. CASE n = k + 1
      BY <2>4, <3>1
    <3>2. CASE n # k + 1
      <4>1. n \in 0..k /\ (n # 0 => n - 1 \in 0..k)
        BY <3>2
      <4> QED
        BY <2>3, <4>1
    <3> QED
      BY <3>1, <3>2
  <2>6. h = Step(h, k + 1)
    <3>1. h = [n \in 0..k + 1 |-> h[n]]
      BY <2>2
    <3> QED
      BY <2>5, <3>1
  <2> QED
    BY <2>6
<1>6. \E g : g = Step(g, N)
  <2>1. N \in T
    <3> HIDE DEF T
    <3> QED
      BY <1>1, <1>4, <1>5, Numbers!NumberInduction
  <2> QED
    BY <2>1
<1>7. f = Step(f, N)
  <2> HIDE DEF Step
  <2> QED
    BY <1>2, <1>6
<1>8. DOMAIN f = 0..N /\ f[0] = base /\ \A n \in 1..N : f[n] = E(f[n - 1], n)
  BY <1>1, <1>7
<1> QED
  BY <1>3, <1>8 DEF N, base, E

\* What is in a value is in one of its parts, a level higher.
LEMMA LevelsOfParts ==
    ASSUME NEW v, NEW n \in Nat, n + 1 <= MaxDepth, NEW z \in Levels(v)[n + 1]
    PROVE  \E c \in Children(v) : z \in Levels(c)[n]
<1>1. PICK N \in Nat : N = MaxDepth
  BY DepthAssumption
<1>2. \A x : Levels(x)[0] = {x} /\ \A k \in 1..N : Levels(x)[k] = UNION {Children(y) : y \in Levels(x)[k - 1]}
  BY <1>1, LevelsAre
<1> DEFINE T == {k \in Nat : k + 1 <= N => \A y \in Levels(v)[k + 1] : \E c \in Children(v) : y \in Levels(c)[k]}
<1>3. 0 \in T
  <2> SUFFICES ASSUME 1 <= N, NEW y \in Levels(v)[0 + 1] PROVE \E c \in Children(v) : y \in Levels(c)[0]
    OBVIOUS
  <2>1. 0 + 1 = 1 /\ 1 \in 1..N /\ 1 - 1 = 0
    OBVIOUS
  <2>2. Levels(v)[1] = UNION {Children(x) : x \in Levels(v)[0]}
    BY <1>2, <2>1
  <2>3. y \in Children(v)
    BY <1>2, <2>1, <2>2
  <2>4. y \in Levels(y)[0]
    BY <1>2
  <2> QED
    BY <2>3, <2>4
<1>4. ASSUME NEW k \in Nat, k \in T PROVE k + 1 \in T
  <2> SUFFICES ASSUME (k + 1) + 1 <= N, NEW y \in Levels(v)[(k + 1) + 1]
               PROVE  \E c \in Children(v) : y \in Levels(c)[k + 1]
    OBVIOUS
  <2>1. k + 1 <= N /\ (k + 1) + 1 \in 1..N /\ ((k + 1) + 1) - 1 = k + 1 /\ k + 1 \in 1..N /\ (k + 1) - 1 = k
    BY <1>1
  <2>2. Levels(v)[(k + 1) + 1] = UNION {Children(x) : x \in Levels(v)[k + 1]}
    BY <1>2, <2>1
  <2>3. PICK x \in Levels(v)[k + 1] : y \in Children(x)
    BY <2>2
  <2>4. PICK c \in Children(v) : x \in Levels(c)[k]
    BY <1>4, <2>1, <2>3
  <2>5. Levels(c)[k + 1] = UNION {Children(u) : u \in Levels(c)[k]}
    BY <1>2, <2>1
  <2>6. y \in Levels(c)[k + 1]
    BY <2>3, <2>4, <2>5
  <2> QED
    BY <2>6
<1>5. \A k \in Nat : k \in T
  <2> HIDE DEF T
  <2> QED
    BY <1>3, <1>4, Numbers!NumberInduction
<1> QED
  BY <1>1, <1>5

\* What the scan makes of the values of a level, `below` being what it makes of their parts.
ScannedAll(below, v, n) == [x \in Levels(v)[MaxDepth - n] |-> Scanned(below, x, n)]
IsScanning(clean, v) == \A n \in 0..MaxDepth : clean[n] = ScannedAll(clean[n - 1], v, n)

\* A text that a pattern matches is masked; other values of no parts stay as they are.
LEMMA LeavesAre ==
    ASSUME NEW below, NEW x, NEW n \in Nat
    PROVE  /\ x = Secret => Scanned(below, x, n) = Mask
           /\ x # Secret /\ (n = 0 \/ (~Is(x, "object") /\ ~Is(x, "array"))) => Scanned(below, x, n) = x
<1>1. x = Secret => ~Is(x, "object") /\ ~Is(x, "array")
  BY SecretIs
<1>2. CASE x = Secret
  BY <1>1, <1>2 DEF Scanned, Secret
<1>3. CASE x # Secret
  BY <1>3 DEF Scanned, Secret
<1> QED
  BY <1>2, <1>3

\* Objects and arrays are scanned in each of their parts.
LEMMA ScannedIs ==
    ASSUME NEW below, NEW x, NEW n \in Nat
    PROVE  /\ x # Secret /\ n > 0 /\ Is(x, "object")
                => Scanned(below, x, n) = Object([k \in DOMAIN x.object |-> below[x.object[k]]])
           /\ x # Secret /\ n > 0 /\ Is(x, "array")
                => Scanned(below, x, n) = Array([i \in DOMAIN x.array |-> below[x.array[i]]])
<1>1. ~(Is(x, "object") /\ Is(x, "array"))
  BY DEF Is
<1>2. x = Secret => ~Is(x, "object") /\ ~Is(x, "array")
  BY SecretIs
<1>3. CASE x = Secret
  BY <1>2, <1>3 DEF Scanned, Secret
<1>4. CASE x # Secret
  BY <1>1, <1>4 DEF Scanned, Secret
<1> QED
  BY <1>3, <1>4

\* The scan is what it is, from the deepest level upwards.
LEMMA ScanIs ==
    ASSUME NEW v
    PROVE  \E clean : IsScanning(clean, v) /\ ScanAndSanitize(v) = clean[MaxDepth][v]
<1> DEFINE N == MaxDepth
           base == ScannedAll(<<>>, v, 0)
           Step(g, k) == [n \in 0..k |-> ScannedAll(g[n - 1], v, n)]
           T == {k \in Nat : \E g : g = Step(g, k)}
<1>1. N \in Nat
  BY DepthAssumption
<1>2. PICK f : f = CHOOSE g : g = Step(g, N)
  OBVIOUS
<1>3. ScanAndSanitize(v) = f[N][v]
  <2>1. ScanAndSanitize(v) = (CHOOSE g : g = Step(g, N))[N][v]
    BY DEF ScanAndSanitize, ScannedAll
  <2> QED
    BY <1>2, <2>1
<1>4. \A below : ScannedAll(below, v, 0) = base
  <2> SUFFICES ASSUME NEW below PROVE ScannedAll(below, v, 0) = base
    OBVIOUS
  <2>1. \A x : Scanned(below, x, 0) = Scanned(<<>>, x, 0)
    <3> SUFFICES ASSUME NEW x PROVE Scanned(below, x, 0) = Scanned(<<>>, x, 0)
      OBVIOUS
    <3>1. CASE x = Secret
      BY <3>1, LeavesAre
    <3>2. CASE x # Secret
      BY <3>2, LeavesAre
    <3> QED
      BY <3>1, <3>2
  <2> QED
    BY <2>1 DEF ScannedAll
<1> HIDE DEF N, base
<1>5. 0 \in T
  <2>1. PICK g : g = [n \in 0..0 |-> base]
    OBVIOUS
  <2>2. g = Step(g, 0)
    BY <1>4, <2>1
  <2> QED
    BY <2>2
<1>6. ASSUME NEW k \in Nat, k \in T PROVE k + 1 \in T
  <2>1. PICK g : g = Step(g, k)
    BY <1>6
  <2>2. PICK h : h = [n \in 0..k + 1 |-> IF n = k + 1 THEN ScannedAll(g[k], v, k + 1) ELSE g[n]]
    OBVIOUS
  <2>3. \A n \in 0..k : h[n] = g[n] /\ g[n] = ScannedAll(g[n - 1], v, n)
    BY <2>1, <2>2
  <2>4. h[k + 1] = ScannedAll(h[k], v, k + 1)
    BY <2>2, <2>3
  <2>5. ASSUME NEW n \in 0..k + 1 PROVE h[n] = ScannedAll(h[n - 1], v, n)
    <3>1. CASE n = k + 1
      <4>1. n - 1 = k
        BY <3>1
      <4> QED
        BY <2>4, <3>1, <4>1
    <3>2. CASE n = 0
      <4>1. h[0] = ScannedAll(g[0 - 1], v, 0)
        BY <2>3
      <4>2. h[0] = base
        BY <1>4, <4>1
      <4>3. ScannedAll(h[n - 1], v, 0) = base
        BY <1>4
      <4> QED
        BY <3>2, <4>2, <4>3
    <3>3. CASE n # k + 1 /\ n # 0
      <4>1. n \in 0..k /\ n - 1 \in 0..k
        BY <3>3
      <4> QED
        BY <2>3, <4>1
    <3> QED
      BY <3>1, <3>2, <3>3
  <2>6. h = Step(h, k + 1)
    <3>1. h = [n \in 0..k + 1 |-> h[n]]
      BY <2>2
    <3> QED
      BY <2>5, <3>1
  <2> QED
    BY <2>6
<1>7. \E g : g = Step(g, N)
  <2>1. N \in T
    <3> HIDE DEF T
    <3> QED
      BY <1>1, <1>5, <1>6, Numbers!NumberInduction
  <2> QED
    BY <2>1
<1>8. f = Step(f, N)
  <2> HIDE DEF Step
  <2> QED
    BY <1>2, <1>7
<1>9. \A n \in 0..N : f[n] = ScannedAll(f[n - 1], v, n)
  BY <1>8
<1> QED
  BY <1>3, <1>9 DEF N, IsScanning

\* What is one level up is one level down what the scan made of it.
LEMMA ScanSteps ==
    ASSUME NEW clean, NEW v, IsScanning(clean, v), NEW n \in Nat, n <= MaxDepth
    PROVE  /\ \A x \in Levels(v)[MaxDepth - n] : clean[n][x] = Scanned(clean[n - 1], x, n)
           /\ n > 0 => \A x \in Levels(v)[MaxDepth - n] : \A c \in Children(x) : c \in Levels(v)[MaxDepth - (n - 1)]
<1>1. PICK N \in Nat : N = MaxDepth
  BY DepthAssumption
<1>2. n \in 0..N
  BY <1>1
<1>3. clean[n] = ScannedAll(clean[n - 1], v, n)
  BY <1>1, <1>2 DEF IsScanning
<1>4. \A x \in Levels(v)[MaxDepth - n] : clean[n][x] = Scanned(clean[n - 1], x, n)
  BY <1>3 DEF ScannedAll
<1>5. ASSUME n > 0 PROVE \A x \in Levels(v)[MaxDepth - n] : \A c \in Children(x) : c \in Levels(v)[MaxDepth - (n - 1)]
  <2>1. N - (n - 1) \in 1..N /\ (N - (n - 1)) - 1 = N - n
    BY <1>1, <1>2, <1>5
  <2>2. Levels(v)[N - (n - 1)] = UNION {Children(x) : x \in Levels(v)[N - n]}
    BY <1>1, <2>1, LevelsAre
  <2> QED
    BY <1>1, <2>2
<1> QED
  BY <1>4, <1>5

\* The parts of what is scanned are the scanned parts, and itself it is no secret.
LEMMA ScannedParts ==
    ASSUME NEW below, NEW x, NEW n \in Nat
    PROVE  /\ Scanned(below, x, n) # Secret
           /\ n > 0 => \A c \in Children(Scanned(below, x, n)) : \E z \in Children(x) : c = below[z]
<1>1. CASE x = Secret
  <2>1. Scanned(below, x, n) = Mask
    BY <1>1, LeavesAre
  <2>2. ~Is(Mask, "object") /\ ~Is(Mask, "array")
    BY TextsAre DEF Mask
  <2>3. Children(Mask) = {}
    BY <2>2, ChildrenAre
  <2> QED
    BY <2>1, <2>3, SecretIs
<1>2. CASE x # Secret /\ n > 0 /\ Is(x, "object")
  <2>1. PICK f : f = [k \in DOMAIN x.object |-> below[x.object[k]]]
    OBVIOUS
  <2>2. Scanned(below, x, n) = Object(f)
    BY <1>2, <2>1, ScannedIs
  <2>3. PICK y : y = Object(f)
    OBVIOUS
  <2>4. Is(y, "object") /\ y.object = f
    BY <2>3, ObjectsAre
  <2>5. Children(y) = {f[k] : k \in DOMAIN f}
    BY <2>4, ChildrenAre
  <2>6. Children(x) = {x.object[k] : k \in DOMAIN x.object}
    BY <1>2, ChildrenAre
  <2>7. \A c \in Children(y) : \E z \in Children(x) : c = below[z]
    BY <2>1, <2>5, <2>6
  <2> QED
    BY <2>2, <2>3, <2>4, <2>7, SecretIs
<1>3. CASE x # Secret /\ n > 0 /\ Is(x, "array")
  <2>1. PICK f : f = [i \in DOMAIN x.array |-> below[x.array[i]]]
    OBVIOUS
  <2>2. Scanned(below, x, n) = Array(f)
    BY <1>3, <2>1, ScannedIs
  <2>3. PICK y : y = Array(f)
    OBVIOUS
  <2>4. Is(y, "array") /\ y.array = f
    BY <2>3, ArraysAre
  <2>5. Children(y) = {f[k] : k \in DOMAIN f}
    BY <2>4, ChildrenAre
  <2>6. Children(x) = {x.array[k] : k \in DOMAIN x.array}
    BY <1>3, ChildrenAre
  <2>7. \A c \in Children(y) : \E z \in Children(x) : c = below[z]
    BY <2>1, <2>5, <2>6
  <2> QED
    BY <2>2, <2>3, <2>4, <2>7, SecretIs
<1>4. CASE x # Secret /\ (n = 0 \/ (~Is(x, "object") /\ ~Is(x, "array")))
  <2>1. Scanned(below, x, n) = x
    BY <1>4, LeavesAre
  <2>2. n > 0 => Children(x) = {}
    BY <1>4, ChildrenAre
  <2> QED
    BY <1>4, <2>1, <2>2
<1> QED
  BY <1>1, <1>2, <1>3, <1>4

\* No secret is in what the scan makes of a value, at any level.
NoSecret(y, m) == \A k \in 0..m : Secret \notin Levels(y)[k]

\* After the scan no text that a pattern matches is left, as deep as a value goes.
LEMMA ScanFindsAll ==
    ASSUME NEW v
    PROVE  NoSecret(ScanAndSanitize(v), MaxDepth)
<1>1. PICK N \in Nat : N = MaxDepth
  BY DepthAssumption
<1>2. PICK clean : IsScanning(clean, v) /\ ScanAndSanitize(v) = clean[N][v]
  BY <1>1, ScanIs
<1> DEFINE T == {n \in Nat : n <= N => \A x \in Levels(v)[N - n] : NoSecret(clean[n][x], n)}
<1>3. ASSUME NEW n \in Nat, n <= N, NEW x \in Levels(v)[N - n] PROVE Secret \notin Levels(clean[n][x])[0]
  <2>1. clean[n][x] = Scanned(clean[n - 1], x, n)
    BY <1>1, <1>2, <1>3, ScanSteps
  <2>2. clean[n][x] # Secret
    BY <2>1, ScannedParts
  <2>3. Levels(clean[n][x])[0] = {clean[n][x]}
    BY LevelsAre
  <2> QED
    BY <2>2, <2>3
<1>4. 0 \in T
  <2> SUFFICES ASSUME NEW x \in Levels(v)[N - 0] PROVE NoSecret(clean[0][x], 0)
    OBVIOUS
  <2>1. Secret \notin Levels(clean[0][x])[0]
    BY <1>3
  <2> QED
    BY <2>1 DEF NoSecret
<1>5. ASSUME NEW n \in Nat, n \in T PROVE n + 1 \in T
  <2> SUFFICES ASSUME n + 1 <= N, NEW x \in Levels(v)[N - (n + 1)], NEW k \in 0..n + 1
               PROVE  Secret \notin Levels(clean[n + 1][x])[k]
    BY DEF NoSecret
  <2>1. n <= N /\ (n + 1) - 1 = n /\ n + 1 > 0 /\ n + 1 \in Nat
    BY <1>1
  <2>2. CASE k = 0
    BY <1>3, <2>1, <2>2
  <2>3. CASE k # 0
    <3>1. PICK j \in Nat : k = j + 1 /\ j \in 0..n /\ j + 1 <= MaxDepth
      <4>1. k - 1 \in Nat /\ k = (k - 1) + 1 /\ k - 1 \in 0..n /\ (k - 1) + 1 <= N
        BY <1>1, <2>3
      <4> QED
        BY <1>1, <4>1
    <3>2. PICK y : y = clean[n + 1][x]
      OBVIOUS
    <3>3. y = Scanned(clean[n], x, n + 1)
      BY <1>1, <1>2, <2>1, <3>2, ScanSteps
    <3> SUFFICES ASSUME Secret \in Levels(y)[j + 1] PROVE FALSE
      BY <3>1, <3>2
    <3>4. PICK c \in Children(y) : Secret \in Levels(c)[j]
      BY <3>1, LevelsOfParts
    <3>5. PICK z \in Children(x) : c = clean[n][z]
      BY <2>1, <3>3, <3>4, ScannedParts
    <3>6. z \in Levels(v)[N - n]
      BY <1>1, <1>2, <2>1, <3>5, ScanSteps
    <3>7. NoSecret(c, n)
      BY <1>5, <2>1, <3>5, <3>6
    <3> QED
      BY <3>1, <3>4, <3>7 DEF NoSecret
  <2> QED
    BY <2>2, <2>3
<1>6. \A n \in Nat : n \in T
  <2> HIDE DEF T
  <2> QED
    BY <1>4, <1>5, Numbers!NumberInduction
<1>7. v \in Levels(v)[N - N]
  <2>1. Levels(v)[0] = {v} /\ N - N = 0
    BY <1>1, LevelsAre
  <2> QED
    BY <2>1
<1>8. N \in T
  BY <1>1, <1>6
<1> QED
  BY <1>1, <1>2, <1>7, <1>8

\* A path leads in what is scanned to what the scan made of where it led, or to
\* something barren.
LEMMA ScanLeads ==
    ASSUME NEW v, NEW q \in JsonPath, NothingAt(v, q)
    PROVE  NothingAt(ScanAndSanitize(v), q)
<1>1. PICK N \in Nat : N = MaxDepth
  BY DepthAssumption
<1>2. PICK clean : IsScanning(clean, v) /\ ScanAndSanitize(v) = clean[N][v]
  BY <1>1, ScanIs
<1>3. q \in Seq(STRING)
  BY DEF JsonPath
<1>4. PICK M \in Nat : M = Len(q)
  BY <1>3
<1>5. PICK w : w = ScanAndSanitize(v)
  OBVIOUS
<1>6. PICK a : a = Along(v, q)
  OBVIOUS
<1>7. PICK b : b = Along(w, q)
  OBVIOUS
<1>8. IsAlong(a, v, q) /\ IsAlong(b, w, q)
  BY <1>3, <1>6, <1>7, AlongSteps
<1>9. /\ a[0] = v /\ b[0] = w
      /\ \A n \in 1..M : a[n] = Field(a[n - 1], q[n]) /\ b[n] = Field(b[n - 1], q[n])
  BY <1>4, <1>8 DEF IsAlong
<1> DEFINE Ok(n) == \/ b[n] = a[n] \/ Barren(b[n])
                    \/ n <= N /\ a[n] \in Levels(v)[n] /\ b[n] = clean[N - n][a[n]]
           T == {n \in Nat : n <= M => Ok(n)}
<1>10. 0 \in T
  <2>1. Levels(v)[0] = {v} /\ N - 0 = N /\ 0 <= N
    BY <1>1, LevelsAre
  <2> QED
    BY <1>2, <1>5, <1>9, <2>1
<1>11. ASSUME NEW n \in Nat, n \in T PROVE n + 1 \in T
  <2> SUFFICES ASSUME n + 1 <= M PROVE Ok(n + 1)
    OBVIOUS
  <2>1. n + 1 \in 1..M /\ n <= M /\ (n + 1) - 1 = n
    OBVIOUS
  <2>2. Ok(n)
    BY <1>11, <2>1
  <2>3. PICK key : key = q[n + 1]
    OBVIOUS
  <2>4. a[n + 1] = Field(a[n], key) /\ b[n + 1] = Field(b[n], key)
    BY <1>9, <2>1, <2>3
  <2>5. CASE b[n] = a[n]
    BY <2>4, <2>5
  <2>6. CASE Barren(b[n])
    <3>1. b[n + 1] = NoValue
      BY <2>4, <2>6, BarrenIs
    <3> QED
      BY <3>1 DEF Barren
  <2>7. CASE n <= N /\ a[n] \in Levels(v)[n] /\ b[n] = clean[N - n][a[n]]
    <3>1. PICK m \in Nat : m = N - n /\ m <= N /\ N - m = n
      <4>1. N - n \in Nat /\ N - n <= N /\ N - (N - n) = n
        BY <2>7
      <4> QED
        BY <4>1
    <3>2. PICK x : x = a[n]
      OBVIOUS
    <3>3. PICK y : y = b[n]
      OBVIOUS
    <3>4. x \in Levels(v)[MaxDepth - m]
      BY <1>1, <2>7, <3>1, <3>2
    <3>5. y = Scanned(clean[m - 1], x, m)
      <4>1. clean[m][x] = Scanned(clean[m - 1], x, m)
        BY <1>1, <1>2, <3>1, <3>4, ScanSteps
      <4> QED
        BY <2>7, <3>1, <3>2, <3>3, <4>1
    <3>6. ASSUME m > 0 PROVE /\ n + 1 <= N /\ m - 1 = N - (n + 1)
                             /\ \A c \in Children(x) : c \in Levels(v)[n + 1]
      <4>1. n + 1 <= N /\ m - 1 = N - (n + 1) /\ N - (m - 1) = n + 1
        BY <3>1, <3>6
      <4>2. \A c \in Children(x) : c \in Levels(v)[MaxDepth - (m - 1)]
        BY <1>1, <1>2, <3>1, <3>4, <3>6, ScanSteps
      <4> QED
        BY <1>1, <4>1, <4>2
    <3>7. CASE x = Secret
      <4>1. y = Mask
        BY <3>5, <3>7, LeavesAre
      <4>2. Barren(y)
        BY <4>1 DEF Barren
      <4>3. b[n + 1] = NoValue
        BY <2>4, <3>3, <4>2, BarrenIs
      <4> QED
        BY <4>3 DEF Barren
    <3>8. CASE x # Secret /\ m > 0 /\ Is(x, "object")
      <4>1. PICK f : f = [k \in DOMAIN x.object |-> clean[m - 1][x.object[k]]]
        OBVIOUS
      <4>2. y = Object(f)
        BY <3>5, <3>8, <4>1, ScannedIs
      <4>3. Is(y, "object") /\ ~Is(y, "array") /\ y.object = f
        BY <4>2, ObjectsAre
      <4>4. b[n + 1] = IF key \in DOMAIN f THEN f[key] ELSE NoValue
        BY <2>4, <3>3, <4>3 DEF Field, Member
      <4>5. CASE key \in DOMAIN x.object
        <5>1. ~Is(x, "array")
          BY <3>8 DEF Is
        <5>2. a[n + 1] = x.object[key]
          BY <2>4, <3>2, <3>8, <4>5, <5>1 DEF Field, Member
        <5>3. a[n + 1] \in Children(x)
          BY <3>8, <4>5, <5>2, ChildrenAre
        <5>4. b[n + 1] = clean[m - 1][a[n + 1]]
          BY <4>1, <4>4, <4>5, <5>2
        <5> QED
          BY <3>6, <3>8, <5>3, <5>4
      <4>6. CASE key \notin DOMAIN x.object
        BY <4>1, <4>4, <4>6 DEF Barren
      <4> QED
        BY <4>5, <4>6
    <3>9. CASE x # Secret /\ m > 0 /\ Is(x, "array")
      <4>1. PICK f : f = [i \in DOMAIN x.array |-> clean[m - 1][x.array[i]]]
        OBVIOUS
      <4>2. y = Array(f)
        BY <3>5, <3>9, <4>1, ScannedIs
      <4>3. Is(y, "array") /\ ~Is(y, "object") /\ y.array = f /\ DOMAIN f = DOMAIN x.array
        BY <4>1, <4>2, ArraysAre
      <4>4. CASE key \in DOMAIN Numerals /\ Numerals[key] + 1 \in DOMAIN x.array
        <5>1. PICK i \in DOMAIN x.array : i = Numerals[key] + 1
          BY <4>4
        <5>2. a[n + 1] = x.array[i]
          BY <2>4, <3>2, <3>9, <4>4, <5>1 DEF Field
        <5>3. b[n + 1] = f[i]
          BY <2>4, <3>3, <4>3, <4>4, <5>1 DEF Field
        <5>4. a[n + 1] \in Children(x)
          BY <3>9, <5>2, ChildrenAre
        <5>5. b[n + 1] = clean[m - 1][a[n + 1]]
          BY <4>1, <5>2, <5>3
        <5> QED
          BY <3>6, <3>9, <5>4, <5>5
      <4>5. CASE ~(key \in DOMAIN Numerals /\ Numerals[key] + 1 \in DOMAIN x.array)
        <5>1. b[n + 1] = NoValue
          BY <2>4, <3>3, <4>3, <4>5 DEF Field, Member
        <5> QED
          BY <5>1 DEF Barren
      <4> QED
        BY <4>4, <4>5
    <3>10. CASE x # Secret /\ (m = 0 \/ (~Is(x, "object") /\ ~Is(x, "array")))
      <4>1. y = x
        BY <3>5, <3>10, LeavesAre
      <4> QED
        BY <2>4, <3>2, <3>3, <4>1
    <3> QED
      BY <3>7, <3>8, <3>9, <3>10
  <2> QED
    BY <2>2, <2>5, <2>6, <2>7
<1>12. \A n \in Nat : n \in T
  <2> HIDE DEF T
  <2> QED
    BY <1>10, <1>11, Numbers!NumberInduction
<1>13. Ok(M)
  BY <1>12
<1>14. PathGet(v, q) = a[M] /\ PathGet(w, q) = b[M]
  BY <1>4, <1>6, <1>7 DEF PathGet
<1>15. Barren(a[M])
  BY <1>14 DEF NothingAt
<1>16. ASSUME M <= N, a[M] \in Levels(v)[M], b[M] = clean[N - M][a[M]] PROVE b[M] = a[M]
  <2>1. PICK m \in Nat : m = N - M /\ m <= N /\ N - m = M
    <3>1. N - M \in Nat /\ N - M <= N /\ N - (N - M) = M
      BY <1>16
    <3> QED
      BY <3>1
  <2>2. PICK x : x = a[M]
    OBVIOUS
  <2>3. x \in Levels(v)[MaxDepth - m]
    BY <1>1, <1>16, <2>1, <2>2
  <2>4. clean[m][x] = Scanned(clean[m - 1], x, m)
    BY <1>1, <1>2, <2>1, <2>3, ScanSteps
  <2>5. x # Secret /\ ~Is(x, "object") /\ ~Is(x, "array")
    BY <1>15, <2>2, BarrenIs, SecretIs DEF Barren
  <2>6. Scanned(clean[m - 1], x, m) = x
    BY <2>5, LeavesAre
  <2> QED
    BY <1>16, <2>1, <2>2, <2>4, <2>6
<1> QED
  BY <1>5, <1>13, <1>14, <1>15, <1>16 DEF NothingAt

\* What is made of fewer parts has fewer values at every level.
LEMMA LevelsOfFewer ==
    ASSUME NEW v, NEW w, Children(w) \subseteq Children(v), NEW n \in 1..MaxDepth
    PROVE  Levels(w)[n] \subseteq Levels(v)[n]
<1>1. PICK N \in Nat : N = MaxDepth
  BY DepthAssumption
<1>2. \A x : Levels(x)[0] = {x} /\ \A k \in 1..N : Levels(x)[k] = UNION {Children(y) : y \in Levels(x)[k - 1]}
  BY <1>1, LevelsAre
<1> DEFINE T == {k \in Nat : k + 1 <= N => Levels(w)[k + 1] \subseteq Levels(v)[k + 1]}
<1>3. 0 \in T
  <2> SUFFICES ASSUME 1 <= N PROVE Levels(w)[0 + 1] \subseteq Levels(v)[0 + 1]
    OBVIOUS
  <2>1. 0 + 1 = 1 /\ 1 \in 1..N /\ 1 - 1 = 0
    OBVIOUS
  <2>2. Levels(w)[1] = Children(w) /\ Levels(v)[1] = Children(v)
    <3>1. ASSUME NEW x PROVE Levels(x)[1] = Children(x)
      <4>1. Levels(x)[0] = {x} /\ Levels(x)[1] = UNION {Children(y) : y \in Levels(x)[1 - 1]}
        BY <1>2, <2>1
      <4>2. Levels(x)[1] = UNION {Children(y) : y \in {x}}
        BY <4>1, <2>1
      <4> QED
        BY <4>2
    <3> QED
      BY <3>1
  <2> QED
    BY <2>1, <2>2
<1>4. ASSUME NEW k \in Nat, k \in T PROVE k + 1 \in T
  <2> SUFFICES ASSUME (k + 1) + 1 <= N PROVE Levels(w)[(k + 1) + 1] \subseteq Levels(v)[(k + 1) + 1]
    OBVIOUS
  <2>1. k + 1 <= N /\ (k + 1) + 1 \in 1..N /\ ((k + 1) + 1) - 1 = k + 1
    BY <1>1
  <2>2. Levels(w)[k + 1] \subseteq Levels(v)[k + 1]
    BY <1>4, <2>1
  <2>3. /\ Levels(w)[(k + 1) + 1] = UNION {Children(y) : y \in Levels(w)[k + 1]}
        /\ Levels(v)[(k + 1) + 1] = UNION {Children(y) : y \in Levels(v)[k + 1]}
    BY <1>2, <2>1
  <2> QED
    BY <2>2, <2>3
<1>5. \A k \in Nat : k \in T
  <2> HIDE DEF T
  <2> QED
    BY <1>3, <1>4, Numbers!NumberInduction
<1>6. n - 1 \in Nat /\ (n - 1) + 1 = n /\ n <= N
  BY <1>1
<1> QED
  BY <1>5, <1>6

\* What the node writes under "_sanitized" is all that is new.
LEMMA StampHides ==
    ASSUME NEW y, Is(y, "object"), NoSecret(y, MaxDepth), NEW key, NEW new
    PROVE  NoSecret(Lacking(With(y, key, new), key), MaxDepth)
<1>1. PICK N \in Nat : N = MaxDepth
  BY DepthAssumption
<1>2. PICK f : f = y.object
  OBVIOUS
<1>3. PICK g : g = [k \in DOMAIN f \cup {key} |-> IF k = key THEN new ELSE f[k]]
  OBVIOUS
<1>4. PICK s : s = With(y, key, new)
  OBVIOUS
<1>5. s.object = g
  BY <1>2, <1>3, <1>4, ObjectsAre DEF With
<1>6. PICK h : h = [k \in DOMAIN g \ {key} |-> g[k]]
  OBVIOUS
<1>7. PICK o : o = Lacking(s, key)
  OBVIOUS
<1>8. Is(o, "object") /\ o.object = h
  BY <1>5, <1>6, <1>7, ObjectsAre DEF Lacking
<1>9. \A k \in DOMAIN h : k \in DOMAIN f /\ h[k] = f[k]
  BY <1>3, <1>6
<1>10. Children(o) \subseteq Children(y)
  <2>1. Children(o) = {h[k] : k \in DOMAIN h}
    BY <1>8, ChildrenAre
  <2>2. Children(y) = {f[k] : k \in DOMAIN f}
    BY <1>2, ChildrenAre
  <2> QED
    BY <1>9, <2>1, <2>2
<1>11. ASSUME NEW k \in 0..N PROVE Secret \notin Levels(o)[k]
  <2>1. CASE k = 0
    <3>1. Levels(o)[0] = {o}
      BY LevelsAre
    <3>2. o # Secret
      BY <1>8, SecretIs
    <3> QED
      BY <2>1, <3>1, <3>2
  <2>2. CASE k # 0
    <3>1. k \in 1..MaxDepth /\ k \in 0..MaxDepth
      BY <1>1, <2>2
    <3>2. Levels(o)[k] \subseteq Levels(y)[k]
      BY <1>10, <3>1, LevelsOfFewer
    <3>3. Secret \notin Levels(y)[k]
      BY <3>1 DEF NoSecret
    <3> QED
      BY <3>2, <3>3
  <2> QED
    BY <2>1, <2>2
<1> QED
  BY <1>1, <1>4, <1>7, <1>11 DEF NoSecret

\* A path that does not start there leads where it led.
LEMMA StampLeads ==
    ASSUME NEW y, Is(y, "object"), NEW key, NEW new, NEW q \in JsonPath, q[1] # key
    PROVE  PathGet(With(y, key, new), q) = PathGet(y, q)
<1>1. q \in Seq(STRING) /\ q # <<>>
  BY DEF JsonPath
<1>2. PICK M \in Nat \ {0} : M = Len(q)
  BY <1>1
<1>3. PICK w : w = With(y, key, new)
  OBVIOUS
<1>4. PICK a : a = Along(y, q)
  OBVIOUS
<1>5. PICK b : b = Along(w, q)
  OBVIOUS
<1>6. IsAlong(a, y, q) /\ IsAlong(b, w, q)
  BY <1>1, <1>4, <1>5, AlongSteps
<1>7. /\ a[0] = y /\ b[0] = w
      /\ \A n \in 1..M : a[n] = Field(a[n - 1], q[n]) /\ b[n] = Field(b[n - 1], q[n])
  BY <1>2, <1>6 DEF IsAlong
<1> DEFINE T == {n \in Nat : n + 1 <= M => a[n + 1] = b[n + 1]}
<1>8. 0 \in T
  <2>1. 1 \in 1..M /\ 1 - 1 = 0 /\ 0 + 1 = 1
    OBVIOUS
  <2>2. PICK k : k = q[1]
    OBVIOUS
  <2>3. a[1] = Field(y, k) /\ b[1] = Field(w, k)
    BY <1>7, <2>1, <2>2
  <2>4. k # key
    BY <2>2
  <2>5. Field(w, k) = Field(y, k)
    BY <1>3, <2>4, WithIs
  <2> QED
    BY <2>1, <2>3, <2>5
<1>9. ASSUME NEW n \in Nat, n \in T PROVE n + 1 \in T
  <2> SUFFICES ASSUME (n + 1) + 1 <= M PROVE a[(n + 1) + 1] = b[(n + 1) + 1]
    OBVIOUS
  <2>1. (n + 1) + 1 \in 1..M /\ ((n + 1) + 1) - 1 = n + 1 /\ n + 1 <= M
    OBVIOUS
  <2>2. a[n + 1] = b[n + 1]
    BY <1>9, <2>1
  <2> QED
    BY <1>7, <2>1, <2>2
<1>10. \A n \in Nat : n \in T
  <2> HIDE DEF T
  <2> QED
    BY <1>8, <1>9, Numbers!NumberInduction
<1>11. M - 1 \in Nat /\ (M - 1) + 1 = M /\ M <= M
  OBVIOUS
<1>12. a[M] = b[M]
  BY <1>10, <1>11
<1> QED
  BY <1>2, <1>3, <1>4, <1>5, <1>12 DEF PathGet

\* After sanitize nothing is left of a listed field, nor of a secret.
LEMMA SanitizedHere == RunInv => SanitizedIsGone
<1> SUFFICES ASSUME RunInv, Sent, task.node = "sanitize" PROVE SanitizedIsGone
  BY DEF SanitizedIsGone
<1>1. PICK cfg : cfg = task.cfg
  OBVIOUS
<1>2. PICK payload : payload = task.payload
  OBVIOUS
<1>3. task \in Task /\ cfg.fields \in Seq(JsonPath)
  <2>1. task \in Task
    BY SentIs
  <2> QED
    BY <1>1, <2>1, TaskAssumption
<1>4. PICK listed : /\ IsSanitizing(listed, cfg, payload)
                    /\ SanitizeNode(cfg, payload)
                            = Out(Emit("output", Stamped(cfg, Sanitized(cfg, listed[Len(cfg.fields)]))))
  BY <1>3, SanitizeIs
<1>5. PICK last : last = listed[Len(cfg.fields)]
  OBVIOUS
<1>6. PICK clean : clean = Sanitized(cfg, last)
  OBVIOUS
<1>7. PICK stamped : stamped = Stamped(cfg, clean)
  OBVIOUS
<1>8. Only = stamped
  <2>1. Process(task) = SanitizeNode(cfg, payload)
    BY <1>1, <1>2 DEF Process
  <2>2. PICK e : e = Emit("output", stamped)
    OBVIOUS
  <2>3. Process(task) = Out(e)
    BY <1>4, <1>5, <1>6, <1>7, <2>1, <2>2
  <2>4. result.out = e
    BY <2>2, <2>3, EmitIs, OutIs, SentIs
  <2> QED
    BY <2>2, <2>4, FirstOfEmit DEF Only
<1>9. PICK key : key = "_sanitized"
  OBVIOUS
<1>10. PICK new : new = Text(cfg.strategy)
  OBVIOUS
<1>11. stamped = IF Is(clean, "object") THEN With(clean, key, new) ELSE clean
  BY <1>7, <1>9, <1>10 DEF Stamped
<1>12. PICK own : own = IF Is(Only, "object") THEN Lacking(Only, key) ELSE Only
  OBVIOUS
<1>13. own = IF Is(clean, "object") THEN Lacking(With(clean, key, new), key) ELSE clean
  <2>1. CASE Is(clean, "object")
    <3>1. Is(With(clean, key, new), "object")
      BY WithIs
    <3> QED
      BY <1>8, <1>11, <1>12, <2>1, <3>1
  <2>2. CASE ~Is(clean, "object")
    BY <1>8, <1>11, <1>12, <2>2
  <2> QED
    BY <2>1, <2>2
<1>14. ASSUME cfg.detectPatterns PROVE ~Within(own, "secret")
  <2>1. clean = ScanAndSanitize(last)
    BY <1>6, <1>14 DEF Sanitized
  <2>2. NoSecret(clean, MaxDepth)
    BY <2>1, ScanFindsAll
  <2>3. NoSecret(own, MaxDepth)
    BY <1>13, <2>2, StampHides
  <2> QED
    BY <2>3 DEF NoSecret, Within, Secret
<1>15. ASSUME NEW path \in ToSet(cfg.fields), path[1] # key,
              ~\E n \in 0..Len(path) - 1 : Is(Along(payload, path)[n], "array")
       PROVE  PathGet(stamped, path) \in {NoValue, Mask}
  <2>1. path \in JsonPath
    BY <1>3, <1>15 DEF ToSet
  <2>2. NoArrays(payload, path)
    BY <1>15 DEF NoArrays
  <2>3. NothingAt(last, path)
    BY <1>3, <1>4, <1>5, <2>2, FieldsAreGone
  <2>4. NothingAt(clean, path)
    <3>1. NothingAt(ScanAndSanitize(last), path)
      BY <2>1, <2>3, ScanLeads
    <3> QED
      BY <1>6, <2>3, <3>1 DEF Sanitized
  <2>5. PathGet(stamped, path) = PathGet(clean, path)
    <3>1. Is(clean, "object") => PathGet(With(clean, key, new), path) = PathGet(clean, path)
      BY <1>15, <2>1, StampLeads
    <3> QED
      BY <1>11, <3>1
  <2> QED
    BY <2>4, <2>5 DEF NothingAt, Barren
<1>16. ASSUME NEW path \in ToSet(cfg.fields)
       PROVE  \/ path[1] = key \/ PathGet(Only, path) \in {NoValue, Mask}
              \/ \E n \in 0..Len(path) - 1 : Is(Along(payload, path)[n], "array")
  BY <1>8, <1>15, <1>16
<1> QED
  BY <1>1, <1>2, <1>9, <1>12, <1>14, <1>16 DEF SanitizedIsGone

----------------------------------------------------------------------------
(* All of it.                                                                *)

\* Whatever the nodes that only compute are given and however they are
\* configured, what comes in comes out, where it should and as it should: the
\* lists lose no item, a table written is read again, nothing that was to be
\* hidden is left, a prompt is filled, the messages follow the wires, and the
\* node comes to an end but for the ways that are named.
THEOREM NodesKeepData == NodeRunSpec => []DataIsKept
<1>1. RunInv => NothingIsLost
  BY RoutedWhole, ItemsKept, ChunksHere, CsvHere, MappedHere DEF NothingIsLost
<1>2. RunInv => DataIsKept
  BY <1>1, SanitizedHere, RunsEnd, PromptHere, WiresAreFollowed DEF DataIsKept
<1> QED
  BY <1>2, RunInvariant, PTL
=============================================================================
