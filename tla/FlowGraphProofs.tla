--------------------------- MODULE FlowGraphProofs ---------------------------
(***************************************************************************)
(* What Kahn's algorithm and the pruning of a flow compute, for every flow. *)
(***************************************************************************)
EXTENDS FlowGraph, FiniteSetTheorems, WellFoundedInduction, TLAPS

----------------------------------------------------------------------------
(* Induction and iteration.                                                  *)

\* A set that contains 0 and the successor of each of its numbers contains
\* all numbers.
LEMMA NumberInduction ==
    ASSUME NEW T, 0 \in T, \A n \in Nat : n \in T => n + 1 \in T
    PROVE  Nat \subseteq T
<1> DEFINE Bad == {0 .. n : n \in Nat \ T}
<1> SUFFICES ASSUME Nat \ T # {} PROVE FALSE
  OBVIOUS
<1>1. IsWellFoundedOn(StrictSubsetOrdering(Nat), FiniteSubsetsOf(Nat))
  BY FS_StrictSubsetOrderingWellFounded, Zenon
<1>2. Bad \subseteq FiniteSubsetsOf(Nat)
  <2> SUFFICES ASSUME NEW n \in Nat PROVE 0 .. n \in SUBSET Nat /\ IsFiniteSet(0 .. n)
    BY DEF FiniteSubsetsOf
  <2> QED
    BY FS_Interval
<1>3. Bad # {}
  OBVIOUS
<1>4. PICK x \in Bad : \A y \in Bad : ~(<<y, x>> \in StrictSubsetOrdering(Nat))
  <2> HIDE DEF Bad
  <2> QED
    BY <1>1, <1>2, <1>3, WFMin, Zenon
<1>5. PICK n \in Nat \ T : x = 0 .. n
  BY <1>4
<1>6. n # 0 /\ n - 1 \in Nat /\ (n - 1) + 1 = n
  OBVIOUS
<1>7. n - 1 \notin T
  BY <1>6
<1>8. 0 .. n - 1 \in Bad
  BY <1>6, <1>7
<1>9. <<0 .. n - 1, 0 .. n>> \in StrictSubsetOrdering(Nat)
  <2>1. 0 .. n - 1 \subseteq 0 .. n
    BY <1>6
  <2>2. n \in 0 .. n /\ n \notin 0 .. n - 1
    BY <1>6
  <2> QED
    BY <2>1, <2>2 DEF StrictSubsetOrdering
<1> QED
  BY <1>4, <1>5, <1>8, <1>9

Iterates(g, S, b, F, N) ==
    g \in [0 .. N -> S] /\ g[0] = b /\ \A k \in 1 .. N : g[k] = F[g[k - 1]]

\* A step can be repeated any number of times: the recursive functions of
\* FlowGraph are defined.
LEMMA Iteration ==
    ASSUME NEW S, NEW b \in S, NEW F \in [S -> S], NEW N \in Nat
    PROVE  \E g : Iterates(g, S, b, F, N)
<1> DEFINE Good(m) == \E g \in [0 .. m -> S] : g[0] = b /\ \A k \in 1 .. m : g[k] = F[g[k - 1]]
           T == {m \in Nat : Good(m)}
<1>1. 0 \in T
  <2> DEFINE g == [k \in 0 .. 0 |-> b]
  <2>1. g \in [0 .. 0 -> S] /\ g[0] = b /\ \A k \in 1 .. 0 : g[k] = F[g[k - 1]]
    OBVIOUS
  <2> HIDE DEF g
  <2> QED
    BY <2>1
<1>2. ASSUME NEW m \in Nat, m \in T PROVE m + 1 \in T
  <2>1. PICK g \in [0 .. m -> S] : g[0] = b /\ \A k \in 1 .. m : g[k] = F[g[k - 1]]
    BY <1>2
  <2> DEFINE h == [k \in 0 .. m + 1 |-> IF k \in 0 .. m THEN g[k] ELSE F[g[m]]]
  <2>2. h \in [0 .. m + 1 -> S]
    OBVIOUS
  <2>3. h[0] = b
    BY <2>1
  <2>4. ASSUME NEW k \in 1 .. m + 1 PROVE h[k] = F[h[k - 1]]
    <3>1. k - 1 \in 0 .. m /\ h[k - 1] = g[k - 1]
      OBVIOUS
    <3>2. CASE k \in 1 .. m
      BY <2>1, <3>1, <3>2
    <3>3. CASE k = m + 1
      BY <3>1, <3>3
    <3> QED
      BY <3>2, <3>3
  <2> HIDE DEF h
  <2> QED
    BY <2>2, <2>3, <2>4
<1> HIDE DEF Good
<1>3. \A m \in Nat : m \in T => m + 1 \in T
  BY <1>2
<1>4. Nat \subseteq T
  <2> HIDE DEF T
  <2> QED
    BY <1>1, <1>3, NumberInduction
<1>5. Good(N)
  BY <1>4
<1> QED
  BY <1>5 DEF Good, Iterates

----------------------------------------------------------------------------
(* Kahn's algorithm: one turn.                                               *)

\* The edges into n that have not been taken off.
Waiting(edges, n, placed) == {e \in edges : e.to = n /\ e.from \notin placed}

\* Those that a batch takes off.
Taken(edges, n, batch) == {e \in edges : e.from \in batch /\ e.to = n}

\* What the turns so far mean: a degree counts the edges that are left, and
\* the next batch is what has none left and was not taken yet.
Turned(nodes, edges, s) ==
    LET placed == Placed(s.steps)
    IN  /\ s.degree \in [nodes -> Nat]
        /\ s.batch = {n \in nodes \ placed : s.degree[n] = 0}
        /\ \A n \in nodes : s.degree[n] = Cardinality(Waiting(edges, n, placed))
        /\ s.steps \in Seq(SUBSET nodes)
        /\ s.steps # << >> =>
              \A n \in s.batch : \E e \in edges : e.to = n /\ e.from \in s.steps[Len(s.steps)]

\* Each step is made of nodes that wait only for nodes of earlier steps, and
\* for one of the step before.
Layered(edges, steps) ==
    /\ \A i \in DOMAIN steps : steps[i] # {}
    /\ \A i, j \in DOMAIN steps : i # j => steps[i] \cap steps[j] = {}
    /\ \A i \in DOMAIN steps : \A n \in steps[i] : \A e \in edges :
          e.to = n => \E j \in 1 .. i - 1 : e.from \in steps[j]
    /\ \A i \in DOMAIN steps : \A n \in steps[i] :
          i > 1 => \E e \in edges : e.to = n /\ e.from \in steps[i - 1]

\* What an appended layer leaves in place.
LEMMA AppendSteps ==
    ASSUME NEW nodes, NEW steps \in Seq(SUBSET nodes), NEW batch \in SUBSET nodes
    PROVE  /\ Append(steps, batch) \in Seq(SUBSET nodes)
           /\ Len(Append(steps, batch)) = Len(steps) + 1
           /\ DOMAIN Append(steps, batch) = 1 .. Len(steps) + 1
           /\ \A i \in DOMAIN steps : Append(steps, batch)[i] = steps[i]
           /\ Append(steps, batch)[Len(steps) + 1] = batch
           /\ Placed(Append(steps, batch)) = Placed(steps) \cup batch
<1>1. /\ Append(steps, batch) \in Seq(SUBSET nodes)
      /\ Len(Append(steps, batch)) = Len(steps) + 1
      /\ DOMAIN Append(steps, batch) = 1 .. Len(steps) + 1
      /\ \A i \in DOMAIN steps : Append(steps, batch)[i] = steps[i]
      /\ Append(steps, batch)[Len(steps) + 1] = batch
  OBVIOUS
<1>2. DOMAIN steps = 1 .. Len(steps) /\ Len(steps) \in Nat
  OBVIOUS
<1> DEFINE longer == Append(steps, batch)
<1>3. ASSUME NEW n PROVE n \in Placed(longer) <=> n \in Placed(steps) \/ n \in batch
  <2>1. n \in Placed(longer) <=> \E i \in 1 .. Len(steps) + 1 : n \in longer[i]
    BY <1>1 DEF Placed
  <2>2. n \in Placed(steps) <=> \E i \in 1 .. Len(steps) : n \in steps[i]
    BY <1>2 DEF Placed
  <2> HIDE DEF longer
  <2> QED
    BY <1>1, <1>2, <2>1, <2>2 DEF longer
<1>4. Placed(longer) = Placed(steps) \cup batch
  BY <1>3
<1> QED
  BY <1>1, <1>4

\* Taking the edges of a batch off.
LEMMA WaitingLess ==
    ASSUME NEW edges, IsFiniteSet(edges), NEW n, NEW placed, NEW batch, batch \cap placed = {}
    PROVE  /\ Cardinality(Waiting(edges, n, placed)) \in Nat
           /\ Cardinality(Taken(edges, n, batch)) \in Nat
           /\ Cardinality(Waiting(edges, n, placed \cup batch))
                  = Cardinality(Waiting(edges, n, placed)) - Cardinality(Taken(edges, n, batch))
<1> DEFINE hits == Taken(edges, n, batch)
           before == Waiting(edges, n, placed)
           after == Waiting(edges, n, placed \cup batch)
<1>1. IsFiniteSet(hits) /\ IsFiniteSet(before) /\ IsFiniteSet(after)
  BY FS_Subset DEF Waiting, Taken
<1>2. before = hits \cup after /\ hits \cap after = {}
  BY DEF Waiting, Taken
<1> HIDE DEF hits, before, after
<1>3. /\ Cardinality(hits) \in Nat /\ Cardinality(after) \in Nat /\ Cardinality(before) \in Nat
      /\ Cardinality(before) = Cardinality(hits) + Cardinality(after)
  <2>1. Cardinality(hits \cup after)
           = Cardinality(hits) + Cardinality(after) - Cardinality(hits \cap after)
    BY <1>1, FS_Union
  <2>2. Cardinality(hits \cap after) = 0
    BY <1>2, FS_EmptySet
  <2> QED
    BY <1>1, <1>2, <2>1, <2>2, FS_CardinalityType
<1> QED
  BY <1>3 DEF hits, before, after

\* Before the first turn.
Start(nodes, edges) ==
    [degree |-> [n \in nodes |-> InDegree(edges, n)],
     batch  |-> {n \in nodes : [m \in nodes |-> InDegree(edges, m)][n] = 0},
     steps  |-> << >>]

\* Before the first turn the sort is where it should be.
LEMMA StartTurned ==
    ASSUME NEW nodes, NEW edges, IsFiniteSet(edges)
    PROVE  Turned(nodes, edges, Start(nodes, edges)) /\ Layered(edges, Start(nodes, edges).steps)
<1> DEFINE s == Start(nodes, edges)
<1>1. s.steps = << >> /\ DOMAIN s.steps = {} /\ Placed(s.steps) = {}
  BY DEF Start, Placed
<1>2. ASSUME NEW n \in nodes
      PROVE  /\ InDegree(edges, n) \in Nat
             /\ InDegree(edges, n) = Cardinality(Waiting(edges, n, Placed(s.steps)))
  <2>1. Waiting(edges, n, Placed(s.steps)) = {e \in edges : e.to = n}
    BY <1>1 DEF Waiting
  <2>2. IsFiniteSet({e \in edges : e.to = n})
    BY FS_Subset
  <2> QED
    BY <2>1, <2>2, FS_CardinalityType DEF InDegree
<1>3. s.degree = [n \in nodes |-> InDegree(edges, n)] /\ s.batch = {n \in nodes : InDegree(edges, n) = 0}
  BY DEF Start
<1>4. << >> \in Seq(SUBSET nodes)
  OBVIOUS
<1> HIDE DEF s
<1>5. Turned(nodes, edges, s)
  BY <1>1, <1>2, <1>3, <1>4 DEF Turned
<1>6. Layered(edges, s.steps)
  BY <1>1 DEF Layered
<1> QED
  BY <1>5, <1>6 DEF s

\* A turn keeps the meaning and adds one layer.
LEMMA TurnKeeps ==
    ASSUME NEW nodes, NEW edges, IsFiniteSet(edges), NEW s,
           Turned(nodes, edges, s), Layered(edges, s.steps), s.batch # {}
    PROVE  LET t == DrainBatch(edges, s)
           IN  /\ Turned(nodes, edges, t) /\ Layered(edges, t.steps)
               /\ t.steps = Append(s.steps, s.batch) /\ s.batch \cap Placed(s.steps) = {}
               /\ s.batch \subseteq nodes
<1> DEFINE t == DrainBatch(edges, s)
           placed == Placed(s.steps)
           Hits(n) == Taken(edges, n, s.batch)
           left == [n \in DOMAIN s.degree |-> s.degree[n] - Cardinality(Hits(n))]
           last == Len(s.steps)
<1>1. /\ s.degree \in [nodes -> Nat] /\ s.steps \in Seq(SUBSET nodes)
      /\ s.batch = {n \in nodes \ placed : s.degree[n] = 0}
      /\ \A n \in nodes : s.degree[n] = Cardinality(Waiting(edges, n, placed))
  BY DEF Turned
<1>2. /\ t.degree = left
      /\ t.batch = {n \in DOMAIN left : Cardinality(Hits(n)) > 0 /\ left[n] = 0}
      /\ t.steps = Append(s.steps, s.batch)
  BY DEF DrainBatch, Taken
<1>3. DOMAIN left = nodes
  BY <1>1
<1>4. s.batch \cap placed = {} /\ s.batch \subseteq nodes
  BY <1>1
<1>5. /\ t.steps \in Seq(SUBSET nodes) /\ Placed(t.steps) = placed \cup s.batch
      /\ DOMAIN t.steps = 1 .. last + 1 /\ DOMAIN s.steps = 1 .. last /\ last \in Nat
      /\ Len(t.steps) = last + 1
      /\ \A i \in 1 .. last : t.steps[i] = s.steps[i]
      /\ t.steps[last + 1] = s.batch
  <2>1. s.batch \in SUBSET nodes
    BY <1>4
  <2>2. DOMAIN s.steps = 1 .. last /\ last \in Nat
    BY <1>1
  <2>3. /\ Append(s.steps, s.batch) \in Seq(SUBSET nodes)
        /\ Len(Append(s.steps, s.batch)) = last + 1
        /\ DOMAIN Append(s.steps, s.batch) = 1 .. last + 1
        /\ \A i \in DOMAIN s.steps : Append(s.steps, s.batch)[i] = s.steps[i]
        /\ Append(s.steps, s.batch)[last + 1] = s.batch
        /\ Placed(Append(s.steps, s.batch)) = placed \cup s.batch
    <3>1. PICK steps \in Seq(SUBSET nodes), batch \in SUBSET nodes : steps = s.steps /\ batch = s.batch
      BY <1>1, <2>1
    <3>2. /\ Append(steps, batch) \in Seq(SUBSET nodes)
          /\ Len(Append(steps, batch)) = Len(steps) + 1
          /\ DOMAIN Append(steps, batch) = 1 .. Len(steps) + 1
          /\ \A i \in DOMAIN steps : Append(steps, batch)[i] = steps[i]
          /\ Append(steps, batch)[Len(steps) + 1] = batch
          /\ Placed(Append(steps, batch)) = Placed(steps) \cup batch
      BY AppendSteps
    <3> QED
      BY <3>1, <3>2
  <2> QED
    BY <1>2, <2>2, <2>3
<1> HIDE DEF t, left
<1>6. ASSUME NEW n \in nodes
      PROVE  /\ left[n] = s.degree[n] - Cardinality(Hits(n))
             /\ Cardinality(Hits(n)) \in Nat /\ s.degree[n] \in Nat
             /\ left[n] = Cardinality(Waiting(edges, n, Placed(t.steps)))
             /\ left[n] \in Nat
  <2>1. left[n] = s.degree[n] - Cardinality(Hits(n))
    BY <1>1 DEF left
  <2>2. /\ Cardinality(Hits(n)) \in Nat /\ Cardinality(Waiting(edges, n, placed)) \in Nat
        /\ Cardinality(Waiting(edges, n, placed \cup s.batch))
              = Cardinality(Waiting(edges, n, placed)) - Cardinality(Hits(n))
    BY <1>4, WaitingLess
  <2>3. IsFiniteSet(Waiting(edges, n, placed \cup s.batch))
    BY FS_Subset DEF Waiting
  <2> QED
    BY <1>1, <1>5, <2>1, <2>2, <2>3, FS_CardinalityType
\* Nothing that is placed waits, and no edge comes into it from the batch.
<1>7. ASSUME NEW n \in nodes, n \in placed PROVE Cardinality(Hits(n)) = 0
  <2>1. PICK i \in 1 .. last : n \in s.steps[i]
    BY <1>5, <1>7 DEF Placed
  <2>2. ASSUME NEW e \in edges, e.to = n PROVE e.from \notin s.batch
    <3>1. PICK j \in 1 .. i - 1 : e.from \in s.steps[j]
      BY <1>5, <2>1, <2>2 DEF Layered
    <3>2. e.from \in placed
      BY <1>5, <3>1 DEF Placed
    <3> QED
      BY <1>4, <3>2
  <2>3. Hits(n) = {}
    BY <2>2 DEF Taken
  <2> QED
    BY <2>3, FS_EmptySet
<1>8. t.batch = {n \in nodes \ Placed(t.steps) : t.degree[n] = 0}
  <2>1. ASSUME NEW n \in nodes
        PROVE  Cardinality(Hits(n)) > 0 /\ left[n] = 0 <=> n \notin Placed(t.steps) /\ left[n] = 0
    <3>1. ASSUME Cardinality(Hits(n)) > 0, left[n] = 0 PROVE n \notin Placed(t.steps)
      <4>1. s.degree[n] # 0
        BY <1>6, <3>1
      <4> QED
        BY <1>1, <1>5, <1>7, <3>1, <4>1
    <3>2. ASSUME n \notin Placed(t.steps), left[n] = 0 PROVE Cardinality(Hits(n)) > 0
      <4>1. s.degree[n] # 0
        BY <1>1, <1>5, <3>2
      <4> QED
        BY <1>6, <3>2, <4>1
    <3> QED
      BY <3>1, <3>2
  <2> QED
    BY <1>2, <1>3, <2>1
<1>9. ASSUME NEW n \in t.batch PROVE \E e \in edges : e.to = n /\ e.from \in s.batch
  <2>1. Cardinality(Hits(n)) > 0
    BY <1>2, <1>9
  <2>2. Hits(n) # {}
    BY <2>1, FS_EmptySet
  <2> QED
    BY <2>2 DEF Taken
<1>10. Turned(nodes, edges, t)
  <2>1. t.degree \in [nodes -> Nat]
    BY <1>2, <1>3, <1>6 DEF left
  <2>2. \A n \in nodes : t.degree[n] = Cardinality(Waiting(edges, n, Placed(t.steps)))
    BY <1>2, <1>6
  <2>3. \A n \in t.batch : \E e \in edges : e.to = n /\ e.from \in t.steps[Len(t.steps)]
    BY <1>5, <1>9
  <2> QED
    BY <1>5, <1>8, <2>1, <2>2, <2>3 DEF Turned
<1>11. Layered(edges, t.steps)
  <2>1. ASSUME NEW i \in 1 .. last + 1 PROVE t.steps[i] # {}
    <3>1. \A k \in 1 .. last : s.steps[k] # {}
      BY <1>5 DEF Layered
    <3>2. i \in 1 .. last \/ i = last + 1
      BY <1>5
    <3> QED
      BY <1>5, <3>1, <3>2
  <2>2. ASSUME NEW i \in 1 .. last + 1, NEW j \in 1 .. last + 1, i # j
        PROVE  t.steps[i] \cap t.steps[j] = {}
    <3>1. \A k \in 1 .. last : t.steps[k] \subseteq placed
      BY <1>5 DEF Placed
    <3>2. CASE i \in 1 .. last /\ j \in 1 .. last
      BY <1>5, <2>2, <3>2 DEF Layered
    <3>3. CASE i = last + 1 \/ j = last + 1
      <4>1. (i = last + 1 /\ j \in 1 .. last) \/ (j = last + 1 /\ i \in 1 .. last)
        BY <1>5, <2>2, <3>3
      <4> QED
        BY <1>4, <1>5, <3>1, <4>1
    <3> QED
      BY <1>5, <3>2, <3>3
  <2>3. ASSUME NEW i \in 1 .. last + 1, NEW n \in t.steps[i], NEW e \in edges, e.to = n
        PROVE  \E j \in 1 .. i - 1 : e.from \in t.steps[j]
    <3>1. CASE i \in 1 .. last
      <4>1. PICK j \in 1 .. i - 1 : e.from \in s.steps[j]
        BY <1>5, <2>3, <3>1 DEF Layered
      <4> QED
        BY <1>5, <3>1, <4>1
    <3>2. CASE i = last + 1
      <4>1. n \in nodes /\ Cardinality(Waiting(edges, n, placed)) = 0
        BY <1>1, <1>5, <2>3, <3>2
      <4>2. IsFiniteSet(Waiting(edges, n, placed))
        BY FS_Subset DEF Waiting
      <4>3. Waiting(edges, n, placed) = {}
        BY <4>1, <4>2, FS_EmptySet
      <4>4. e.from \in placed
        BY <2>3, <4>3 DEF Waiting
      <4>5. PICK j \in 1 .. last : e.from \in s.steps[j]
        BY <1>5, <4>4 DEF Placed
      <4> QED
        BY <1>5, <3>2, <4>5
    <3> QED
      BY <1>5, <3>1, <3>2
  <2>4. ASSUME NEW i \in 1 .. last + 1, NEW n \in t.steps[i], i > 1
        PROVE  \E e \in edges : e.to = n /\ e.from \in t.steps[i - 1]
    <3>1. i - 1 \in 1 .. last
      BY <1>5, <2>4
    <3>2. CASE i \in 1 .. last
      BY <1>5, <2>4, <3>1, <3>2 DEF Layered
    <3>3. CASE i = last + 1
      <4>1. n \in s.batch /\ s.steps # << >>
        BY <1>5, <2>4, <3>1, <3>3
      <4> QED
        BY <1>5, <3>1, <3>3, <4>1 DEF Turned
    <3> QED
      BY <1>5, <3>2, <3>3
  <2> QED
    BY <1>5, <2>1, <2>2, <2>3, <2>4 DEF Layered
<1> QED
  BY <1>2, <1>4, <1>10, <1>11 DEF t

----------------------------------------------------------------------------
(* Kahn's algorithm: all turns.                                              *)

Turn(edges, s) == IF s.batch = {} THEN s ELSE DrainBatch(edges, s)

\* The turns as Kahn makes them.
LEMMA KahnTurns ==
    ASSUME NEW nodes, IsFiniteSet(nodes), NEW edges, IsFiniteSet(edges)
    PROVE  \E g : /\ Kahn(nodes, edges) = g[Cardinality(nodes)].steps
                 /\ g[0] = Start(nodes, edges)
                 /\ \A k \in 1 .. Cardinality(nodes) : g[k] = Turn(edges, g[k - 1])
<1> DEFINE N == Cardinality(nodes)
           State == {s \in [degree : [nodes -> Nat], batch : SUBSET nodes, steps : Seq(SUBSET nodes)] :
                       Turned(nodes, edges, s) /\ Layered(edges, s.steps)}
           F == [s \in State |-> Turn(edges, s)]
           IsRun(g) == g = [k \in 0 .. N |->
                              IF k = 0 THEN Start(nodes, edges)
                              ELSE IF g[k - 1].batch = {} THEN g[k - 1]
                                   ELSE DrainBatch(edges, g[k - 1])]
<1>1. N \in Nat
  BY FS_CardinalityType
<1>2. Start(nodes, edges) \in State
  <2>1. Turned(nodes, edges, Start(nodes, edges)) /\ Layered(edges, Start(nodes, edges).steps)
    BY StartTurned
  <2>2. \A n \in nodes : InDegree(edges, n) \in Nat
    <3> SUFFICES ASSUME NEW n \in nodes PROVE Cardinality({e \in edges : e.to = n}) \in Nat
      BY DEF InDegree
    <3>1. IsFiniteSet({e \in edges : e.to = n})
      BY FS_Subset
    <3> QED
      BY <3>1, FS_CardinalityType
  <2>3. Start(nodes, edges) \in [degree : [nodes -> Nat], batch : SUBSET nodes, steps : Seq(SUBSET nodes)]
    BY <2>2 DEF Start
  <2> QED
    BY <2>1, <2>3
<1>3. F \in [State -> State]
  <2> SUFFICES ASSUME NEW s \in State, s.batch # {} PROVE DrainBatch(edges, s) \in State
    BY DEF Turn
  <2> DEFINE t == DrainBatch(edges, s)
  <2>1. Turned(nodes, edges, t) /\ Layered(edges, t.steps)
    BY TurnKeeps
  <2>2. t.degree \in [nodes -> Nat] /\ t.batch \in SUBSET nodes /\ t.steps \in Seq(SUBSET nodes)
    <3> HIDE DEF t
    <3> QED
      BY <2>1 DEF Turned
  <2>3. t = [degree |-> t.degree, batch |-> t.batch, steps |-> t.steps]
    BY DEF DrainBatch
  <2> HIDE DEF t
  <2>4. t \in [degree : [nodes -> Nat], batch : SUBSET nodes, steps : Seq(SUBSET nodes)]
    BY <2>2, <2>3
  <2> QED
    BY <2>1, <2>4 DEF t
<1>4. PICK f \in [0 .. N -> State] : f[0] = Start(nodes, edges) /\ \A k \in 1 .. N : f[k] = F[f[k - 1]]
  <2> HIDE DEF N, State, F
  <2>1. \E f : Iterates(f, State, Start(nodes, edges), F, N)
    BY <1>1, <1>2, <1>3, Iteration
  <2> QED
    BY <2>1 DEF Iterates
<1>5. IsRun(f)
  <2>1. ASSUME NEW k \in 0 .. N, k # 0
        PROVE  f[k] = IF f[k - 1].batch = {} THEN f[k - 1] ELSE DrainBatch(edges, f[k - 1])
    <3>1. k \in 1 .. N /\ k - 1 \in 0 .. N
      BY <1>1, <2>1
    <3>2. f[k - 1] \in State
      BY <3>1
    <3> QED
      BY <1>4, <3>1, <3>2 DEF Turn
  <2> HIDE DEF N, State
  <2> QED
    BY <1>4, <2>1
<1>6. PICK g : IsRun(g) /\ Kahn(nodes, edges) = g[N].steps
  BY <1>5, Zenon DEF Kahn, Start
<1>7. g[0] = Start(nodes, edges) /\ \A k \in 1 .. N : g[k] = Turn(edges, g[k - 1])
  <2> HIDE DEF N
  <2>1. 0 \in 0 .. N /\ \A k \in 1 .. N : k \in 0 .. N /\ k # 0
    BY <1>1
  <2> QED
    BY <1>6, <2>1 DEF Turn
<1> QED
  BY <1>6, <1>7

\* After k turns the queue is empty or k layers are placed.
TurnedTimes(nodes, edges, s, k) ==
    /\ Turned(nodes, edges, s) /\ Layered(edges, s.steps)
    /\ Len(s.steps) <= Cardinality(Placed(s.steps))
    /\ s.batch = {} \/ Len(s.steps) = k

\* What is placed is some finite part of the nodes.
LEMMA PlacedNodes ==
    ASSUME NEW nodes, IsFiniteSet(nodes), NEW steps \in Seq(SUBSET nodes)
    PROVE  /\ Placed(steps) \subseteq nodes /\ IsFiniteSet(Placed(steps))
           /\ Cardinality(Placed(steps)) \in Nat
<1>1. Placed(steps) \subseteq nodes
  BY DEF Placed
<1> QED
  BY <1>1, FS_Subset, FS_CardinalityType

\* A turn places one more layer, or finds the queue empty.
LEMMA OneMoreTurn ==
    ASSUME NEW nodes, IsFiniteSet(nodes), NEW edges, IsFiniteSet(edges), NEW s, NEW k \in Nat,
           TurnedTimes(nodes, edges, s, k)
    PROVE  TurnedTimes(nodes, edges, Turn(edges, s), k + 1)
<1>1. CASE s.batch = {}
  BY <1>1 DEF TurnedTimes, Turn
<1>2. CASE s.batch # {}
  <2> DEFINE t == DrainBatch(edges, s)
  <2>1. Turned(nodes, edges, s) /\ Layered(edges, s.steps)
    BY DEF TurnedTimes
  <2>2. /\ Turned(nodes, edges, t) /\ Layered(edges, t.steps)
        /\ t.steps = Append(s.steps, s.batch) /\ s.batch \cap Placed(s.steps) = {}
        /\ s.batch \subseteq nodes
    BY <1>2, <2>1, TurnKeeps
  <2>3. PICK steps \in Seq(SUBSET nodes), batch \in SUBSET nodes : steps = s.steps /\ batch = s.batch
    BY <2>1, <2>2 DEF Turned
  <2>4. Len(t.steps) = Len(steps) + 1 /\ Placed(t.steps) = Placed(steps) \cup batch /\ Len(steps) \in Nat
    <3>1. t.steps = Append(steps, batch)
      BY <2>2, <2>3
    <3>2. /\ Len(Append(steps, batch)) = Len(steps) + 1
          /\ Placed(Append(steps, batch)) = Placed(steps) \cup batch
      BY AppendSteps
    <3>3. Len(steps) \in Nat
      OBVIOUS
    <3> QED
      BY <3>1, <3>2, <3>3
  <2>5. /\ IsFiniteSet(Placed(steps)) /\ IsFiniteSet(batch)
        /\ Cardinality(Placed(steps)) \in Nat /\ Cardinality(batch) \in Nat
    BY PlacedNodes, FS_Subset, FS_CardinalityType
  <2>6. Cardinality(batch) # 0
    BY <1>2, <2>3, <2>5, FS_EmptySet
  <2>7. Cardinality(Placed(steps) \cup batch)
           = Cardinality(Placed(steps)) + Cardinality(batch) - Cardinality(Placed(steps) \cap batch)
    BY <2>5, FS_Union
  <2>8. Cardinality(Placed(steps) \cap batch) = 0
    BY <2>2, <2>3, FS_EmptySet
  <2>9. Len(steps) <= Cardinality(Placed(steps)) /\ Len(steps) = k
    BY <1>2, <2>3 DEF TurnedTimes
  <2>10. Len(t.steps) <= Cardinality(Placed(t.steps)) /\ Len(t.steps) = k + 1
    BY <2>4, <2>5, <2>6, <2>7, <2>8, <2>9
  <2> HIDE DEF t
  <2>11. TurnedTimes(nodes, edges, t, k + 1)
    BY <2>2, <2>10 DEF TurnedTimes
  <2> QED
    BY <1>2, <2>11 DEF Turn, t
<1> QED
  BY <1>1, <1>2

\* A node all of whose sources are placed is placed itself.
Closed(nodes, edges, placed) ==
    \A n \in nodes : (\A e \in edges : e.to = n => e.from \in placed) => n \in placed

KahnResult(nodes, edges, steps) ==
    /\ steps \in Seq(SUBSET nodes)
    /\ Layered(edges, steps)
    /\ Closed(nodes, edges, Placed(steps))
    /\ Len(steps) <= Cardinality(Placed(steps))

(***************************************************************************)
(* Kahn's algorithm on any finite graph: the steps are layers of nodes that *)
(* wait only for earlier layers, and what is left out waits for something   *)
(* that is left out.                                                        *)
(***************************************************************************)
THEOREM KahnLayers ==
    ASSUME NEW nodes, IsFiniteSet(nodes), NEW edges, IsFiniteSet(edges)
    PROVE  KahnResult(nodes, edges, Kahn(nodes, edges))
<1> DEFINE N == Cardinality(nodes)
<1>1. N \in Nat
  BY FS_CardinalityType
<1>2. PICK g : /\ Kahn(nodes, edges) = g[N].steps
              /\ g[0] = Start(nodes, edges)
              /\ \A k \in 1 .. N : g[k] = Turn(edges, g[k - 1])
  BY KahnTurns
<1> HIDE DEF N
<1> DEFINE T == {k \in Nat : k <= N => TurnedTimes(nodes, edges, g[k], k)}
<1>3. 0 \in T
  <2>1. Turned(nodes, edges, g[0]) /\ Layered(edges, g[0].steps)
    BY <1>2, StartTurned
  <2>2. Len(g[0].steps) = 0 /\ Placed(g[0].steps) = {}
    BY <1>2 DEF Start, Placed
  <2>3. Cardinality({}) = 0
    BY FS_EmptySet
  <2>4. Len(g[0].steps) <= Cardinality(Placed(g[0].steps))
    BY <2>2, <2>3
  <2>5. TurnedTimes(nodes, edges, g[0], 0)
    BY <2>1, <2>2, <2>4, Zenon DEF TurnedTimes
  <2> QED
    BY <2>5
<1>4. ASSUME NEW k \in Nat, k \in T PROVE k + 1 \in T
  <2> SUFFICES ASSUME k + 1 <= N PROVE TurnedTimes(nodes, edges, g[k + 1], k + 1)
    OBVIOUS
  <2>1. k <= N /\ k + 1 \in 1 .. N /\ (k + 1) - 1 = k
    BY <1>1
  <2>2. TurnedTimes(nodes, edges, g[k], k)
    BY <1>4, <2>1
  <2>3. TurnedTimes(nodes, edges, Turn(edges, g[k]), k + 1)
    BY <2>2, OneMoreTurn
  <2> QED
    BY <1>2, <2>1, <2>3
<1>5. \A k \in Nat : k \in T => k + 1 \in T
  BY <1>4
<1>6. Nat \subseteq T
  <2> HIDE DEF T
  <2> QED
    BY <1>3, <1>5, NumberInduction
<1>7. TurnedTimes(nodes, edges, g[N], N)
  BY <1>1, <1>6
<1> DEFINE s == g[N]
           steps == s.steps
<1>8. /\ Turned(nodes, edges, s) /\ Layered(edges, steps)
      /\ Len(steps) <= Cardinality(Placed(steps))
      /\ s.batch = {} \/ Len(steps) = N
  BY <1>7 DEF TurnedTimes
<1> HIDE DEF s
<1>9. /\ steps \in Seq(SUBSET nodes) /\ s.degree \in [nodes -> Nat]
      /\ s.batch = {n \in nodes \ Placed(steps) : s.degree[n] = 0}
      /\ \A n \in nodes : s.degree[n] = Cardinality(Waiting(edges, n, Placed(steps)))
  BY <1>8 DEF Turned
<1>10. s.batch = {}
  <2> SUFFICES ASSUME Len(steps) = N PROVE s.batch = {}
    BY <1>8
  <2>1. /\ Placed(steps) \subseteq nodes /\ Cardinality(Placed(steps)) \in Nat
    BY <1>9, PlacedNodes
  <2>2. /\ Cardinality(Placed(steps)) <= N
        /\ N = Cardinality(Placed(steps)) => nodes = Placed(steps)
    BY <2>1, FS_Subset DEF N
  <2>3. nodes = Placed(steps)
    BY <1>1, <1>8, <2>1, <2>2
  <2> QED
    BY <1>9, <2>3
<1>11. Closed(nodes, edges, Placed(steps))
  <2> SUFFICES ASSUME NEW n \in nodes, \A e \in edges : e.to = n => e.from \in Placed(steps)
               PROVE  n \in Placed(steps)
    BY DEF Closed
  <2>1. Waiting(edges, n, Placed(steps)) = {}
    BY DEF Waiting
  <2>2. s.degree[n] = 0
    BY <1>9, <2>1, FS_EmptySet
  <2> QED
    BY <1>9, <1>10, <2>2
<1> QED
  BY <1>2, <1>8, <1>9, <1>11 DEF KahnResult, s

----------------------------------------------------------------------------
(* Compile.                                                                  *)

\* Finitely many nodes, and edges between them.
WellFormed(f) ==
    /\ IsFiniteSet(f.nodes) /\ IsFiniteSet(f.edges) /\ f.enabled \subseteq f.nodes
    /\ \A e \in f.edges : e.from \in f.nodes /\ e.to \in f.nodes

EnabledEdges(f) == {e \in f.edges : {e.from, e.to} \subseteq f.enabled}

\* What a plan promises: every enabled node in one step, and in which.
PlanOf(f, steps) ==
    /\ steps \in Seq(SUBSET f.enabled)
    /\ Placed(steps) = f.enabled
    /\ Layered(EnabledEdges(f), steps)

(***************************************************************************)
(* A flow that compiles runs every enabled node in exactly one step, after  *)
(* the steps of all the enabled nodes that lead to it.                      *)
(***************************************************************************)
THEOREM CompileGivesPlan ==
    ASSUME NEW f, WellFormed(f), Compile(f).status = "ok"
    PROVE  PlanOf(f, Compile(f).steps)
<1> DEFINE full == Kahn(f.nodes, f.edges)
           steps == Kahn(f.enabled, EnabledEdges(f))
<1>1. ValidateAcyclic(f) /\ Compile(f).steps = steps
  <2>1. ValidateAcyclic(f)
    BY DEF Compile
  <2> QED
    BY <2>1 DEF Compile, EnabledEdges
<1>2. KahnResult(f.nodes, f.edges, full)
  BY KahnLayers DEF WellFormed
<1>3. IsFiniteSet(f.enabled) /\ IsFiniteSet(EnabledEdges(f))
  BY FS_Subset DEF WellFormed, EnabledEdges
<1>4. KahnResult(f.enabled, EnabledEdges(f), steps)
  BY <1>3, KahnLayers
<1>5. Placed(full) = f.nodes
  <2>1. Cardinality(Placed(full)) = Cardinality(f.nodes)
    BY <1>1 DEF ValidateAcyclic
  <2>2. Placed(full) \subseteq f.nodes
    BY <1>2 DEF KahnResult, Placed
  <2> QED
    BY <2>1, <2>2, FS_Subset DEF WellFormed
<1> HIDE DEF full, steps
\* An enabled node is placed once those it depends on are.
<1> DEFINE T == {k \in Nat : \A i \in DOMAIN full : i <= k => full[i] \cap f.enabled \subseteq Placed(steps)}
<1>6. DOMAIN full \subseteq Nat \ {0}
  BY <1>2 DEF KahnResult
<1>7. 0 \in T
  BY <1>6
<1>8. ASSUME NEW k \in Nat, k \in T PROVE k + 1 \in T
  <2> SUFFICES ASSUME NEW i \in DOMAIN full, i <= k + 1, NEW n \in full[i], n \in f.enabled
               PROVE  n \in Placed(steps)
    OBVIOUS
  <2>1. ASSUME NEW e \in EnabledEdges(f), e.to = n PROVE e.from \in Placed(steps)
    <3>1. e \in f.edges /\ e.from \in f.enabled
      BY DEF EnabledEdges
    <3>2. PICK j \in 1 .. i - 1 : e.from \in full[j]
      BY <1>2, <2>1, <3>1 DEF KahnResult, Layered
    <3>3. j \in DOMAIN full /\ j <= k
      BY <1>2 DEF KahnResult
    <3> QED
      BY <1>8, <3>1, <3>2, <3>3
  <2> QED
    BY <1>4, <2>1 DEF KahnResult, Closed
<1>9. \A k \in Nat : k \in T => k + 1 \in T
  BY <1>8
<1>10. Nat \subseteq T
  <2> HIDE DEF T
  <2> QED
    BY <1>7, <1>9, NumberInduction
<1>11. ASSUME NEW n \in f.enabled PROVE n \in Placed(steps)
  <2>1. n \in f.nodes
    BY DEF WellFormed
  <2>2. PICK i \in DOMAIN full : n \in full[i]
    BY <1>5, <2>1 DEF Placed
  <2>3. i \in T
    BY <1>6, <1>10
  <2> QED
    BY <1>6, <2>2, <2>3
<1>12. Placed(steps) \subseteq f.enabled /\ steps \in Seq(SUBSET f.enabled) /\ Layered(EnabledEdges(f), steps)
  BY <1>4 DEF KahnResult, Placed
<1> QED
  BY <1>1, <1>11, <1>12 DEF PlanOf
=============================================================================
