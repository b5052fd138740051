-------------------------- MODULE FlowEngineProofs --------------------------
(***************************************************************************)
(* Theorems about a flow that is built and compiled, for any finite set of  *)
(* nodes, any ports and any number of edges, and about the engine that runs *)
(* flows, for any set of executions and flows and any number of node events.*)
(***************************************************************************)
EXTENDS FlowEngine, FlowBuilder, FlowGraphProofs, TLAPS

----------------------------------------------------------------------------
(* Paths.                                                                    *)

N == Cardinality(Node)

\* Where the edges inside `within` lead from a set of nodes.
Onward(edges, within, s) == {e.to : e \in {d \in edges : d.from \in s /\ d.to \in within}}

WalkedFrom(g, edges, within, n) ==
    /\ g[0] = {n}
    /\ \A k \in 1 .. N : g[k] = Onward(edges, within, g[k - 1])

\* The ends of the paths from a node are what a walk from it reaches.
LEMMA PathsWalk ==
    ASSUME NEW n, NEW within
    PROVE  WalkedFrom(PathEnds(n, within), flow.edges, within, n)
<1> DEFINE S == SUBSET ({n} \cup {e.to : e \in flow.edges})
           F == [s \in S |-> Onward(flow.edges, within, s)]
           IsWalk(g) == g = [k \in 0 .. N |->
                               IF k = 0 THEN {n}
                               ELSE {e.to : e \in {d \in flow.edges : d.from \in g[k - 1] /\ d.to \in within}}]
<1>1. N \in Nat
  BY FlowBuilderAssumption, FS_CardinalityType DEF N
<1>2. {n} \in S /\ F \in [S -> S]
  BY DEF Onward
<1>3. PICK f \in [0 .. N -> S] : f[0] = {n} /\ \A k \in 1 .. N : f[k] = F[f[k - 1]]
  <2> HIDE DEF S, F
  <2>1. \E f : Iterates(f, S, {n}, F, N)
    BY <1>1, <1>2, Iteration
  <2> QED
    BY <2>1 DEF Iterates
<1>4. IsWalk(f)
  <2>1. ASSUME NEW k \in 0 .. N, k # 0
        PROVE  f[k] = {e.to : e \in {d \in flow.edges : d.from \in f[k - 1] /\ d.to \in within}}
    <3>1. k \in 1 .. N /\ k - 1 \in 0 .. N
      BY <1>1, <2>1
    <3>2. f[k - 1] \in S /\ f[k] = F[f[k - 1]]
      BY <1>3, <3>1
    <3> QED
      BY <3>2 DEF Onward
  <2> HIDE DEF S
  <2> QED
    BY <1>3, <2>1
<1>5. PICK g : IsWalk(g) /\ PathEnds(n, within) = g
  BY <1>4, Zenon DEF PathEnds, N
<1>6. g[0] = {n} /\ \A k \in 1 .. N : g[k] = Onward(flow.edges, within, g[k - 1])
  <2>1. 0 \in 0 .. N /\ \A k \in 1 .. N : k \in 0 .. N /\ k # 0
    BY <1>1
  <2> QED
    BY <1>5, <2>1 DEF Onward
<1> QED
  BY <1>5, <1>6 DEF WalkedFrom

\* A path climbs at least one step with every edge.
LEMMA PathsClimb ==
    ASSUME NEW W, NEW E, NEW steps \in Seq(SUBSET W), Layered(E, steps), Placed(steps) = W,
           \A e \in flow.edges : e.from \in W /\ e.to \in W => e \in E,
           NEW n \in W
    PROVE  \A k \in 0 .. N : \A m \in PathEnds(n, W)[k] : \E i \in DOMAIN steps : i > k /\ m \in steps[i]
<1> DEFINE ends == PathEnds(n, W)
           Climbs(k) == \A m \in ends[k] : \E i \in DOMAIN steps : i > k /\ m \in steps[i]
           T == {k \in Nat : k <= N => Climbs(k)}
<1>0. N \in Nat
  BY FlowBuilderAssumption, FS_CardinalityType DEF N
<1>1. ends[0] = {n} /\ \A k \in 1 .. N : ends[k] = Onward(flow.edges, W, ends[k - 1])
  BY PathsWalk DEF WalkedFrom
<1>5. DOMAIN steps = 1 .. Len(steps) /\ Len(steps) \in Nat
  OBVIOUS
<1> HIDE DEF ends
<1>2. 0 \in T
  <2>1. PICK i \in DOMAIN steps : n \in steps[i]
    BY DEF Placed
  <2> QED
    BY <1>1, <1>5, <2>1
<1>3. ASSUME NEW k \in Nat, k \in T PROVE k + 1 \in T
  <2> SUFFICES ASSUME k + 1 <= N, NEW m \in ends[k + 1]
               PROVE  \E i \in DOMAIN steps : i > k + 1 /\ m \in steps[i]
    OBVIOUS
  <2>1. k + 1 \in 1 .. N /\ (k + 1) - 1 = k /\ Climbs(k)
    BY <1>0, <1>3
  <2>2. ends[k + 1] = Onward(flow.edges, W, ends[k])
    BY <1>1, <2>1
  <2>3. PICK e \in flow.edges : e.from \in ends[k] /\ e.to \in W /\ m = e.to
    BY <2>2 DEF Onward
  <2>4. PICK i \in DOMAIN steps : i > k /\ e.from \in steps[i]
    BY <2>1, <2>3
  <2>5. PICK j \in DOMAIN steps : m \in steps[j]
    BY <2>3 DEF Placed
  <2>6. e \in E
    BY <2>3, <2>4 DEF Placed
  <2>7. PICK h \in 1 .. j - 1 : e.from \in steps[h]
    BY <2>3, <2>5, <2>6 DEF Layered
  <2>8. j \in Nat /\ i \in Nat
    BY <1>5
  <2>9. h \in DOMAIN steps
    BY <1>5
  <2>10. h = i
    BY <2>4, <2>7, <2>9 DEF Layered
  <2> QED
    BY <2>4, <2>5, <2>8, <2>10
<1>4. Nat \subseteq T
  <2> HIDE DEF Climbs
  <2>1. \A k \in Nat : k \in T => k + 1 \in T
    BY <1>3
  <2> HIDE DEF T
  <2> QED
    BY <1>2, <2>1, NumberInduction
<1> QED
  BY <1>0, <1>4 DEF ends

\* And some path climbs exactly one step with every edge.
LEMMA PathsReach ==
    ASSUME NEW W, NEW E, NEW steps \in Seq(SUBSET W), Layered(E, steps), E \subseteq flow.edges,
           Len(steps) <= N
    PROVE  \A i \in DOMAIN steps : \A m \in steps[i] :
               i - 1 \in 0 .. N /\ \E n \in W : m \in PathEnds(n, W)[i - 1]
<1> DEFINE Reached(i) == \A m \in steps[i] : \E n \in W : m \in PathEnds(n, W)[i - 1]
           T == {k \in Nat : k + 1 \in DOMAIN steps => Reached(k + 1)}
<1>0. N \in Nat
  BY FlowBuilderAssumption, FS_CardinalityType DEF N
<1>1. DOMAIN steps = 1 .. Len(steps) /\ Len(steps) \in Nat /\ \A i \in DOMAIN steps : steps[i] \subseteq W
  OBVIOUS
<1>2. 0 \in T
  <2> SUFFICES ASSUME 0 + 1 \in DOMAIN steps, NEW m \in steps[1]
               PROVE  m \in W /\ m \in PathEnds(m, W)[1 - 1]
    OBVIOUS
  <2>1. PathEnds(m, W)[0] = {m}
    BY PathsWalk DEF WalkedFrom
  <2> QED
    BY <1>1, <2>1
<1>3. ASSUME NEW k \in Nat, k \in T PROVE k + 1 \in T
  <2> SUFFICES ASSUME (k + 1) + 1 \in DOMAIN steps, NEW m \in steps[(k + 1) + 1]
               PROVE  \E n \in W : m \in PathEnds(n, W)[((k + 1) + 1) - 1]
    OBVIOUS
  <2>1. PICK i \in DOMAIN steps : i = k + 2 /\ m \in steps[i]
    OBVIOUS
  <2>2. i > 1 /\ i - 1 = k + 1 /\ k + 1 \in DOMAIN steps /\ k + 1 \in 1 .. N /\ (k + 1) - 1 = k
    BY <1>0, <1>1, <2>1
  <2>3. PICK e \in E : e.to = m /\ e.from \in steps[k + 1]
    BY <2>1, <2>2 DEF Layered
  <2>4. PICK n \in W : e.from \in PathEnds(n, W)[k]
    BY <1>3, <2>2, <2>3
  <2>5. PathEnds(n, W)[k + 1] = Onward(flow.edges, W, PathEnds(n, W)[k])
    BY <2>2, PathsWalk DEF WalkedFrom
  <2>6. m \in PathEnds(n, W)[k + 1]
    BY <1>1, <2>1, <2>3, <2>4, <2>5 DEF Onward
  <2> QED
    BY <2>6
<1>4. Nat \subseteq T
  <2> HIDE DEF Reached
  <2>1. \A k \in Nat : k \in T => k + 1 \in T
    BY <1>3
  <2> HIDE DEF T
  <2> QED
    BY <1>2, <2>1, NumberInduction
<1> SUFFICES ASSUME NEW i \in DOMAIN steps, NEW m \in steps[i]
             PROVE  i - 1 \in 0 .. N /\ \E n \in W : m \in PathEnds(n, W)[i - 1]
  OBVIOUS
<1>5. i - 1 \in Nat /\ i - 1 <= N /\ (i - 1) + 1 = i
  BY <1>0, <1>1
<1>6. Reached(i)
  BY <1>4, <1>5
<1> QED
  BY <1>0, <1>5, <1>6

\* In a graph where each node of U has a predecessor in U, paths never end.
LEMMA EndlessPaths ==
    ASSUME NEW W, NEW U \in SUBSET W,
           \A u \in U : \E e \in flow.edges : e.to = u /\ e.from \in U
    PROVE  \A k \in 0 .. N : \A u \in U : \E n \in U : u \in PathEnds(n, W)[k]
<1> DEFINE T == {k \in Nat : k <= N => \A u \in U : \E n \in U : u \in PathEnds(n, W)[k]}
<1>0. N \in Nat
  BY FlowBuilderAssumption, FS_CardinalityType DEF N
<1>1. 0 \in T
  BY PathsWalk DEF WalkedFrom
<1>2. ASSUME NEW k \in Nat, k \in T PROVE k + 1 \in T
  <2> SUFFICES ASSUME k + 1 <= N, NEW u \in U PROVE \E n \in U : u \in PathEnds(n, W)[k + 1]
    OBVIOUS
  <2>1. k + 1 \in 1 .. N /\ (k + 1) - 1 = k /\ k <= N
    BY <1>0
  <2>2. PICK e \in flow.edges : e.to = u /\ e.from \in U
    OBVIOUS
  <2>3. PICK n \in U : e.from \in PathEnds(n, W)[k]
    BY <1>2, <2>1, <2>2
  <2>4. PathEnds(n, W)[k + 1] = Onward(flow.edges, W, PathEnds(n, W)[k])
    BY <2>1, PathsWalk DEF WalkedFrom
  <2> QED
    BY <2>2, <2>3, <2>4 DEF Onward
<1>3. Nat \subseteq T
  <2>1. \A k \in Nat : k \in T => k + 1 \in T
    BY <1>2
  <2> HIDE DEF T
  <2> QED
    BY <1>1, <2>1, NumberInduction
<1>4. ASSUME NEW k \in 0 .. N PROVE \A u \in U : \E n \in U : u \in PathEnds(n, W)[k]
  <2>1. k \in Nat /\ k <= N
    BY <1>0
  <2>2. k \in T
    BY <1>3, <2>1, Zenon
  <2> QED
    BY <2>1, <2>2
<1> QED
  BY <1>4

----------------------------------------------------------------------------
(* What compile answers.                                                     *)

\* A flow that is being built: finitely many edges, between its nodes.
Built ==
    /\ flow \in [nodes : SUBSET Node, enabled : SUBSET Node, edges : SUBSET [id : 1 .. MaxEdges, from : Node, port : Port, to : Node]]
    /\ flow.enabled \subseteq flow.nodes /\ IsFiniteSet(flow.edges)
    /\ \A e \in flow.edges : e.from \in flow.nodes /\ e.to \in flow.nodes

\* A flow that was built is well formed, and finite.
LEMMA BuiltIsWellFormed ==
    ASSUME Built
    PROVE  /\ WellFormed(flow) /\ flow.nodes \subseteq Node /\ IsFiniteSet(flow.nodes) /\ IsFiniteSet(flow.enabled)
           /\ IsFiniteSet(EnabledEdges(flow)) /\ N \in Nat
           /\ \A W \in SUBSET Node : IsFiniteSet(W) /\ Cardinality(W) \in Nat /\ Cardinality(W) <= N
<1>1. flow.nodes \subseteq Node /\ flow.enabled \subseteq Node
  BY DEF Built
<1>2. \A W \in SUBSET Node : IsFiniteSet(W) /\ Cardinality(W) \in Nat /\ Cardinality(W) <= N
  BY FlowBuilderAssumption, FS_Subset, FS_CardinalityType DEF N
<1>3. IsFiniteSet(EnabledEdges(flow))
  BY FS_Subset DEF Built, EnabledEdges
<1>4. WellFormed(flow)
  BY <1>1, <1>2 DEF Built, WellFormed
<1>5. N \in Nat
  BY FlowBuilderAssumption, FS_CardinalityType DEF N
<1> QED
  BY <1>1, <1>2, <1>3, <1>4, <1>5

\* The Kahn loop of a graph inside the flow takes at most N turns.
LEMMA FewSteps ==
    ASSUME Built, NEW W \in SUBSET flow.nodes, NEW E \in SUBSET flow.edges
    PROVE  /\ KahnResult(W, E, Kahn(W, E)) /\ Placed(Kahn(W, E)) \in SUBSET W
           /\ Len(Kahn(W, E)) \in Nat /\ Len(Kahn(W, E)) <= N
           /\ DOMAIN Kahn(W, E) = 1 .. Len(Kahn(W, E))
<1>1. IsFiniteSet(W) /\ IsFiniteSet(E) /\ W \in SUBSET Node
  BY BuiltIsWellFormed, FS_Subset DEF Built
<1>2. KahnResult(W, E, Kahn(W, E))
  BY <1>1, KahnLayers
<1>3. Placed(Kahn(W, E)) \in SUBSET W
  BY <1>2 DEF KahnResult, Placed
<1>4. Cardinality(Placed(Kahn(W, E))) \in Nat /\ Cardinality(Placed(Kahn(W, E))) <= N
  BY <1>1, <1>3, BuiltIsWellFormed
<1>5. Len(Kahn(W, E)) \in Nat /\ DOMAIN Kahn(W, E) = 1 .. Len(Kahn(W, E))
  BY <1>2 DEF KahnResult
<1>6. Len(Kahn(W, E)) <= N
  <2>1. Len(Kahn(W, E)) <= Cardinality(Placed(Kahn(W, E)))
    BY <1>2 DEF KahnResult
  <2>2. N \in Nat
    BY BuiltIsWellFormed
  <2> QED
    BY <1>4, <1>5, <2>1, <2>2
<1> QED
  BY <1>2, <1>3, <1>5, <1>6

\* A flow is refused exactly when it has a cycle.
LEMMA RefusesCycles ==
    ASSUME Built
    PROVE  /\ Compile(flow).status \in {"ok", "cycle"}
           /\ Compile(flow).status = "cycle" <=> HasCycle
<1> DEFINE full == Kahn(flow.nodes, flow.edges)
<1>1. /\ KahnResult(flow.nodes, flow.edges, full) /\ Placed(full) \in SUBSET flow.nodes
      /\ Len(full) \in Nat /\ Len(full) <= N /\ DOMAIN full = 1 .. Len(full)
  BY FewSteps
<1>2. N \in Nat /\ IsFiniteSet(flow.nodes) /\ flow.nodes \subseteq Node
  BY BuiltIsWellFormed
<1>3. ValidateAcyclic(flow) <=> Placed(full) = flow.nodes
  BY <1>1, <1>2, FS_Subset DEF ValidateAcyclic
<1>4. /\ ValidateAcyclic(flow) => Compile(flow).status = "ok"
      /\ ~ValidateAcyclic(flow) => Compile(flow).status = "cycle"
  BY DEF Compile
<1> HIDE DEF full
<1>5. ASSUME Placed(full) = flow.nodes, HasCycle PROVE FALSE
  <2>1. PICK n \in flow.nodes : PathEnds(n, flow.nodes)[N] # {}
    BY <1>5 DEF HasCycle, N
  <2>2. PICK m : m \in PathEnds(n, flow.nodes)[N]
    BY <2>1
  <2>3. full \in Seq(SUBSET flow.nodes) /\ Layered(flow.edges, full)
    BY <1>1 DEF KahnResult
  <2>4. \E i \in DOMAIN full : i > N /\ m \in full[i]
    <3>1. N \in 0 .. N
      BY <1>2
    <3> QED
      BY <1>5, <2>2, <2>3, <3>1, PathsClimb
  <2> QED
    BY <1>1, <1>2, <2>4
<1>6. ASSUME Placed(full) # flow.nodes PROVE HasCycle
  <2> DEFINE U == flow.nodes \ Placed(full)
  <2>1. PICK u \in U : TRUE
    BY <1>1, <1>6
  <2>2. \A v \in U : \E e \in flow.edges : e.to = v /\ e.from \in U
    BY <1>1 DEF KahnResult, Closed, Built
  <2>3. \E n \in U : u \in PathEnds(n, flow.nodes)[N]
    <3>1. N \in 0 .. N /\ U \in SUBSET flow.nodes
      BY <1>2
    <3> HIDE DEF U
    <3> QED
      BY <2>1, <2>2, <3>1, EndlessPaths
  <2> QED
    BY <2>3 DEF HasCycle, N
<1> QED
  BY <1>3, <1>4, <1>5, <1>6

\* The step of a node is the length of the longest path that leads to it.
LEMMA DepthIsStep ==
    ASSUME Built, Compile(flow).status = "ok"
    PROVE  LET steps == Compile(flow).steps
           IN  /\ steps \in Seq(SUBSET flow.enabled)
               /\ Placed(steps) = flow.enabled
               /\ \A i \in DOMAIN steps : steps[i] # {} /\ \A n \in steps[i] : Depth(n) = i - 1
<1> DEFINE steps == Compile(flow).steps
<1>1. steps \in Seq(SUBSET flow.enabled) /\ Placed(steps) = flow.enabled /\ Layered(EnabledEdges(flow), steps)
  BY CompileGivesPlan, BuiltIsWellFormed DEF PlanOf
<1>2. Len(steps) <= N
  <2>1. steps = Kahn(flow.enabled, EnabledEdges(flow))
    BY DEF Compile, EnabledEdges
  <2>2. flow.enabled \in SUBSET flow.nodes /\ EnabledEdges(flow) \in SUBSET flow.edges
    BY DEF Built, EnabledEdges
  <2> QED
    BY <2>1, <2>2, FewSteps
<1> HIDE DEF steps
<1>3. N \in Nat /\ DOMAIN steps = 1 .. Len(steps) /\ Len(steps) \in Nat
  BY <1>1, BuiltIsWellFormed
<1>4. ASSUME NEW i \in DOMAIN steps, NEW n \in steps[i] PROVE Depth(n) = i - 1
  <2> DEFINE lengths == {k \in 0 .. N : \E m \in flow.enabled : n \in PathEnds(m, flow.enabled)[k]}
  <2>1. i - 1 \in lengths
    <3>1. EnabledEdges(flow) \subseteq flow.edges
      BY DEF EnabledEdges
    <3> QED
      BY <1>1, <1>2, <1>4, <3>1, PathsReach
  <2>2. ASSUME NEW k \in lengths PROVE k <= i - 1
    <3>1. PICK m \in flow.enabled : n \in PathEnds(m, flow.enabled)[k]
      OBVIOUS
    <3>2. \A e \in flow.edges : e.from \in flow.enabled /\ e.to \in flow.enabled => e \in EnabledEdges(flow)
      BY DEF EnabledEdges
    <3>3. k \in 0 .. N
      OBVIOUS
    <3>4. PICK j \in DOMAIN steps : j > k /\ n \in steps[j]
      BY <1>1, <3>1, <3>2, <3>3, PathsClimb
    <3>5. j = i
      BY <1>1, <1>4, <3>4 DEF Layered
    <3> QED
      BY <1>3, <3>3, <3>4, <3>5
  <2>3. lengths \subseteq Nat
    BY <1>3
  <2>4. Depth(n) = CHOOSE k \in lengths : \A j \in lengths : j <= k
    BY DEF Depth, N
  <2> HIDE DEF lengths
  <2>5. \A k \in lengths : (\A j \in lengths : j <= k) => k = i - 1
    BY <1>3, <1>4, <2>1, <2>2, <2>3
  <2> QED
    BY <2>1, <2>2, <2>4, <2>5
<1>5. \A i \in DOMAIN steps : steps[i] # {}
  BY <1>1 DEF Layered
<1> QED
  BY <1>1, <1>4, <1>5 DEF steps

----------------------------------------------------------------------------
(* Restricting a flow to a trigger.                                          *)

\* Whatever is downstream of the trigger was reached over an edge from
\* something downstream.
LEMMA DownstreamIsReached ==
    ASSUME Built, NEW t \in flow.nodes, NEW n \in Downstream(flow, t), n # t
    PROVE  \E e \in flow.edges : e.to = n /\ e.from \in Downstream(flow, t)
<1> DEFINE M == Cardinality(flow.nodes)
           S == SUBSET ({t} \cup {e.to : e \in flow.edges})
           F == [s \in S |-> s \cup {e.to : e \in {d \in flow.edges : d.from \in s}}]
           IsReach(g) == g = [k \in 0 .. M |->
                                IF k = 0 THEN {t}
                                ELSE g[k - 1] \cup {e.to : e \in {d \in flow.edges : d.from \in g[k - 1]}}]
<1>1. M \in Nat
  BY BuiltIsWellFormed, FS_CardinalityType
<1>2. {t} \in S /\ F \in [S -> S]
  OBVIOUS
<1>3. PICK f \in [0 .. M -> S] : f[0] = {t} /\ \A k \in 1 .. M : f[k] = F[f[k - 1]]
  <2> HIDE DEF S, F, M
  <2>1. \E f : Iterates(f, S, {t}, F, M)
    BY <1>1, <1>2, Iteration
  <2> QED
    BY <2>1 DEF Iterates
<1>4. IsReach(f)
  <2>1. ASSUME NEW k \in 0 .. M, k # 0
        PROVE  f[k] = f[k - 1] \cup {e.to : e \in {d \in flow.edges : d.from \in f[k - 1]}}
    <3>1. k \in 1 .. M /\ k - 1 \in 0 .. M
      BY <1>1, <2>1
    <3>2. f[k - 1] \in S /\ f[k] = F[f[k - 1]]
      BY <1>3, <3>1
    <3> QED
      BY <3>2
  <2> HIDE DEF S, M
  <2> QED
    BY <1>3, <2>1
<1>5. PICK g : IsReach(g) /\ Downstream(flow, t) = g[M]
  BY <1>4, Zenon DEF Downstream
<1>6. g[0] = {t} /\ \A k \in 1 .. M : g[k] = g[k - 1] \cup {e.to : e \in {d \in flow.edges : d.from \in g[k - 1]}}
  <2>1. 0 \in 0 .. M /\ \A k \in 1 .. M : k \in 0 .. M /\ k # 0
    BY <1>1
  <2> HIDE DEF M
  <2> QED
    BY <1>5, <2>1
<1> HIDE DEF M, IsReach
<1> DEFINE Reached(k) == \A m \in g[k] : m = t \/ \E e \in flow.edges : e.to = m /\ e.from \in g[k]
           T == {k \in Nat : k <= M => Reached(k)}
<1>7. 0 \in T
  BY <1>6
<1>8. ASSUME NEW k \in Nat, k \in T PROVE k + 1 \in T
  <2> SUFFICES ASSUME k + 1 <= M, NEW m \in g[k + 1], m # t
               PROVE  \E e \in flow.edges : e.to = m /\ e.from \in g[k + 1]
    OBVIOUS
  <2>1. k + 1 \in 1 .. M /\ (k + 1) - 1 = k /\ k <= M
    BY <1>1
  <2>2. g[k + 1] = g[k] \cup {e.to : e \in {d \in flow.edges : d.from \in g[k]}}
    BY <1>6, <2>1
  <2>3. CASE m \in g[k]
    BY <1>8, <2>1, <2>2, <2>3
  <2>4. CASE m \notin g[k]
    BY <2>2, <2>4
  <2> QED
    BY <2>3, <2>4
<1>9. Nat \subseteq T
  <2> HIDE DEF Reached
  <2>1. \A k \in Nat : k \in T => k + 1 \in T
    BY <1>8
  <2> HIDE DEF T
  <2> QED
    BY <1>7, <2>1, NumberInduction
<1>10. Reached(M)
  <2>1. M \in T
    BY <1>1, <1>9
  <2> QED
    BY <1>1, <2>1
<1> QED
  BY <1>5, <1>10

\* After restrict_to_trigger the nodes that are left, but for the trigger, all have an edge that leads to them.
Fed == \A n \in flow.nodes : n \in trigger \/ trigger = {} \/ (\E e \in flow.edges : e.to = n)

\* A flow cut down to one trigger feeds every node but the trigger.
LEMMA RestrictionIsFed ==
    ASSUME Built, NEW t \in flow.nodes, flow' = RestrictToTrigger(flow, t)
    PROVE  Built' /\ \A n \in flow'.nodes : n = t \/ (\E e \in flow'.edges : e.to = n)
<1> DEFINE keep == Downstream(flow, t)
<1>1. flow' = [nodes |-> flow.nodes \cap keep, enabled |-> flow.enabled \cap keep,
               edges |-> {e \in flow.edges : e.from \in keep /\ e.to \in keep}]
  BY DEF RestrictToTrigger
<1>2. \A n \in keep : n # t => \E e \in flow.edges : e.to = n /\ e.from \in keep
  BY DownstreamIsReached
<1> HIDE DEF keep
<1>3. /\ flow'.nodes = flow.nodes \cap keep /\ flow'.enabled = flow.enabled \cap keep
      /\ flow'.edges = {e \in flow.edges : e.from \in keep /\ e.to \in keep}
  BY <1>1
<1>4. IsFiniteSet(flow'.edges)
  BY <1>3, FS_Subset DEF Built
<1>5. Built'
  BY <1>1, <1>3, <1>4 DEF Built
<1>6. \A n \in flow'.nodes : n = t \/ (\E e \in flow'.edges : e.to = n)
  BY <1>2, <1>3
<1> QED
  BY <1>5, <1>6

\* In a flow that compiles some node has no edge that leads to it.
LEMMA SomeRoot ==
    ASSUME Built, Compile(flow).status = "ok", flow.nodes # {}
    PROVE  \E n \in flow.nodes : IncomingEdges(flow, n) = {}
<1> DEFINE full == Kahn(flow.nodes, flow.edges)
<1>1. /\ KahnResult(flow.nodes, flow.edges, full) /\ Placed(full) \in SUBSET flow.nodes
      /\ Len(full) \in Nat /\ DOMAIN full = 1 .. Len(full)
  BY FewSteps
<1>2. Placed(full) = flow.nodes
  <2>1. Cardinality(Placed(full)) = Cardinality(flow.nodes)
    BY DEF Compile, ValidateAcyclic
  <2> QED
    BY <1>1, <2>1, BuiltIsWellFormed, FS_Subset
<1> HIDE DEF full
<1>3. 1 \in DOMAIN full
  BY <1>1, <1>2 DEF Placed
<1>4. PICK n : n \in full[1]
  BY <1>1, <1>3 DEF KahnResult, Layered
<1>5. n \in flow.nodes
  BY <1>1, <1>3, <1>4 DEF KahnResult
<1>6. ASSUME NEW e \in flow.edges, e.to = n PROVE FALSE
  <2>1. \E j \in 1 .. 1 - 1 : e.from \in full[j]
    BY <1>1, <1>3, <1>4, <1>6 DEF KahnResult, Layered
  <2> QED
    BY <2>1
<1> QED
  BY <1>5, <1>6 DEF IncomingEdges

----------------------------------------------------------------------------
(* The flow's inductive invariant.                                           *)

BuilderInv ==
    /\ Built
    /\ trigger \subseteq Node /\ \A s, t \in trigger : s = t
    /\ Fed
    /\ plan = NoPlan \/ plan = Compile(flow)

\* The builder's invariant holds at first.
LEMMA InitBuilder == BuilderInit => BuilderInv
BY FS_EmptySet DEF BuilderInit, BuilderInv, Built, Fed

\* Every step of the builder keeps it.
LEMMA StepBuilder == BuilderInv /\ [BuilderNext]_builderVars => BuilderInv'
<1> SUFFICES ASSUME BuilderInv, [BuilderNext]_builderVars PROVE BuilderInv'
  OBVIOUS
<1> USE DEF BuilderInv
<1>1. CASE UNCHANGED builderVars
  BY <1>1 DEF builderVars, Built, Fed
<1>2. ASSUME NEW n \in Node, AddNode(n) PROVE BuilderInv'
  <2>1. /\ flow' = [flow EXCEPT !.nodes = flow.nodes \cup {n}, !.enabled = flow.enabled \cup {n}]
        /\ trigger' = trigger /\ plan' = plan /\ trigger = {} /\ plan = NoPlan
    BY <1>2 DEF AddNode, Building
  <2>2. /\ flow'.nodes = flow.nodes \cup {n} /\ flow'.enabled = flow.enabled \cup {n} /\ flow'.edges = flow.edges
        /\ flow' \in [nodes : SUBSET Node, enabled : SUBSET Node, edges : SUBSET [id : 1 .. MaxEdges, from : Node, port : Port, to : Node]]
    BY <2>1 DEF Built
  <2> QED
    BY <2>1, <2>2 DEF Built, Fed
<1>3. ASSUME NEW n \in Node, Disable(n) PROVE BuilderInv'
  <2>1. /\ flow' = [flow EXCEPT !.enabled = flow.enabled \ {n}]
        /\ trigger' = trigger /\ plan' = plan /\ trigger = {} /\ plan = NoPlan
    BY <1>3 DEF Disable, Building
  <2>2. /\ flow'.nodes = flow.nodes /\ flow'.enabled = flow.enabled \ {n} /\ flow'.edges = flow.edges
        /\ flow' \in [nodes : SUBSET Node, enabled : SUBSET Node, edges : SUBSET [id : 1 .. MaxEdges, from : Node, port : Port, to : Node]]
    BY <2>1 DEF Built
  <2> QED
    BY <2>1, <2>2 DEF Built, Fed
<1>4. ASSUME NEW a \in Node, NEW p \in Port, NEW b \in Node, Connect(a, p, b) PROVE BuilderInv'
  <2> DEFINE new == [id |-> Cardinality(flow.edges) + 1, from |-> a, port |-> p, to |-> b]
  <2>1. /\ flow' = [flow EXCEPT !.edges = flow.edges \cup {new}]
        /\ trigger' = trigger /\ plan' = plan /\ trigger = {} /\ plan = NoPlan
        /\ a \in flow.nodes /\ b \in flow.nodes /\ Cardinality(flow.edges) < MaxEdges
    BY <1>4 DEF Connect, Building
  <2>2. new \in [id : 1 .. MaxEdges, from : Node, port : Port, to : Node] /\ new.from = a /\ new.to = b
    <3>1. Cardinality(flow.edges) \in Nat
      BY FS_CardinalityType DEF Built
    <3>2. Cardinality(flow.edges) + 1 \in 1 .. MaxEdges
      BY <2>1, <3>1, FlowBuilderAssumption
    <3> QED
      BY <3>2
  <2> HIDE DEF new
  <2>3. /\ flow'.nodes = flow.nodes /\ flow'.enabled = flow.enabled /\ flow'.edges = flow.edges \cup {new}
        /\ flow' \in [nodes : SUBSET Node, enabled : SUBSET Node, edges : SUBSET [id : 1 .. MaxEdges, from : Node, port : Port, to : Node]]
    BY <2>1, <2>2 DEF Built
  <2>4. IsFiniteSet(flow'.edges)
    BY <2>3, FS_AddElement DEF Built
  <2>5. Built'
    BY <2>1, <2>2, <2>3, <2>4 DEF Built
  <2> QED
    BY <2>1, <2>5 DEF Fed
<1>5. ASSUME NEW t \in Node, Prune(t) PROVE BuilderInv'
  <2>1. t \in flow.nodes /\ trigger' = {t} /\ flow' = RestrictToTrigger(flow, t) /\ plan' = plan /\ plan = NoPlan
    BY <1>5 DEF Prune, Building
  <2>2. Built' /\ \A n \in flow'.nodes : n = t \/ (\E e \in flow'.edges : e.to = n)
    BY <2>1, RestrictionIsFed
  <2>3. trigger' \subseteq Node /\ \A s, r \in trigger' : s = r
    BY <2>1
  <2>4. Fed'
    BY <2>1, <2>2 DEF Fed
  <2>5. plan' = NoPlan
    BY <2>1
  <2> QED
    BY <2>2, <2>3, <2>4, <2>5
<1>6. CASE CompilePlan
  BY <1>6 DEF CompilePlan, Built, Fed
<1> QED
  BY <1>1, <1>2, <1>3, <1>4, <1>5, <1>6 DEF BuilderNext

----------------------------------------------------------------------------
(* The theorems about plans.                                                 *)

(***************************************************************************)
(* The strengthening: edges lead from nodes of the flow to nodes of the     *)
(* flow, what is left of a flow after restrict_to_trigger is fed by the     *)
(* trigger alone, and a plan is the one of the flow as it is.               *)
(***************************************************************************)
THEOREM BuilderInvariant == BuilderSpec => []BuilderInv
BY InitBuilder, StepBuilder, PTL DEF BuilderSpec

\* It gives every variable its type.
LEMMA BuilderTypes ==
    ASSUME BuilderInv
    PROVE  BuilderTypeOK
<1>1. Built
  BY DEF BuilderInv
<1>2. flow.nodes \subseteq Node /\ flow.enabled \subseteq flow.nodes
  BY <1>1 DEF Built
<1>3. flow.edges \subseteq [id : 1 .. MaxEdges, from : flow.nodes, port : Port, to : flow.nodes]
  <2> SUFFICES ASSUME NEW e \in flow.edges
               PROVE  e \in [id : 1 .. MaxEdges, from : flow.nodes, port : Port, to : flow.nodes]
    OBVIOUS
  <2>1. e \in [id : 1 .. MaxEdges, from : Node, port : Port, to : Node] /\ e.from \in flow.nodes /\ e.to \in flow.nodes
    BY <1>1 DEF Built
  <2> QED
    BY <2>1
<1>4. Cardinality(trigger) <= 1
  <2>1. CASE trigger = {}
    BY <2>1, FS_EmptySet
  <2>2. CASE trigger # {}
    <3>1. PICK t : trigger = {t}
      BY <2>2 DEF BuilderInv
    <3>2. Cardinality({t}) = 1
      BY FS_Singleton
    <3> QED
      BY <3>1, <3>2
  <2> QED
    BY <2>1, <2>2
<1>5. plan.status \in {"none", "ok", "cycle"} /\ plan.steps \in Seq(SUBSET Node)
  <2>1. CASE plan = NoPlan
    BY <2>1 DEF NoPlan
  <2>2. CASE plan = Compile(flow) /\ Compile(flow).status = "ok"
    <3>1. Compile(flow).steps \in Seq(SUBSET flow.enabled)
      BY <1>1, <2>2, DepthIsStep
    <3> QED
      BY <1>2, <2>2, <3>1
  <2>3. CASE plan = Compile(flow) /\ Compile(flow).status # "ok"
    <3>1. plan = [status |-> "cycle", steps |-> << >>]
      BY <2>3 DEF Compile
    <3> QED
      BY <3>1
  <2> QED
    BY <2>1, <2>2, <2>3 DEF BuilderInv
<1> QED
  BY <1>2, <1>3, <1>4, <1>5 DEF BuilderTypeOK, BuilderInv

(***************************************************************************)
(* For every flow of any size: it is refused exactly when it has a cycle,   *)
(* and otherwise its plan runs every enabled node once, in the step that is *)
(* the length of the longest path to it, with the trigger that was called   *)
(* as the only root.                                                        *)
(***************************************************************************)
THEOREM PlansAreExact == BuilderSpec => []CompileIsExact
<1>1. BuilderInv => CompileIsExact
  <2> SUFFICES ASSUME BuilderInv PROVE CompileIsExact
    OBVIOUS
  <2>0. Built /\ (plan = NoPlan \/ plan = Compile(flow)) /\ NoPlan.status = "none"
    BY DEF BuilderInv, NoPlan
  <2>1. RefusesExactlyCycles
    BY <2>0, RefusesCycles DEF RefusesExactlyCycles
  <2>2. StepIsDepth
    <3> SUFFICES ASSUME plan.status = "ok" PROVE StepIsDepth
      BY DEF StepIsDepth, Compiled
    <3>1. plan = Compile(flow) /\ Compile(flow).status = "ok"
      BY <2>0
    <3> QED
      BY <2>0, <3>1, DepthIsStep DEF StepIsDepth
  <2>3. OnlyTriggerIsRoot
    <3> SUFFICES ASSUME NEW t \in trigger, plan.status = "ok"
                 PROVE  RootNodes(flow) = flow.enabled \cap trigger
      BY DEF OnlyTriggerIsRoot, Compiled
    <3>1. Compile(flow).status = "ok" /\ trigger = {t} /\ Fed /\ flow.enabled \subseteq flow.nodes
      BY <2>0 DEF BuilderInv, Built
    <3>2. ASSUME t \in flow.enabled PROVE IncomingEdges(flow, t) = {}
      <4>1. PICK n \in flow.nodes : IncomingEdges(flow, n) = {}
        BY <2>0, <3>1, <3>2, SomeRoot
      <4> QED
        BY <3>1, <4>1 DEF Fed, IncomingEdges
    <3> QED
      BY <3>1, <3>2 DEF RootNodes, Fed, IncomingEdges
  <2> QED
    BY <2>1, <2>2, <2>3, BuilderTypes DEF CompileIsExact
<1> QED
  BY <1>1, BuilderInvariant, PTL

----------------------------------------------------------------------------
(* The engine.  Its theorems rest on one inductive invariant, IInv.          *)
(* OneVerdictAfterStart alone is not inductive: nothing in it says that an   *)
(* execution whose driver has yet to announce something has not announced it *)
(* before.                                                                   *)

Begun    == {"plan", "returned", "decided", "sent", "closing", "gone"}
Told     == {"sent", "closing", "gone"}

\* The map holds exactly the executions between insertion and removal.
MapIsDriver == \A t \in Trace : t \in active <=> driver[t] \in InMap

\* The verdict is settled when the driver has read the flag.
VerdictIsDriver ==
    \A t \in Trace : verdict[t] = "none" <=> driver[t] \in {"none", "listed", "plan", "returned"}

\* execute_plan has returned exactly when the driver is past it, and a
\* cancelled or failed plan never ends as completed.
ResultIsDriver ==
    \A t \in Trace :
        /\ result[t] = "none" <=> driver[t] \in {"none", "listed", "plan"}
        /\ result[t] = "cut" => flag[t]
        /\ verdict[t] = "completed" => result[t] = "ok"

\* An event of an execution is in the log only from the step that sends it.
LogBehindDriver ==
    \A i \in DOMAIN log :
        /\ log[i].kind = "started" => driver[log[i].trace] \in Begun
        /\ log[i].kind \in Verdicts => driver[log[i].trace] \in Told

\* And from that step on it is there.
DriverBehindLog ==
    \A t \in Trace :
        /\ driver[t] \in Begun =>
              \E i \in DOMAIN log : log[i] = Ev("started", t)
        /\ driver[t] \in Told =>
              \E i \in DOMAIN log : log[i].trace = t /\ log[i].kind \in Verdicts

\* OneVerdictAfterStart, position by position.
StartedOnce ==
    \A i, j \in DOMAIN log :
        (log[i].kind = "started" /\ log[j].kind = "started" /\ log[i].trace = log[j].trace)
            => i = j

VerdictOnce ==
    \A i, j \in DOMAIN log :
        (log[i].kind \in Verdicts /\ log[j].kind \in Verdicts /\ log[i].trace = log[j].trace)
            => i = j

VerdictAfterStart ==
    \A j \in DOMAIN log : log[j].kind \in Verdicts =>
        \E i \in DOMAIN log : log[i] = Ev("started", log[j].trace) /\ i < j

IInv ==
    /\ TypeOK
    /\ MapIsDriver
    /\ VerdictIsDriver
    /\ ResultIsDriver
    /\ LogBehindDriver
    /\ DriverBehindLog
    /\ StartedOnce
    /\ VerdictOnce
    /\ VerdictAfterStart

----------------------------------------------------------------------------
(* Appending to the log.                                                   *)

\* What an appended event leaves in place.
LEMMA AppendEvent ==
    ASSUME NEW L \in Seq(Event), NEW e \in Event
    PROVE  /\ Append(L, e) \in Seq(Event)
           /\ Len(L) \in Nat
           /\ DOMAIN L = 1 .. Len(L)
           /\ DOMAIN Append(L, e) = 1 .. Len(L) + 1
           /\ \A i \in 1 .. Len(L) : Append(L, e)[i] = L[i]
           /\ Append(L, e)[Len(L) + 1] = e
  OBVIOUS

\* What is in the log is an event of a trace.
LEMMA LoggedEvent ==
    ASSUME NEW L \in Seq(Event), NEW i \in DOMAIN L
    PROVE  L[i] \in Event /\ L[i].trace \in Trace
<1>1. L[i] \in Event
  OBVIOUS
<1> QED
  BY <1>1 DEF Event

\* What the engine logs is an event.
LEMMA EventInSet ==
    ASSUME NEW t \in Trace, NEW k \in {"started", "node"} \cup Verdicts
    PROVE  Ev(k, t) \in Event /\ Ev(k, t).kind = k /\ Ev(k, t).trace = t
  BY DEF Ev, Event

----------------------------------------------------------------------------
\* Sending an event e of execution t keeps what IInv says of the log, when t
\* is where the event needs it to be.
LEMMA SendEvent ==
    ASSUME IInv,
           NEW t \in Trace, NEW k \in {"started", "node"} \cup Verdicts,
           driver' \in [Trace -> DriverStates],
           \A u \in Trace : u # t => driver'[u] = driver[u],
           log' = Append(log, Ev(k, t)),
           driver[t] \in Begun => driver'[t] \in Begun,
           driver[t] \in Told => driver'[t] \in Told,
           k = "started" => driver[t] = "listed" /\ driver'[t] = "plan",
           k = "node" => driver'[t] = driver[t],
           k \in Verdicts => driver[t] = "decided" /\ driver'[t] \in Told
    PROVE  /\ log' \in Seq(Event)
           /\ LogBehindDriver'
           /\ DriverBehindLog'
           /\ StartedOnce'
           /\ VerdictOnce'
           /\ VerdictAfterStart'
<1> DEFINE n == Len(log)
           e == Ev(k, t)
<1>1. e \in Event /\ e.kind = k /\ e.trace = t
  BY EventInSet
<1>2. log \in Seq(Event)
  BY DEF IInv, TypeOK
<1>3. /\ log' \in Seq(Event)
      /\ n \in Nat
      /\ DOMAIN log = 1 .. n
      /\ DOMAIN log' = 1 .. n + 1
      /\ \A i \in 1 .. n : log'[i] = log[i]
      /\ log'[n + 1] = e
  <2> HIDE DEF e
  <2> QED
    BY <1>1, <1>2, AppendEvent DEF e
<1>4. \A i \in 1 .. n : log[i] \in Event /\ log[i].trace \in Trace
  BY <1>2, <1>3, LoggedEvent
<1>5. \A i \in 1 .. n + 1 : i \in 1 .. n \/ i = n + 1
  BY <1>3
<1> HIDE DEF n, e
<1>6. LogBehindDriver'
  <2> SUFFICES ASSUME NEW i \in 1 .. n + 1
               PROVE /\ log'[i].kind = "started" => driver'[log'[i].trace] \in Begun
                     /\ log'[i].kind \in Verdicts => driver'[log'[i].trace] \in Told
    BY <1>3 DEF LogBehindDriver
  <2>1. CASE i \in 1 .. n
    BY <2>1, <1>3, <1>4 DEF IInv, LogBehindDriver, Begun, Told
  <2>2. CASE i = n + 1
    BY <2>2, <1>1, <1>3 DEF Begun, Verdicts
  <2> QED
    BY <2>1, <2>2, <1>5
<1>7. DriverBehindLog'
  <2> SUFFICES ASSUME NEW u \in Trace
               PROVE /\ driver'[u] \in Begun =>
                           \E i \in DOMAIN log' : log'[i] = Ev("started", u)
                     /\ driver'[u] \in Told =>
                           \E i \in DOMAIN log' : log'[i].trace = u /\ log'[i].kind \in Verdicts
    BY DEF DriverBehindLog
  <2>0. \A i \in DOMAIN log : i \in DOMAIN log' /\ log'[i] = log[i]
    BY <1>3
  <2>1. CASE driver[u] \in Begun /\ (driver'[u] \in Told => driver[u] \in Told)
    BY <2>0, <2>1 DEF IInv, DriverBehindLog
  <2>2. CASE driver[u] \notin Begun /\ driver'[u] \in Begun
    <3>1. u = t /\ k = "started" /\ driver'[t] \notin Told
      BY <2>2, <1>1 DEF Begun, Told, Verdicts
    <3>2. log'[n + 1] = Ev("started", u) /\ n + 1 \in DOMAIN log'
      BY <3>1, <1>3 DEF e
    <3> QED
      BY <3>1, <3>2
  <2>3. CASE driver'[u] \in Told /\ driver[u] \in Begun /\ driver[u] \notin Told
    <3>1. u = t /\ k \in Verdicts
      BY <2>3 DEF Begun, Told, Verdicts
    <3>2. log'[n + 1].trace = u /\ log'[n + 1].kind \in Verdicts /\ n + 1 \in DOMAIN log'
      BY <3>1, <1>1, <1>3
    <3> QED
      BY <2>0, <2>3, <3>2 DEF IInv, DriverBehindLog
  <2>4. CASE driver'[u] \notin Begun
    BY <2>4 DEF Begun, Told
  <2> QED
    BY <2>1, <2>2, <2>3, <2>4
<1>8. StartedOnce'
  <2> SUFFICES ASSUME NEW i \in 1 .. n + 1, NEW j \in 1 .. n + 1,
                      log'[i].kind = "started", log'[j].kind = "started",
                      log'[i].trace = log'[j].trace
               PROVE i = j
    BY <1>3 DEF StartedOnce
  <2>1. CASE i \in 1 .. n /\ j \in 1 .. n
    BY <2>1, <1>3 DEF IInv, StartedOnce
  <2>2. ASSUME NEW m \in 1 .. n, log[m].kind = "started", log[m].trace = t, k = "started"
        PROVE FALSE
    BY <2>2, <1>3 DEF IInv, LogBehindDriver, Begun
  <2>3. CASE i = n + 1 \/ j = n + 1
    BY <2>2, <2>3, <1>1, <1>3, <1>5
  <2> QED
    BY <2>1, <2>3, <1>5
<1>9. VerdictOnce'
  <2> SUFFICES ASSUME NEW i \in 1 .. n + 1, NEW j \in 1 .. n + 1,
                      log'[i].kind \in Verdicts, log'[j].kind \in Verdicts,
                      log'[i].trace = log'[j].trace
               PROVE i = j
    BY <1>3 DEF VerdictOnce
  <2>1. CASE i \in 1 .. n /\ j \in 1 .. n
    BY <2>1, <1>3 DEF IInv, VerdictOnce
  <2>2. ASSUME NEW m \in 1 .. n, log[m].kind \in Verdicts, log[m].trace = t, k \in Verdicts
        PROVE FALSE
    BY <2>2, <1>3 DEF IInv, LogBehindDriver, Told
  <2>3. CASE i = n + 1 \/ j = n + 1
    BY <2>2, <2>3, <1>1, <1>3, <1>5
  <2> QED
    BY <2>1, <2>3, <1>5
<1>10. VerdictAfterStart'
  <2> SUFFICES ASSUME NEW j \in 1 .. n + 1, log'[j].kind \in Verdicts
               PROVE \E i \in 1 .. n + 1 : log'[i] = Ev("started", log'[j].trace) /\ i < j
    BY <1>3 DEF VerdictAfterStart
  <2>1. CASE j \in 1 .. n
    <3>1. PICK i \in 1 .. n : log[i] = Ev("started", log[j].trace) /\ i < j
      BY <2>1, <1>3 DEF IInv, VerdictAfterStart
    <3> QED
      BY <3>1, <2>1, <1>3
  <2>2. CASE j = n + 1
    <3>1. k \in Verdicts /\ log'[j].trace = t /\ driver[t] = "decided"
      BY <2>2, <1>1, <1>3
    <3>2. PICK i \in 1 .. n : log[i] = Ev("started", t)
      BY <3>1, <1>3 DEF IInv, DriverBehindLog, Begun
    <3> QED
      BY <3>1, <3>2, <2>2, <1>3
  <2> QED
    BY <2>1, <2>2, <1>5
<1> QED
  BY <1>3, <1>6, <1>7, <1>8, <1>9, <1>10

\* A step that sends nothing keeps it too, when no driver crosses one of the
\* two points where an event is due.
LEMMA SendNothing ==
    ASSUME IInv,
           log' = log,
           \A u \in Trace : driver'[u] \in Begun <=> driver[u] \in Begun,
           \A u \in Trace : driver'[u] \in Told <=> driver[u] \in Told
    PROVE  /\ LogBehindDriver'
           /\ DriverBehindLog'
           /\ StartedOnce'
           /\ VerdictOnce'
           /\ VerdictAfterStart'
<1>1. \A i \in DOMAIN log : log[i].trace \in Trace
  BY LoggedEvent DEF IInv, TypeOK
<1>2. LogBehindDriver'
  BY <1>1 DEF IInv, LogBehindDriver
<1>3. DriverBehindLog'
  BY DEF IInv, DriverBehindLog
<1>4. StartedOnce' /\ VerdictOnce' /\ VerdictAfterStart'
  BY DEF IInv, StartedOnce, VerdictOnce, VerdictAfterStart
<1> QED
  BY <1>2, <1>3, <1>4

----------------------------------------------------------------------------
\* The engine's invariant holds at first.
LEMMA InitIInv == Init => IInv
  BY FlowEngineAssumption
     DEF Init, IInv, TypeOK, DriverStates, InMap, MapIsDriver, VerdictIsDriver, ResultIsDriver, LogBehindDriver,
         DriverBehindLog, StartedOnce, VerdictOnce, VerdictAfterStart, Begun, Told

\* Every step of the engine keeps it.
LEMMA NextIInv == IInv /\ [Next]_vars => IInv'
<1> SUFFICES ASSUME IInv, [Next]_vars PROVE IInv'
  OBVIOUS
<1> USE FlowEngineAssumption
<1>0. TypeOK /\ MapIsDriver /\ VerdictIsDriver /\ ResultIsDriver
  BY DEF IInv
<1>1. ASSUME NEW t \in Trace, Insert(t) PROVE IInv'
  <2>1. TypeOK' /\ MapIsDriver' /\ VerdictIsDriver' /\ ResultIsDriver'
    BY <1>0, <1>1
       DEF Insert, TypeOK, MapIsDriver, VerdictIsDriver, ResultIsDriver, DriverStates, InMap, Verdicts
  <2>2. \A u \in Trace : (driver'[u] \in Begun <=> driver[u] \in Begun)
                         /\ (driver'[u] \in Told <=> driver[u] \in Told)
    BY <1>0, <1>1 DEF Insert, TypeOK, Begun, Told
  <2> QED
    BY <1>1, <2>1, <2>2, SendNothing DEF Insert, IInv
<1>2. ASSUME NEW t \in Trace, EmitStarted(t) PROVE IInv'
  <2>1. driver' = [driver EXCEPT ![t] = "plan"] /\ driver[t] = "listed"
    BY <1>2 DEF EmitStarted
  <2>2. /\ driver' \in [Trace -> DriverStates]
        /\ driver'[t] = "plan"
        /\ \A u \in Trace : u # t => driver'[u] = driver[u]
    BY <1>0, <2>1 DEF TypeOK, DriverStates
  <2>3. log' \in Seq(Event) /\ LogBehindDriver' /\ DriverBehindLog'
        /\ StartedOnce' /\ VerdictOnce' /\ VerdictAfterStart'
    BY <1>2, <2>1, <2>2, SendEvent DEF EmitStarted, Begun, Told, Verdicts
  <2>4. TypeOK' /\ MapIsDriver' /\ VerdictIsDriver' /\ ResultIsDriver'
    BY <1>0, <1>2, <2>2, <2>3
       DEF EmitStarted, TypeOK, MapIsDriver, VerdictIsDriver, ResultIsDriver, InMap
  <2> QED
    BY <2>3, <2>4 DEF IInv
<1>3. ASSUME NEW t \in Trace, NodeEvent(t) PROVE IInv'
  <2>1. /\ driver' \in [Trace -> DriverStates] /\ driver' = driver
        /\ log' = Append(log, Ev("node", t))
    BY <1>0, <1>3 DEF NodeEvent, TypeOK
  <2>2. log' \in Seq(Event) /\ LogBehindDriver' /\ DriverBehindLog'
        /\ StartedOnce' /\ VerdictOnce' /\ VerdictAfterStart'
    BY <1>3, <2>1, SendEvent DEF Verdicts
  <2>3. emitted' \in 0 .. MaxNodeEvents
    BY <1>0, <1>3 DEF NodeEvent, TypeOK
  <2>4. TypeOK' /\ MapIsDriver' /\ VerdictIsDriver' /\ ResultIsDriver'
    BY <1>0, <1>3, <2>2, <2>3 DEF NodeEvent, TypeOK, MapIsDriver, VerdictIsDriver, ResultIsDriver
  <2> QED
    BY <2>2, <2>4 DEF IInv
<1>4. ASSUME NEW t \in Trace, PlanReturns(t) PROVE IInv'
  <2>1. TypeOK' /\ MapIsDriver' /\ VerdictIsDriver' /\ ResultIsDriver'
    BY <1>0, <1>4
       DEF PlanReturns, TypeOK, MapIsDriver, VerdictIsDriver, ResultIsDriver, DriverStates, InMap
  <2>2. \A u \in Trace : (driver'[u] \in Begun <=> driver[u] \in Begun)
                         /\ (driver'[u] \in Told <=> driver[u] \in Told)
    BY <1>0, <1>4 DEF PlanReturns, TypeOK, Begun, Told
  <2> QED
    BY <1>4, <2>1, <2>2, SendNothing DEF PlanReturns, IInv
<1>5. ASSUME NEW t \in Trace, Decide(t) PROVE IInv'
  <2>1. VerdictOf(t) \in Verdicts /\ (VerdictOf(t) = "completed" => result[t] = "ok")
    BY DEF VerdictOf, Verdicts
  <2>2. TypeOK' /\ MapIsDriver' /\ VerdictIsDriver' /\ ResultIsDriver'
    BY <1>0, <1>5, <2>1
       DEF Decide, TypeOK, MapIsDriver, VerdictIsDriver, ResultIsDriver, DriverStates, InMap, Verdicts
  <2>3. \A u \in Trace : (driver'[u] \in Begun <=> driver[u] \in Begun)
                         /\ (driver'[u] \in Told <=> driver[u] \in Told)
    BY <1>0, <1>5 DEF Decide, TypeOK, Begun, Told
  <2> QED
    BY <1>5, <2>2, <2>3, SendNothing DEF Decide, IInv
<1>6. ASSUME NEW t \in Trace, EmitTerminal(t) PROVE IInv'
  <2>1. verdict[t] \in Verdicts /\ driver[t] = "decided"
    BY <1>0, <1>6 DEF EmitTerminal, TypeOK, VerdictIsDriver
  <2>2. /\ driver' \in [Trace -> DriverStates]
        /\ driver'[t] \in {"sent", "closing"}
        /\ \A u \in Trace : u # t => driver'[u] = driver[u]
    BY <1>0, <1>6 DEF EmitTerminal, TypeOK, DriverStates
  <2>3. log' \in Seq(Event) /\ LogBehindDriver' /\ DriverBehindLog'
        /\ StartedOnce' /\ VerdictOnce' /\ VerdictAfterStart'
    BY <1>6, <2>1, <2>2, SendEvent DEF EmitTerminal, Begun, Told, Verdicts
  <2>4. TypeOK' /\ MapIsDriver' /\ VerdictIsDriver' /\ ResultIsDriver'
    BY <1>0, <1>6, <2>1, <2>2, <2>3
       DEF EmitTerminal, TypeOK, MapIsDriver, VerdictIsDriver, ResultIsDriver, InMap
  <2> QED
    BY <2>3, <2>4 DEF IInv
<1>7. ASSUME NEW t \in Trace, SetExecutionStatus(t) PROVE IInv'
  <2>1. verdict[t] \in Verdicts
    BY <1>0, <1>7 DEF SetExecutionStatus, TypeOK, VerdictIsDriver
  <2>2. TypeOK' /\ MapIsDriver' /\ VerdictIsDriver' /\ ResultIsDriver'
    BY <1>0, <1>7, <2>1
       DEF SetExecutionStatus, TypeOK, MapIsDriver, VerdictIsDriver, ResultIsDriver, DriverStates, InMap
  <2>3. \A u \in Trace : (driver'[u] \in Begun <=> driver[u] \in Begun)
                         /\ (driver'[u] \in Told <=> driver[u] \in Told)
    BY <1>0, <1>7 DEF SetExecutionStatus, TypeOK, Begun, Told
  <2> QED
    BY <1>7, <2>2, <2>3, SendNothing DEF SetExecutionStatus, IInv
<1>8. ASSUME NEW t \in Trace, RemoveExecution(t) PROVE IInv'
  <2>1. TypeOK' /\ MapIsDriver' /\ VerdictIsDriver' /\ ResultIsDriver'
    BY <1>0, <1>8
       DEF RemoveExecution, TypeOK, MapIsDriver, VerdictIsDriver, ResultIsDriver, DriverStates, InMap
  <2>2. \A u \in Trace : (driver'[u] \in Begun <=> driver[u] \in Begun)
                         /\ (driver'[u] \in Told <=> driver[u] \in Told)
    BY <1>0, <1>8 DEF RemoveExecution, TypeOK, Begun, Told
  <2> QED
    BY <1>8, <2>1, <2>2, SendNothing DEF RemoveExecution, IInv
<1>9. ASSUME NEW S \in SUBSET Trace, CancelAll(S) PROVE IInv'
  <2>1. TypeOK' /\ MapIsDriver' /\ VerdictIsDriver' /\ ResultIsDriver'
    BY <1>0, <1>9 DEF CancelAll, TypeOK, MapIsDriver, VerdictIsDriver, ResultIsDriver, Verdicts
  <2> QED
    BY <1>9, <2>1, SendNothing DEF CancelAll, IInv
<1>10. ASSUME UNCHANGED vars PROVE IInv'
  <2>1. TypeOK' /\ MapIsDriver' /\ VerdictIsDriver' /\ ResultIsDriver'
    BY <1>0, <1>10 DEF vars, TypeOK, MapIsDriver, VerdictIsDriver, ResultIsDriver
  <2> QED
    BY <1>10, <2>1, SendNothing DEF vars, IInv
<1>11. ASSUME NEW f \in Flow, Stop(f) PROVE IInv'
  <2>1. {t \in active : flowOf[t] = f} \in SUBSET Trace
    BY <1>0 DEF TypeOK
  <2> QED
    BY <1>9, <1>11, <2>1 DEF Stop
<1>12. ASSUME NEW t \in Trace, CancelExecution(t) PROVE IInv'
  BY <1>9, <1>12 DEF CancelExecution
<1> QED
  BY <1>1, <1>2, <1>3, <1>4, <1>5, <1>6, <1>7, <1>8, <1>10, <1>11, <1>12 DEF Next

\* The invariant from which the engine's properties follow, in every state of engine.rs: the
\* registry of executions, their tasks and the events in the log agree.
THEOREM EngineInvariant == Spec => []IInv
  BY InitIInv, NextIInv, PTL DEF Spec

----------------------------------------------------------------------------
(* What the runs check on a small instance.                                *)

\* Every variable of the engine keeps its type, in particular no execution
\* gets a verdict or an event outside the ones the source names.
THEOREM TypeCorrect == Spec => []TypeOK
<1>1. IInv => TypeOK
  BY DEF IInv
<1> QED
  BY <1>1, EngineInvariant, PTL

\* Subscribers see one FlowStarted and at most one terminal event of an
\* execution, in this order (the events of execute_with_trigger).
THEOREM OneVerdict == Spec => []OneVerdictAfterStart
<1>1. IInv => OneVerdictAfterStart
  <2> SUFFICES ASSUME IInv, NEW t \in Trace
               PROVE /\ \A i, j \in At(t, {"started"}) : i = j
                     /\ \A i, j \in At(t, Verdicts) : i = j
                     /\ \A j \in At(t, Verdicts) : \E i \in At(t, {"started"}) : i < j
    BY DEF OneVerdictAfterStart
  <2>1. \A i, j \in At(t, {"started"}) : i = j
    BY DEF IInv, StartedOnce, At
  <2>2. \A i, j \in At(t, Verdicts) : i = j
    BY DEF IInv, VerdictOnce, At
  <2>3. ASSUME NEW j \in At(t, Verdicts) PROVE \E i \in At(t, {"started"}) : i < j
    <3>1. j \in DOMAIN log /\ log[j].kind \in Verdicts /\ log[j].trace = t
      BY DEF At
    <3>2. PICK i \in DOMAIN log : log[i] = Ev("started", t) /\ i < j
      BY <3>1 DEF IInv, VerdictAfterStart
    <3> QED
      BY <3>2, EventInSet DEF At
  <2> QED
    BY <2>1, <2>2, <2>3
<1> QED
  BY <1>1, EngineInvariant, PTL

\* An execution that has left the active map has been announced
\* (remove_execution comes after every terminal event).
THEOREM GoneAnnounced == Spec => []GoneIsAnnounced
<1>1. IInv => GoneIsAnnounced
  <2> SUFFICES ASSUME IInv, NEW t \in Trace, t \notin active, driver[t] # "none"
               PROVE At(t, Verdicts) # {}
    BY DEF GoneIsAnnounced
  <2>1. driver[t] \in Told
    BY DEF IInv, TypeOK, MapIsDriver, InMap, DriverStates, Told
  <2>2. PICK i \in DOMAIN log : log[i].trace = t /\ log[i].kind \in Verdicts
    BY <2>1 DEF IInv, DriverBehindLog
  <2> QED
    BY <2>2 DEF At
<1> QED
  BY <1>1, EngineInvariant, PTL

\* An execution that is cancelled while its plan runs is never announced as
\* completed or failed (is_cancelled() is read before the result is).
THEOREM StopIsHonoured == Spec => StopWins
<1> DEFINE Cut(t) == flag[t] /\ verdict[t] \in {"none", "stopped"}
<1>1. ASSUME NEW t \in Trace, IInv, driver[t] = "plan", flag[t] PROVE Cut(t)
  BY <1>1 DEF IInv, VerdictIsDriver
<1>2. ASSUME NEW t \in Trace, IInv, Cut(t), [Next]_vars PROVE Cut(t)'
  <2> USE <1>2 DEF IInv, TypeOK
  <2>1. ASSUME NEW u \in Trace, Decide(u) PROVE Cut(t)'
    BY <2>1 DEF Decide, VerdictOf
  <2>2. ASSUME NEW S \in SUBSET Trace, CancelAll(S) PROVE Cut(t)'
    BY <2>2 DEF CancelAll
  <2>3. ASSUME NEW u \in Trace,
               \/ Insert(u) \/ EmitStarted(u) \/ NodeEvent(u) \/ PlanReturns(u)
               \/ EmitTerminal(u) \/ SetExecutionStatus(u) \/ RemoveExecution(u)
        PROVE Cut(t)'
    BY <2>3 DEF Insert, EmitStarted, NodeEvent, PlanReturns, EmitTerminal,
                SetExecutionStatus, RemoveExecution
  <2>4. ASSUME NEW f \in Flow, Stop(f) PROVE Cut(t)'
    <3>1. {u \in active : flowOf[u] = f} \in SUBSET Trace
      OBVIOUS
    <3> QED
      BY <2>2, <2>4, <3>1 DEF Stop
  <2>5. ASSUME NEW u \in Trace, CancelExecution(u) PROVE Cut(t)'
    BY <2>2, <2>5 DEF CancelExecution
  <2>6. CASE UNCHANGED vars
    BY <2>6 DEF vars
  <2> QED
    BY <2>1, <2>3, <2>4, <2>5, <2>6 DEF Next
<1>3. ASSUME NEW t \in Trace
      PROVE Spec => [](driver[t] = "plan" /\ flag[t] => [](verdict[t] \in {"none", "stopped"}))
  <2>1. IInv /\ driver[t] = "plan" /\ flag[t] => Cut(t)
    BY <1>1
  <2>2. IInv /\ Cut(t) /\ [Next]_vars => Cut(t)'
    BY <1>2
  <2>3. Cut(t) => verdict[t] \in {"none", "stopped"}
    OBVIOUS
  <2> QED
    BY <2>1, <2>2, <2>3, EngineInvariant, PTL DEF Spec
<1> QED
  BY <1>3 DEF StopWins

----------------------------------------------------------------------------
(* The engine implements the lifecycle.                                    *)

\* The engine starts as the abstract lifecycle does.
LEMMA LifecycleInit == Init => Lifecycle!Init
  BY DEF Init, Lifecycle!Init, phase

\* Every step of the engine is a step of the lifecycle or changes nothing there.
LEMMA LifecycleStep == IInv /\ [Next]_vars => [Lifecycle!Next]_(Lifecycle!lifecycleVars)
<1> SUFFICES ASSUME IInv, [Next]_vars
             PROVE Lifecycle!Next \/ UNCHANGED Lifecycle!lifecycleVars
  BY DEF Lifecycle!lifecycleVars
<1>0. TypeOK /\ MapIsDriver /\ VerdictIsDriver /\ ResultIsDriver
  BY DEF IInv
<1> USE <1>0 DEF TypeOK, DriverStates
<1>1. ASSUME NEW t \in Trace, Insert(t) PROVE Lifecycle!List(t)
  BY <1>1 DEF Insert, Lifecycle!List, phase
<1>2. ASSUME NEW t \in Trace, EmitStarted(t) PROVE Lifecycle!Begin(t)
  BY <1>2 DEF EmitStarted, Lifecycle!Begin, phase, Ev, Lifecycle!Ev
<1>3. ASSUME NEW t \in Trace, Decide(t) PROVE Lifecycle!Settle(t)
  <2>1. /\ VerdictOf(t) \in Verdicts
        /\ VerdictOf(t) = "stopped" <=> flag[t]
    BY DEF VerdictOf, Verdicts
  <2>2. phase[t] = "running" /\ phase' = [phase EXCEPT ![t] = "settled"]
    BY <1>3 DEF Decide, phase
  <2> QED
    BY <1>3, <2>1, <2>2 DEF Decide, Lifecycle!Settle, Verdicts, Lifecycle!Verdicts
<1>4. ASSUME NEW t \in Trace, EmitTerminal(t) PROVE Lifecycle!Announce(t)
  BY <1>4 DEF EmitTerminal, Lifecycle!Announce, phase, Ev, Lifecycle!Ev
<1>5. ASSUME NEW t \in Trace, RemoveExecution(t) PROVE Lifecycle!Leave(t)
  BY <1>5 DEF RemoveExecution, Lifecycle!Leave, phase
<1>6. ASSUME NEW t \in Trace, PlanReturns(t) \/ SetExecutionStatus(t)
      PROVE UNCHANGED Lifecycle!lifecycleVars
  BY <1>6 DEF PlanReturns, SetExecutionStatus, Lifecycle!lifecycleVars, phase
<1>7. ASSUME NEW S \in SUBSET active, CancelAll(S) PROVE Lifecycle!Ask(S)
  <2>1. \A t \in S : phase[t] \notin {"new", "gone"}
    BY DEF MapIsDriver, InMap, phase
  <2>2. phase' = phase
    BY <1>7 DEF CancelAll, phase
  <2> QED
    BY <1>7, <2>1, <2>2 DEF CancelAll, Lifecycle!Ask
<1>8. ASSUME NEW t \in Trace, NodeEvent(t) PROVE Lifecycle!Report(t)
  BY <1>8 DEF NodeEvent, ResultIsDriver, Lifecycle!Report, phase, Ev, Lifecycle!Ev
<1>9. ASSUME NEW f \in Flow, Stop(f) PROVE Lifecycle!Next
  <2>1. {t \in active : flowOf[t] = f} \in SUBSET active
    OBVIOUS
  <2> QED
    BY <1>9, <1>7, <2>1 DEF Stop, Lifecycle!Next
<1>10. ASSUME NEW t \in Trace, CancelExecution(t) PROVE Lifecycle!Next
  BY <1>7, <1>10 DEF CancelExecution, Lifecycle!Next
<1>11. CASE UNCHANGED vars
  BY <1>11 DEF vars, Lifecycle!lifecycleVars, phase
<1> QED
  BY <1>1, <1>2, <1>3, <1>4, <1>5, <1>6, <1>8, <1>9, <1>10, <1>11
     DEF Next, Lifecycle!Next

\* Whatever a subscriber or a caller sees of the engine, the lifecycle of
\* ExecutionLifecycle allows.
THEOREM EngineImplementsLifecycle == Spec => ImplementsLifecycle
  BY LifecycleInit, LifecycleStep, EngineInvariant, PTL
     DEF Spec, ImplementsLifecycle, Lifecycle!Spec
============================================================================
