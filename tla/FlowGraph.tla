----------------------------- MODULE FlowGraph -----------------------------
(***************************************************************************)
(* A flow as data: the directed multigraph of z8run-core/src/flow.rs, the  *)
(* layering that scheduler.rs compiles it into, and the pruning that a     *)
(* webhook call applies before it runs it (routes.rs, restrict_to_trigger).*)
(*                                                                         *)
(* A flow is a record with fields                                          *)
(*   nodes    the set of node ids                                          *)
(*   enabled  the nodes whose `enabled` flag is set                        *)
(*   edges    a set of records [id, from, port, to]: `port` is the output  *)
(*            port of `from`.  The id keeps parallel edges apart.          *)
(* The input port of an edge is never looked at once the flow runs, so it  *)
(* is left out.                                                            *)
(***************************************************************************)
EXTENDS Naturals, FiniteSets, Sequences

OutgoingEdges(flow, n) == {e \in flow.edges : e.from = n}

IncomingEdges(flow, n) == {e \in flow.edges : e.to = n}

\* Enabled nodes that no edge enters: the nodes that get the trigger message.
RootNodes(flow) == {n \in flow.enabled : IncomingEdges(flow, n) = {}}

----------------------------------------------------------------------------
(* Kahn's algorithm.  flow.rs runs it node by node to detect cycles and    *)
(* scheduler.rs batch by batch to build the plan.  Both count an edge once *)
(* into the in-degree of its target and take it off once, when its source  *)
(* leaves the queue, so parallel edges weigh more than one.                *)

InDegree(edges, n) == Cardinality({e \in edges : e.to = n})

\* One turn of the batch loop: the batch becomes a step, its edges are
\* taken off, and the targets whose degree reaches zero are the next batch.
DrainBatch(edges, s) ==
    LET hits(n) == Cardinality({e \in edges : e.from \in s.batch /\ e.to = n})
        left    == [n \in DOMAIN s.degree |-> s.degree[n] - hits(n)]
    IN  [degree |-> left,
         batch  |-> {n \in DOMAIN left : hits(n) > 0 /\ left[n] = 0},
         steps  |-> Append(s.steps, s.batch)]

\* Each turn takes at least one node, so Cardinality(nodes) turns empty the
\* queue.  The function is recursive, as the loop is.
Kahn(nodes, edges) ==
    LET degree == [n \in nodes |-> InDegree(edges, n)]
        turn[k \in 0 .. Cardinality(nodes)] ==
            IF k = 0
            THEN [degree |-> degree,
                  batch  |-> {n \in nodes : degree[n] = 0},
                  steps  |-> << >>]
            ELSE IF turn[k - 1].batch = {}
                 THEN turn[k - 1]
                 ELSE DrainBatch(edges, turn[k - 1])
    IN  turn[Cardinality(nodes)].steps

\* The nodes that appear in some step.
Placed(steps) == UNION {steps[i] : i \in DOMAIN steps}

\* `visited != node_ids.len()` is the cycle error.
ValidateAcyclic(flow) ==
    Cardinality(Placed(Kahn(flow.nodes, flow.edges))) = Cardinality(flow.nodes)

\* Faulty: edges out of disabled nodes hold their targets back for ever.
CompileAllEdges(flow) ==
    IF ValidateAcyclic(flow)
    THEN [status |-> "ok", steps |-> Kahn(flow.enabled, flow.edges)]
    ELSE [status |-> "cycle", steps |-> << >>]

\* The plan covers the enabled nodes and only the edges between them.
Compile(flow) ==
    IF ValidateAcyclic(flow)
    THEN [status |-> "ok",
          steps  |-> Kahn(flow.enabled,
                          {e \in flow.edges : {e.from, e.to} \subseteq flow.enabled})]
    ELSE [status |-> "cycle", steps |-> << >>]

----------------------------------------------------------------------------
(* restrict_to_trigger: breadth-first search from the trigger, then drop   *)
(* every other node and every edge that touches one.                       *)

Downstream(flow, trigger) ==
    LET reach[k \in 0 .. Cardinality(flow.nodes)] ==
            IF k = 0
            THEN {trigger}
            ELSE reach[k - 1] \cup {e.to : e \in {d \in flow.edges : d.from \in reach[k - 1]}}
    IN  reach[Cardinality(flow.nodes)]

\* Faulty: an edge is kept for its target, so pruned nodes still have edges.
RestrictByTarget(flow, trigger) ==
    LET keep == Downstream(flow, trigger)
    IN  [nodes   |-> flow.nodes \cap keep,
         enabled |-> flow.enabled \cap keep,
         edges   |-> {e \in flow.edges : e.to \in keep}]

RestrictToTrigger(flow, trigger) ==
    LET keep == Downstream(flow, trigger)
    IN  [nodes   |-> flow.nodes \cap keep,
         enabled |-> flow.enabled \cap keep,
         edges   |-> {e \in flow.edges : e.from \in keep /\ e.to \in keep}]
============================================================================
