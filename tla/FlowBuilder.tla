---------------------------- MODULE FlowBuilder ----------------------------
(***************************************************************************)
(* The life of a flow before it runs: nodes and edges are added by         *)
(* Flow::add_node and Flow::connect (or by canvas_to_flow, which builds the *)
(* same structure from the stored canvas), a node may be disabled, a        *)
(* webhook call may restrict the flow to its trigger, and                   *)
(* ExecutionPlan::compile turns the result into steps.                      *)
(*                                                                         *)
(* The properties compare the two Kahn loops and the pruning with           *)
(* definitions that mention neither: cycles and longest paths.              *)
(***************************************************************************)
EXTENDS FlowGraph

CONSTANTS Node,      \* node ids
          Port,      \* output ports
          MaxEdges   \* bound on the number of edges

ASSUME FlowBuilderAssumption == MaxEdges \in Nat /\ IsFiniteSet(Node)

VARIABLES flow,      \* the flow being built
          trigger,   \* {t} once restrict_to_trigger(t) has run, {} before
          plan       \* the outcome of compile, NoPlan before

builderVars == <<flow, trigger, plan>>

NoPlan == [status |-> "none", steps |-> << >>]

BuilderTypeOK ==
    /\ flow.nodes \subseteq Node
    /\ flow.enabled \subseteq flow.nodes
    /\ flow.edges \subseteq [id : 1 .. MaxEdges, from : flow.nodes, port : Port, to : flow.nodes]
    /\ trigger \in SUBSET Node /\ Cardinality(trigger) <= 1
    /\ plan.status \in {"none", "ok", "cycle"}
    /\ plan.steps \in Seq(SUBSET Node)

BuilderInit ==
    /\ flow = [nodes |-> {}, enabled |-> {}, edges |-> {}]
    /\ trigger = {}
    /\ plan = NoPlan

Building == trigger = {} /\ plan = NoPlan

\* A new node is enabled (Node::new).
AddNode(n) ==
    /\ Building
    /\ n \notin flow.nodes
    /\ flow' = [flow EXCEPT !.nodes = @ \cup {n}, !.enabled = @ \cup {n}]
    /\ UNCHANGED <<trigger, plan>>

\* Both ways of adding an edge refuse one whose ends are not nodes of the
\* flow.  Nothing refuses a second edge between the same two nodes, or a loop.
Connect(a, p, b) ==
    /\ Building
    /\ a \in flow.nodes /\ b \in flow.nodes
    /\ Cardinality(flow.edges) < MaxEdges
    /\ flow' = [flow EXCEPT !.edges =
                  @ \cup {[id |-> Cardinality(@) + 1, from |-> a, port |-> p, to |-> b]}]
    /\ UNCHANGED <<trigger, plan>>

\* The flag is a public field of Node.
Disable(n) ==
    /\ Building
    /\ n \in flow.enabled
    /\ flow' = [flow EXCEPT !.enabled = @ \ {n}]
    /\ UNCHANGED <<trigger, plan>>

Prune(t) ==
    /\ Building
    /\ t \in flow.nodes
    /\ trigger' = {t}
    /\ flow' = RestrictToTrigger(flow, t)
    /\ UNCHANGED plan

CompilePlan ==
    /\ plan = NoPlan
    /\ plan' = Compile(flow)
    /\ UNCHANGED <<flow, trigger>>

BuilderNext ==
    \/ \E n \in Node : AddNode(n) \/ Disable(n) \/ Prune(n)
    \/ \E a, b \in Node, p \in Port : Connect(a, p, b)
    \/ CompilePlan

BuilderSpec == BuilderInit /\ [][BuilderNext]_builderVars

----------------------------------------------------------------------------
(* Reference definitions.                                                  *)

\* The nodes at the end of a path of exactly k edges from n, within `within`.
PathEnds(n, within) ==
    LET ends[k \in 0 .. Cardinality(Node)] ==
            IF k = 0 THEN {n}
            ELSE {e.to : e \in {d \in flow.edges : d.from \in ends[k - 1] /\ d.to \in within}}
    IN  ends

\* A finite graph has a cycle exactly when some path has as many edges as
\* there are nodes.
HasCycle == \E n \in flow.nodes : PathEnds(n, flow.nodes)[Cardinality(Node)] # {}

\* Length of the longest path of enabled nodes that ends at n.
Depth(n) ==
    LET lengths == {k \in 0 .. Cardinality(Node) :
                      \E m \in flow.enabled : n \in PathEnds(m, flow.enabled)[k]}
    IN  CHOOSE k \in lengths : \A j \in lengths : j <= k

----------------------------------------------------------------------------
(* Properties.                                                             *)

Compiled == plan.status = "ok"

\* A compile fails exactly on the flows that have a cycle (also through a
\* disabled node): no flow is refused because of parallel edges, and none
\* with a loop is accepted with the nodes of the loop silently left out.
RefusesExactlyCycles ==
    plan # NoPlan => (plan.status = "cycle" <=> HasCycle)

\* The plan runs every enabled node exactly once, each in the earliest step
\* its enabled predecessors allow: the step of a node is the length of the
\* longest path that leads to it ("maximizing parallelism", scheduler.rs:4).
StepIsDepth ==
    Compiled =>
        /\ Placed(plan.steps) = flow.enabled
        /\ \A i \in DOMAIN plan.steps :
              plan.steps[i] # {} /\ \A n \in plan.steps[i] : Depth(n) = i - 1

\* After restrict_to_trigger a flow that compiles has one root, the trigger
\* that was called: a request never fires another trigger's branch
\* (routes.rs:1029).  A disabled trigger leaves nothing that would get it.
OnlyTriggerIsRoot ==
    (trigger # {} /\ Compiled) => RootNodes(flow) = flow.enabled \cap trigger

\* A plan is exact: which flows it refuses, which nodes it runs, when, and for
\* which trigger; of edges whose ends are nodes of the flow.
CompileIsExact == BuilderTypeOK /\ RefusesExactlyCycles /\ StepIsDepth /\ OnlyTriggerIsRoot
============================================================================
