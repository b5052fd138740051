-------------------------- MODULE MCPlanExecution --------------------------
EXTENDS PlanExecution

MCNode == {"a", "b", "c", "d"}

E(id, from, port, to) == [id |-> id, from |-> from, port |-> port, to |-> to]
FlowOf(nodes, edges) == [nodes |-> nodes, enabled |-> nodes, edges |-> edges]

\* Conditional routing that meets again.
Diamond == FlowOf(MCNode, {E(1, "a", "yes", "b"), E(2, "a", "no", "c"),
                           E(3, "b", "yes", "d"), E(4, "c", "yes", "d")})
\* Two triggers, one shared target, and a node nothing is connected to.
Join == FlowOf(MCNode, {E(1, "a", "yes", "c"), E(2, "b", "yes", "c")})
\* Two parallel edges, then a chain.
Parallel == FlowOf({"a", "b", "c"}, {E(1, "a", "yes", "b"), E(2, "a", "no", "b"),
                                     E(3, "b", "yes", "c")})
\* An edge that skips a step.
SkipLevel == FlowOf({"a", "b", "c"}, {E(1, "a", "yes", "b"), E(2, "b", "yes", "c"),
                                      E(3, "a", "yes", "c")})

\* One node after the other.
Chain == FlowOf({"a", "b"}, {E(1, "a", "yes", "b")})

\* A node that was disabled, at the end of two edges.
Off == [FlowOf({"a", "b", "c"}, {E(1, "a", "yes", "b"), E(2, "a", "no", "c"),
                                 E(3, "b", "yes", "c")}) EXCEPT !.enabled = {"a", "b"}]

AllFlows  == {Diamond, Join, Parallel, SkipLevel, Off}
SkipFlow  == {SkipLevel}
ChainFlow == {Chain}
============================================================================
