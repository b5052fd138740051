----------------------------- MODULE FlowCanvas -----------------------------
(***************************************************************************)
(* The canvas of the editor and what the flow routes make of it             *)
(* (z8run-api/src/routes.rs): the check before a canvas is stored, the hook *)
(* routes of its triggers, and the executable flow.                         *)
(*                                                                         *)
(* A canvas is [nodes, edges].  A node is [id, type, nodeType, route,       *)
(* secret]: data.type and data.nodeType, of which the editor writes the     *)
(* first and other clients may write the second, the method and path of a   *)
(* trigger, and the vault key its configuration refers to.  An edge is      *)
(* <<source, target>>.  Absent stands for a field that is not there.        *)
(***************************************************************************)
EXTENDS Naturals, Sequences, SequencesExt

CONSTANT Absent

NoCanvas == [nodes |-> Absent, edges |-> Absent]

HookTypes == {"http-in", "webhook", "webhook-trigger"}

\* data.get("type").or_else(nodeType): a field that is there, even if empty.
StatedType(n) == IF n.type # Absent THEN n.type ELSE n.nodeType

\* What the server checks before it stores a canvas: its structure only.
ValidateCanvas(c) ==
    /\ c.nodes # Absent =>
         \A n \in ToSet(c.nodes) : n.id \notin {Absent, ""} /\ StatedType(n) \notin {Absent, ""}
    /\ c.edges # Absent => \A e \in ToSet(c.edges) : e[1] \notin {Absent, ""} /\ e[2] \notin {Absent, ""}

Nodes(c) == IF c.nodes = Absent THEN <<>> ELSE c.nodes

\* The triggers that can be bound to a route.
Triggers(c) == {n \in ToSet(Nodes(c)) : n.type \in HookTypes /\ n.id \notin {Absent, ""}}

HookRoutes(c) == {[route |-> n.route, node |-> n.id] : n \in Triggers(c)}

\* Two triggers declare one method and path: no deploy.
AmbiguousRoutes(c) ==
    \E i, j \in DOMAIN Nodes(c) :
        i < j /\ {c.nodes[i], c.nodes[j]} \subseteq Triggers(c) /\ c.nodes[i].route = c.nodes[j].route

\* The owner and the key a reference of the configuration is looked up under.
ResolveVaultRefs(n, user) == IF n.secret = Absent THEN {} ELSE {<<user, n.secret>>}

CoreId(n) == IF n.id = Absent THEN "unknown" ELSE n.id

\* The executable flow: a node per canvas node, and the edges between nodes
\* that are there.
CanvasToFlow(c, user) ==
    [nodes |-> [i \in DOMAIN c.nodes |->
                  [id |-> CoreId(c.nodes[i]),
                   type |-> IF StatedType(c.nodes[i]) = Absent THEN "function"
                            ELSE StatedType(c.nodes[i]),
                   secrets |-> ResolveVaultRefs(c.nodes[i], user)]],
     edges |-> LET ids == {CoreId(n) : n \in ToSet(c.nodes)}
               IN  IF c.edges = Absent THEN <<>>
                   ELSE SelectSeq(c.edges, LAMBDA e : e[1] \in ids /\ e[2] \in ids)]

SecretsOf(flow) == UNION {flow.nodes[i].secrets : i \in DOMAIN flow.nodes}
=============================================================================
