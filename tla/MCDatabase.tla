----------------------------- MODULE MCDatabase -----------------------------
(***************************************************************************)
(* Two modules about one database, side by side: what server processes do   *)
(* to it while they start, and what the flow routes do to it once a server  *)
(* is up.  A behaviour is one or the other, as `part` says.                 *)
(***************************************************************************)
EXTENDS FlowStore, ServerStart
CONSTANTS u1, u2, f1, f2, k1, k2, k3, s1, s2

VARIABLE part

Node(id, type, route, key) ==
    [id |-> id, type |-> type, nodeType |-> Absent, route |-> route, secret |-> key]
Hook(id, r) == Node(id, "http-in", r, Absent)
Plain(id, key) == Node(id, "llm", Absent, key)

MCCall == {k1, k2, k3}

\* Two triggers under other routes, two that clash, a flow without triggers
\* and an edge from nowhere, one that import does not know, and one that no
\* client may store.
MCCanvas == {
    [nodes |-> <<Hook("a", "GET /"), Plain("b", "key")>>, edges |-> << <<"a", "b">> >>],
    [nodes |-> <<Hook("a", "GET /x")>>, edges |-> Absent],
    [nodes |-> <<Hook("a", "GET /"), Hook("b", "GET /")>>, edges |-> <<>>],
    [nodes |-> <<Plain("b", "key")>>, edges |-> << <<"a", "b">> >>],
    [nodes |-> <<Node("b", Absent, Absent, Absent)>>, edges |-> <<>>],
    [nodes |-> <<Node("c", "custom", Absent, Absent)>>, edges |-> <<>>] }

AServerIsUp ==
    /\ at = [s \in Server |-> IF s = s1 THEN "up" ELSE "off"]
    /\ backend = "sqlite" /\ env = Secret /\ keys = 0 /\ faults = 0
    /\ file = [k \in Secret |-> Missing]
    /\ secret = [s \in Server |-> [k \in Secret |-> 0]]
    /\ todo = [s \in Server |-> <<0, <<>>>>]
    /\ shape = Newest /\ recorded = Version
    /\ sealedBy = {} /\ signedBy = {} /\ met = FALSE /\ swallowed = FALSE

NoFlows ==
    /\ flows = [f \in Flow |-> None] /\ deployments = flows /\ creator = flows
    /\ hookRoutes = [f \in Flow |-> {}] /\ running = hookRoutes
    /\ call = [k \in Call |-> Idle] /\ disorder = {}

\* The flow that is there from earlier, if any, is f1, named n1, of u1.
OldFlowIsF1 == creator[f2] = None /\ creator[f1] # u2 /\ (flows[f1] # None => flows[f1].name = "n1")

MCInit ==
    \/ part = "start" /\ StartInit /\ NoFlows
    \/ part = "flows" /\ AServerIsUp /\ Init /\ OldFlowIsF1

MCNext ==
    /\ UNCHANGED part
    /\ \/ part = "start" /\ StartNext /\ UNCHANGED vars
       \/ part = "flows" /\ Next /\ UNCHANGED startVars

MCSpec ==
    /\ MCInit /\ [][MCNext]_<<part, vars, startVars>>
    /\ part = "start" => StartFairness

\* What the tables, the handlers, the files and the processes hold is of its type.
DatabaseTypeOK == TypeOK /\ StartTypeOK
=============================================================================
