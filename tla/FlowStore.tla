------------------------------ MODULE FlowStore ------------------------------
(***************************************************************************)
(* The flows of all users: the REST handlers that create, import, update,   *)
(* delete, start and stop them (z8run-api/src/routes.rs) over the tables    *)
(* flows, flow_deployments and hook_routes (z8run-storage/src/sqlite.rs;    *)
(* postgres.rs runs the same statements).                                   *)
(*                                                                         *)
(* A handler is a task of its own: other handlers run between two of its    *)
(* awaits, and at any of them it may end, because the storage fails or the  *)
(* client goes away.  Every statement, or transaction, is one step.  A call *)
(* is made once, so their number bounds the behaviours.                     *)
(***************************************************************************)
EXTENDS FlowCanvas, FiniteSets

CONSTANTS
    User, Flow,
    Call,       \* REST calls that change a flow
    Canvas,     \* canvases a client sends
    Name,
    Supported,  \* node types import_flow knows, or the engine has
    None

Nobody == "nobody"   \* the user_id NULL of a row that save_flow inserted

ASSUME FlowStoreAssumption ==
    /\ None \notin User /\ Nobody \notin User /\ NoCanvas \notin Canvas
    /\ None \notin [owner : User \cup {Nobody}, name : Name, canvas : Canvas \cup {NoCanvas}]
    /\ None \notin [user : User, canvas : Canvas]

VARIABLES
    flows,       \* table flows: [owner, name, canvas], or None
    deployments, \* table flow_deployments: [user, canvas], or None
    hookRoutes,  \* table hook_routes: [user, route, node]
    running,     \* executions the engine has of each flow: [user, flow]
    call,        \* each call: [at, flow, user, got]
    creator,     \* history: the user who created each flow, or None
    disorder     \* history: flows on which calls overlapped or ended halfway

tables == <<flows, deployments, hookRoutes>>
vars == <<tables, running, call, creator, disorder>>

Row == [owner : User \cup {Nobody}, name : Name, canvas : Canvas \cup {NoCanvas}]
Idle == [at |-> "idle", flow |-> None, user |-> None, got |-> None]
Done == [Idle EXCEPT !.at = "done"]

\* What the tables and the handlers hold is of its type.
TypeOK ==
    /\ \A f \in Flow : flows[f] \in Row \cup {None}
    /\ \A f \in Flow : deployments[f] \in [user : User, canvas : Canvas] \cup {None}
    /\ \A f \in Flow : \A r \in hookRoutes[f] :
          r.user \in User /\ \E c \in Canvas : [route |-> r.route, node |-> r.node] \in HookRoutes(c)
    /\ \A f \in Flow : \A x \in running[f] : x.user \in User
    /\ \A k \in Call :
          \/ call[k] \in {Idle, Done}
          \/ /\ call[k].at \in {"save", "undeploy", "deploy", "retire", "execute", "stop", "stopped"}
             /\ call[k].flow \in Flow /\ call[k].user \in User /\ call[k].got \in Row \cup {None}
    /\ creator \in [Flow -> User \cup {None}]
    /\ disorder \subseteq Flow

\* One flow may be there from earlier, not deployed.
Init ==
    /\ \E old \in SUBSET Flow, u \in User, n \in Name :
          \E c \in [old -> {x \in Canvas : ValidateCanvas(x)}] :
             /\ Cardinality(old) <= 1
             /\ flows = [f \in Flow |-> IF f \in old THEN [owner |-> u, name |-> n, canvas |-> c[f]]
                                        ELSE None]
             /\ creator = [f \in Flow |-> IF f \in old THEN u ELSE None]
    /\ deployments = [f \in Flow |-> None]
    /\ hookRoutes = [f \in Flow |-> {}]
    /\ running = [f \in Flow |-> {}]
    /\ call = [k \in Call |-> Idle]
    /\ disorder = {}

----------------------------------------------------------------------------
(* The statements of the storage.                                          *)

\* WHERE id = ? AND user_id = ?
OwnedBy(f, u) == flows[f] # None /\ flows[f].owner = u

\* save_flow: an upsert that leaves user_id alone, NULL in a new row.
SaveFlow(f, row) ==
    flows' = [flows EXCEPT ![f] =
                [row EXCEPT !.owner = IF flows[f] = None THEN Nobody ELSE flows[f].owner]]

\* Faulty: the canvas column is left NULL.
SaveFlowBlank(f, row) == flows' = [flows EXCEPT ![f] = [row EXCEPT !.canvas = None]]

\* save_flow_with_user: the same upsert with the owner of a new row.
SaveFlowWithUser(f, row) ==
    flows' = [flows EXCEPT ![f] = IF @ = None THEN row ELSE [row EXCEPT !.owner = @.owner]]

\* Faulty: the routes of the old snapshot stay.
DeployFlowAdding(f, u, c) ==
    /\ deployments' = [deployments EXCEPT ![f] = [user |-> u, canvas |-> c]]
    /\ hookRoutes' = [hookRoutes EXCEPT ![f] = @ \cup
                        {[user |-> u, route |-> r.route, node |-> r.node] : r \in HookRoutes(c)}]

\* One transaction: the routes of the flow go, its snapshot is replaced and
\* the routes of the snapshot come.
DeployFlow(f, u, c) ==
    /\ deployments' = [deployments EXCEPT ![f] = [user |-> u, canvas |-> c]]
    /\ hookRoutes' = [hookRoutes EXCEPT ![f] =
                        {[user |-> u, route |-> r.route, node |-> r.node] : r \in HookRoutes(c)}]

UndeployFlow(f) ==
    /\ hookRoutes' = [hookRoutes EXCEPT ![f] = {}]
    /\ deployments' = [deployments EXCEPT ![f] = None]

----------------------------------------------------------------------------
(* The handlers.                                                           *)

InHandler(k) == call[k].at \notin {"idle", "done"}

\* Call k opens on flow f and goes on at `at` with what it read.
Enter(k, f, u, at, got) ==
    /\ call' = [call EXCEPT ![k] = [at |-> at, flow |-> f, user |-> u, got |-> got]]
    /\ disorder' = disorder \cup {g \in {f} : \E j \in Call \ {k} : InHandler(j) /\ call[j].flow = f}

Proceed(k, at) == call' = [call EXCEPT ![k].at = at] /\ UNCHANGED disorder
Return(k) == call' = [call EXCEPT ![k] = Done]

\* A call that is over in one step, or refused.
OneStep(k, f) == Return(k) /\ disorder' = disorder \cup {g \in {f} : \E j \in Call : InHandler(j) /\ call[j].flow = f}

FreshId(f) == creator[f] = None

CreateFlow(k, u, n) ==
    /\ call[k] = Idle
    /\ \E f \in Flow :
          /\ FreshId(f)
          /\ SaveFlowWithUser(f, [owner |-> u, name |-> n, canvas |-> NoCanvas])
          /\ creator' = [creator EXCEPT ![f] = u]
          /\ OneStep(k, f)
    /\ UNCHANGED <<deployments, hookRoutes, running>>

\* export_flow: the name and the canvas, without id and owner.
ExportFlow(f) == [name |-> flows[f].name, canvas |-> flows[f].canvas]

\* The documents a client has: what a user exported of a flow of theirs.
Exported == {ExportFlow(f) : f \in {g \in Flow : flows[g] # None /\ flows[g].owner # Nobody}}

\* import_flow: a new flow from a document, if its node types are known.
ImportFlow(k, u) ==
    /\ call[k] = Idle
    /\ \E doc \in Exported, f \in Flow :
          /\ \A n \in ToSet(Nodes(doc.canvas)) : n.type \in Supported
          /\ FreshId(f)
          /\ SaveFlowWithUser(f, [owner |-> u, name |-> doc.name, canvas |-> doc.canvas])
          /\ creator' = [creator EXCEPT ![f] = u]
          /\ OneStep(k, f)
    /\ UNCHANGED <<deployments, hookRoutes, running>>

\* update_flow: the payload may hold a name, a canvas, or both.
UpdateFlow(k, f, u, n, c) ==
    /\ call[k] = Idle
    /\ c # None => ValidateCanvas(c)
    /\ OwnedBy(f, u)
    /\ Enter(k, f, u, "save", [flows[f] EXCEPT !.name = IF n = None THEN @ ELSE n,
                                               !.canvas = IF c = None THEN @ ELSE c])
    /\ UNCHANGED <<tables, running, creator>>

UpdateSave(k) ==
    /\ call[k].at = "save"
    /\ SaveFlow(call[k].flow, call[k].got)
    /\ Return(k)
    /\ UNCHANGED <<deployments, hookRoutes, running, creator, disorder>>

\* delete_flow: the row, and in a transaction of its own the deployment.
DeleteFlow(k, f, u) ==
    /\ call[k] = Idle
    /\ OwnedBy(f, u)
    /\ flows' = [flows EXCEPT ![f] = None]
    /\ Enter(k, f, u, "undeploy", None)
    /\ UNCHANGED <<deployments, hookRoutes, running, creator>>

\* Faulty: the row goes, its deployment stays.
DeleteKeepingDeployment(k) ==
    /\ call[k].at = "undeploy"
    /\ Return(k)
    /\ UNCHANGED <<tables, running, creator, disorder>>

DeleteUndeploy(k) ==
    /\ call[k].at = "undeploy"
    /\ UndeployFlow(call[k].flow)
    /\ Return(k)
    /\ UNCHANGED <<flows, running, creator, disorder>>

\* start_flow: with triggers the canvas is deployed, without it is run.
StartFlow(k, f, u) ==
    /\ call[k] = Idle
    /\ OwnedBy(f, u)
    /\ LET c == flows[f].canvas IN
       /\ c.nodes # Absent
       /\ ~AmbiguousRoutes(c)
       /\ Enter(k, f, u, IF HookRoutes(c) # {} THEN "deploy" ELSE "retire", flows[f])
    /\ UNCHANGED <<tables, running, creator>>

StartDeploy(k) ==
    /\ call[k].at = "deploy"
    /\ DeployFlow(call[k].flow, call[k].user, call[k].got.canvas)
    /\ Return(k)
    /\ UNCHANGED <<flows, running, creator, disorder>>

StartRetire(k) ==
    /\ call[k].at = "retire"
    /\ UndeployFlow(call[k].flow)
    /\ Proceed(k, "execute")
    /\ UNCHANGED <<flows, running, creator>>

\* engine.execute, which may refuse the flow.
StartExecute(k) ==
    /\ call[k].at = "execute"
    /\ \/ running' = [running EXCEPT ![call[k].flow] =
                        @ \cup {[user |-> call[k].user,
                                 flow |-> CanvasToFlow(call[k].got.canvas, call[k].user)]}]
       \/ UNCHANGED running
    /\ Return(k)
    /\ UNCHANGED <<tables, creator, disorder>>

StopFlow(k, f, u) ==
    /\ call[k] = Idle
    /\ OwnedBy(f, u)
    /\ Enter(k, f, u, "stop", None)
    /\ UNCHANGED <<tables, running, creator>>

\* engine.stop takes the executions of the flow, if it has any.
StopEngine(k) ==
    /\ call[k].at = "stop"
    /\ running' = [running EXCEPT ![call[k].flow] = {}]
    /\ Proceed(k, "stopped")
    /\ UNCHANGED <<tables, creator>>

StopUndeploy(k) ==
    /\ call[k].at = "stopped"
    /\ UndeployFlow(call[k].flow)
    /\ Return(k)
    /\ UNCHANGED <<flows, running, creator, disorder>>

\* The storage fails, or the client goes away: the handler ends where it is.
EndsHalfway(k) ==
    /\ InHandler(k)
    /\ Return(k)
    /\ disorder' = disorder \cup {call[k].flow}
    /\ UNCHANGED <<tables, running, creator>>

ExecutionEnds(f) ==
    /\ running[f] # {}
    /\ \E x \in running[f] : running' = [running EXCEPT ![f] = @ \ {x}]
    /\ UNCHANGED <<tables, call, creator, disorder>>

Next ==
    \/ \E k \in Call, u \in User :
          \/ \E n \in Name : CreateFlow(k, u, n)
          \/ ImportFlow(k, u)
          \/ \E f \in Flow :
                \/ \E n \in Name \cup {None}, c \in Canvas \cup {None} : UpdateFlow(k, f, u, n, c)
                \/ DeleteFlow(k, f, u)
                \/ StartFlow(k, f, u)
                \/ StopFlow(k, f, u)
    \/ \E k \in Call :
          \/ UpdateSave(k) \/ DeleteUndeploy(k) \/ EndsHalfway(k)
          \/ StartDeploy(k) \/ StartRetire(k) \/ StartExecute(k)
          \/ StopEngine(k) \/ StopUndeploy(k)
    \/ \E f \in Flow : ExecutionEnds(f)

Spec == Init /\ [][Next]_vars

----------------------------------------------------------------------------
(* Properties.                                                             *)

(***************************************************************************)
(* Whatever the calls do to each other, a live deployment belongs to the    *)
(* user who created the flow, every route leads to a trigger of the very    *)
(* snapshot that is stored, no trigger lacks its route, and the executions  *)
(* look secrets up under that user.  It rests on three places: deploy_flow  *)
(* is one transaction, imports get a new id, and the upsert of save_flow    *)
(* keeps the owner.                                                         *)
(***************************************************************************)
DeploymentsAreSound ==
    \A f \in Flow :
        /\ deployments[f] = None => hookRoutes[f] = {}
        /\ deployments[f] # None =>
              /\ deployments[f].user = creator[f]
              /\ hookRoutes[f] = {[user |-> creator[f], route |-> r.route, node |-> r.node] :
                                    r \in HookRoutes(deployments[f].canvas)}
              /\ hookRoutes[f] # {}
        /\ flows[f] # None => flows[f].owner \in {creator[f], Nobody}
        /\ \A x \in running[f] : \A s \in SecretsOf(x.flow) : s[1] = creator[f]

(***************************************************************************)
(* As long as the calls on a flow do not overlap and none ends halfway, the *)
(* handlers implement the registry: update, delete, start and stop are one  *)
(* step each.  A flow whose delete is between its two statements counts as  *)
(* deleted.  Under overlap the code promises less: a row may come back      *)
(* without an owner (UpdateSave after DeleteFlow), and a deployment may     *)
(* outlive its flow (StartDeploy after DeleteFlow).                         *)
(***************************************************************************)
Deleting(f) == \E k \in Call : call[k].at = "undeploy" /\ call[k].flow = f

Registry == INSTANCE FlowRegistry WITH
    row <- flows,
    dep <- [f \in Flow |-> IF Deleting(f) THEN None ELSE deployments[f]]

ImplementsRegistry == Registry!RegistrySpec
=============================================================================
