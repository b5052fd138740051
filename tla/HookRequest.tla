----------------------------- MODULE HookRequest -----------------------------
(***************************************************************************)
(* The public webhooks of one flow: the handlers of hook requests           *)
(* (z8run-api/src/routes.rs, hook_handler and await_flow_response), the     *)
(* slots that bound them (hook_limits.rs), the map of responders through    *)
(* which an http-out node answers the caller, the deployed snapshot with    *)
(* its routes, and the owner who starts, stops and deletes the flow         *)
(* meanwhile.                                                               *)
(*                                                                         *)
(* Slots and deployments are kept by flow id and a request names one flow,  *)
(* so one flow is enough.  A canvas is a function from its node ids to the  *)
(* path the node is a trigger of, or Plain; the method goes with the path.  *)
(* Between two awaits a handler is not interrupted, except that its client  *)
(* may go away at an await, which drops the handler where it is.            *)
(***************************************************************************)
EXTENDS Naturals, FiniteSets, Functions

CONSTANTS
    Request,         \* hook requests
    Path,            \* method and path of a request
    Canvas,          \* canvases that may be saved for the flow
    Plain,           \* stands for the path of a node that is no trigger
    MaxConcurrency,  \* Z8_HOOK_MAX_CONCURRENCY
    OwnerCall        \* calls of the owner; bounds how often the flow changes

ASSUME HookRequestAssumption ==
    /\ MaxConcurrency \in Nat \ {0}
    /\ Plain \notin Path
    /\ \A c \in Canvas : c \in [DOMAIN c -> Path \cup {Plain}]
    /\ IsFiniteSet(OwnerCall)

VARIABLES
    routes,      \* rows of hook_routes: [path, node]
    snapshot,    \* row of flow_deployments: {canvas}, or {}
    slot,        \* the semaphore `slots` holds for the flow, 0 without entry
    made,        \* number of semaphores made so far
    responders,  \* requests whose sender is in webhook_responders
    pc,          \* where each handler is
    path,        \* what each request asks for
    node,        \* {n}: the trigger of the route that matched
    snap,        \* {c}: the snapshot the handler loaded
    permit,      \* the semaphore the handler has a permit of, 0 for none
    rx,          \* the oneshot: "empty" or "value"
    answer,      \* what the caller got, "none" before
    exec,        \* its execution: "none", "active", "cancelled", "finished"
    exists,      \* the flow's own row is there
    callPc,      \* where each call of the owner is
    callCanvas,  \* {c}: the canvas start_flow read
    changes,     \* history: commits to the deployment tables
    readAt       \* history: <<changes at the route look-up, at the load>>

deployment  == <<routes, snapshot, changes>>
slotVars    == <<slot, made>>
requestVars == <<pc, path, node, snap, permit, answer, readAt>>
flowVars    == <<responders, rx, exec>>
ownerVars   == <<exists, callPc, callCanvas>>
vars == <<deployment, slotVars, requestVars, flowVars, ownerVars>>

NodeId == UNION {DOMAIN c : c \in Canvas}

Route == [path : Path, node : NodeId]

\* A handler that has passed try_acquire and not returned.
Admitted == {"build", "execute", "wait", "cancel", "cleanup"}

Answers == {"none", "flow", "notFound", "error", "unauthorized", "tooMany", "badFlow",
            "timeout", "gone"}

\* What the handlers, the responder map and the semaphores hold is of its type.
TypeOK ==
    /\ routes \subseteq Route
    /\ snapshot \subseteq Canvas /\ Cardinality(snapshot) <= 1
    /\ made \in 0 .. Cardinality(OwnerCall) + 1 /\ slot \in 0 .. made
    /\ responders \subseteq Request
    /\ pc \in [Request -> {"new", "load", "admit", "closed"} \cup Admitted]
    /\ path \in [Request -> Path]
    /\ \A r \in Request : node[r] \subseteq NodeId /\ snap[r] \subseteq Canvas
    /\ permit \in [Request -> 0 .. made]
    /\ rx \in [Request -> {"empty", "value"}]
    /\ answer \in [Request -> Answers]
    /\ exec \in [Request -> {"none", "active", "cancelled", "finished"}]
    /\ exists \in BOOLEAN
    /\ callPc \in [OwnerCall -> {"idle", "deploy", "stop", "undeploy", "release", "done"}]
    /\ \A k \in OwnerCall : callCanvas[k] \subseteq Canvas
    /\ changes \in 0 .. Cardinality(OwnerCall)
    /\ readAt \in [Request -> (0 .. changes) \X (0 .. changes)]

Init ==
    /\ routes = {} /\ snapshot = {} /\ changes = 0
    /\ slot = 0 /\ made = 0
    /\ responders = {}
    /\ pc = [r \in Request |-> "new"]
    /\ path \in [Request -> Path]
    /\ node = [r \in Request |-> {}]
    /\ snap = [r \in Request |-> {}]
    /\ permit = [r \in Request |-> 0]
    /\ rx = [r \in Request |-> "empty"]
    /\ answer = [r \in Request |-> "none"]
    /\ exec = [r \in Request |-> "none"]
    /\ exists = TRUE
    /\ callPc = [k \in OwnerCall |-> "idle"]
    /\ callCanvas = [k \in OwnerCall |-> {}]
    /\ readAt = [r \in Request |-> <<0, 0>>]

----------------------------------------------------------------------------
(* The owner: start_flow, stop_flow and delete_flow.                       *)

\* collect_hook_routes: one route per trigger of the canvas.
RoutesOf(c) == {[path |-> c[n], node |-> n] : n \in {m \in DOMAIN c : c[m] # Plain}}

\* Two triggers with one method and path: the deploy is refused.
Ambiguous(c) == \E p, q \in RoutesOf(c) : p # q /\ p.path = q.path

CallGoesTo(k, place) == callPc' = [callPc EXCEPT ![k] = place]

\* The flow is read here and deployed in a later step.  A flow without
\* triggers retires the hooks of its earlier versions; it then runs at once,
\* which is no hook execution.
StartFlow(k) ==
    /\ callPc[k] = "idle" /\ exists
    /\ \E c \in Canvas :
          /\ callCanvas' = [callCanvas EXCEPT ![k] = {c}]
          /\ CallGoesTo(k, CASE Ambiguous(c)    -> "done"
                             [] RoutesOf(c) = {} -> "undeploy"
                             [] OTHER            -> "deploy")
    /\ UNCHANGED <<deployment, slotVars, requestVars, flowVars, exists>>

StopFlow(k) ==
    /\ callPc[k] = "idle" /\ exists
    /\ CallGoesTo(k, "stop")
    /\ UNCHANGED <<deployment, slotVars, requestVars, flowVars, exists, callCanvas>>

\* The row goes first, the deployment in a transaction of its own.  Nothing
\* is stopped.
DeleteFlow(k) ==
    /\ callPc[k] = "idle" /\ exists
    /\ exists' = FALSE
    /\ CallGoesTo(k, "undeploy")
    /\ UNCHANGED <<deployment, slotVars, requestVars, flowVars, callCanvas>>

\* Faulty: the upsert of the snapshot without the rows of hook_routes.
DeployKeepingRoutes(k) ==
    /\ callPc[k] = "deploy"
    /\ \E c \in callCanvas[k] :
          /\ snapshot' = {c}
          /\ routes' = IF routes = {} THEN RoutesOf(c) ELSE routes
    /\ changes' = changes + 1
    /\ CallGoesTo(k, "done")
    /\ UNCHANGED <<slotVars, requestVars, flowVars, exists, callCanvas>>

\* Faulty: the snapshot is inserted, not upserted.
DeployInserting(k) ==
    /\ callPc[k] = "deploy"
    /\ \E c \in callCanvas[k] : snapshot' = snapshot \cup {c} /\ routes' = RoutesOf(c)
    /\ changes' = changes + 1
    /\ CallGoesTo(k, "done")
    /\ UNCHANGED <<slotVars, requestVars, flowVars, exists, callCanvas>>

\* One transaction.
Deploy(k) ==
    /\ callPc[k] = "deploy"
    /\ \E c \in callCanvas[k] : snapshot' = {c} /\ routes' = RoutesOf(c)
    /\ changes' = changes + 1
    /\ CallGoesTo(k, "done")
    /\ UNCHANGED <<slotVars, requestVars, flowVars, exists, callCanvas>>

\* engine.stop(flow_id).
StopExecutions(k) ==
    /\ callPc[k] = "stop"
    /\ exec' = [r \in Request |-> IF exec[r] = "active" THEN "cancelled" ELSE exec[r]]
    /\ CallGoesTo(k, "undeploy")
    /\ UNCHANGED <<deployment, slotVars, requestVars, responders, rx, exists, callCanvas>>

\* One transaction.
Undeploy(k) ==
    /\ callPc[k] = "undeploy"
    /\ snapshot' = {} /\ routes' = {}
    /\ changes' = changes + 1
    /\ CallGoesTo(k, "release")
    /\ UNCHANGED <<slotVars, requestVars, flowVars, exists, callCanvas>>

\* HookLimits::release forgets the semaphore; permits of it live on.
Release(k) ==
    /\ callPc[k] = "release"
    /\ slot' = 0
    /\ CallGoesTo(k, "done")
    /\ UNCHANGED <<deployment, made, requestVars, flowVars, exists, callCanvas>>

----------------------------------------------------------------------------
(* The handler of request r.                                               *)

GoesTo(r, place) == pc' = [pc EXCEPT ![r] = place]

\* Faulty: the permit is forgotten instead of dropped.
CloseForgetting(r, a) ==
    /\ GoesTo(r, "closed")
    /\ answer' = [answer EXCEPT ![r] = a]
    /\ UNCHANGED permit

\* The handler returns a to the caller; its permit is dropped with it.
Close(r, a) ==
    /\ GoesTo(r, "closed")
    /\ answer' = [answer EXCEPT ![r] = a]
    /\ permit' = [permit EXCEPT ![r] = 0]

\* find_hook_route.
FindHookRoute(r) ==
    /\ pc[r] = "new"
    /\ \/ \E m \in {row \in routes : row.path = path[r]} :
             /\ node' = [node EXCEPT ![r] = {m.node}]
             /\ GoesTo(r, "load")
             /\ UNCHANGED <<answer, permit>>
       \/ /\ \A row \in routes : row.path # path[r]
          /\ Close(r, "notFound")
          /\ UNCHANGED node
       \/ Close(r, "error") /\ UNCHANGED node
    /\ readAt' = [readAt EXCEPT ![r] = <<changes, @[2]>>]
    /\ UNCHANGED <<deployment, slotVars, path, snap, flowVars, ownerVars>>

\* get_deployment, a query of its own.
GetDeployment(r) ==
    /\ pc[r] = "load"
    /\ \/ \E c \in snapshot :
             /\ snap' = [snap EXCEPT ![r] = {c}]
             /\ GoesTo(r, "admit")
             /\ UNCHANGED <<answer, permit>>
       \/ snapshot = {} /\ Close(r, "notFound") /\ UNCHANGED snap
       \/ Close(r, "error") /\ UNCHANGED snap
    /\ readAt' = [readAt EXCEPT ![r] = <<@[1], changes>>]
    /\ UNCHANGED <<deployment, slotVars, path, node, flowVars, ownerVars>>

\* try_acquire makes the semaphore if there is none.
TryAcquire(r) ==
    LET g == IF slot = 0 THEN made + 1 ELSE slot
    IN  /\ slot' = g
        /\ made' = IF g > made THEN g ELSE made
        /\ IF Cardinality({q \in Request : permit[q] = g}) < MaxConcurrency
           THEN /\ permit' = [permit EXCEPT ![r] = g]
                /\ GoesTo(r, "build")
                /\ UNCHANGED answer
           ELSE Close(r, "tooMany")

\* The config of the matched node in the snapshot decides about the
\* credentials; then a slot is taken, with no await in between.
Admit(r) ==
    /\ pc[r] = "admit"
    /\ LET known == \E c \in snap[r] : node[r] \subseteq DOMAIN c
       IN  \/ ~known /\ Close(r, "error") /\ UNCHANGED slotVars
           \/ known /\ Close(r, "unauthorized") /\ UNCHANGED slotVars
           \/ known /\ TryAcquire(r)
    /\ UNCHANGED <<deployment, path, node, snap, readAt, flowVars, ownerVars>>

\* canvas_to_flow, restrict_to_trigger, and the responder under the trace id.
BuildFlow(r) ==
    /\ pc[r] = "build"
    /\ \/ /\ responders' = responders \cup {r}
          /\ GoesTo(r, "execute")
          /\ UNCHANGED <<answer, permit>>
       \/ Close(r, "badFlow") /\ UNCHANGED responders
    /\ UNCHANGED <<deployment, slotVars, path, node, snap, readAt, rx, exec, ownerVars>>

\* execute_with_trigger: the compiled flow is in the active map when it
\* returns.  A cycle makes it fail.
Execute(r) ==
    /\ pc[r] = "execute"
    /\ \/ /\ exec' = [exec EXCEPT ![r] = "active"]
          /\ GoesTo(r, "wait")
          /\ UNCHANGED <<responders, answer, permit>>
       \/ /\ responders' = responders \ {r}
          /\ Close(r, "error")
          /\ UNCHANGED exec
    /\ UNCHANGED <<deployment, slotVars, path, node, snap, readAt, rx, ownerVars>>

\* await_flow_response.  The sender is in the map or has been used, so the
\* branch for a dropped sender is never taken.
Answered(r) ==
    /\ pc[r] = "wait"
    /\ rx[r] = "value"
    /\ Close(r, "flow")
    /\ UNCHANGED <<deployment, slotVars, path, node, snap, readAt, flowVars, ownerVars>>

\* Faulty: the caller waits for the response as long as it takes.
TimeOutNever(r) == FALSE

\* timeout() looks at the receiver before it looks at the clock.
TimeOut(r) ==
    /\ pc[r] = "wait"
    /\ rx[r] = "empty"
    /\ GoesTo(r, "cancel")
    /\ UNCHANGED <<deployment, slotVars, path, node, snap, permit, answer, readAt,
                   flowVars, ownerVars>>

\* engine.cancel_execution(trace_id).
CancelExecution(r) ==
    /\ pc[r] = "cancel"
    /\ exec' = [exec EXCEPT ![r] = IF @ = "active" THEN "cancelled" ELSE @]
    /\ GoesTo(r, "cleanup")
    /\ UNCHANGED <<deployment, slotVars, path, node, snap, permit, answer, readAt,
                   responders, rx, ownerVars>>

\* Faulty: removed under the flow's id, which is not the key.
RemoveByFlow(r) ==
    /\ pc[r] = "cleanup"
    /\ Close(r, "timeout")
    /\ UNCHANGED <<deployment, slotVars, path, node, snap, readAt, flowVars, ownerVars>>

RemoveResponder(r) ==
    /\ pc[r] = "cleanup"
    /\ responders' = responders \ {r}
    /\ Close(r, "timeout")
    /\ UNCHANGED <<deployment, slotVars, path, node, snap, readAt, rx, exec, ownerVars>>

Handler(r) ==
    \/ FindHookRoute(r) \/ GetDeployment(r) \/ Admit(r) \/ BuildFlow(r) \/ Execute(r)
    \/ Answered(r) \/ TimeOut(r) \/ CancelExecution(r) \/ RemoveResponder(r)

\* The client closes the connection: the server drops the handler, and what
\* it had still to do is not done.
Disconnect(r) ==
    /\ pc[r] \notin {"new", "closed"}
    /\ Close(r, "gone")
    /\ UNCHANGED <<deployment, slotVars, path, node, snap, readAt, flowVars, ownerVars>>

----------------------------------------------------------------------------
(* The execution of request r.                                             *)

\* An http-out node takes the sender and answers.  It may do so at any time
\* of the execution, which goes on.
HttpOut(r) ==
    /\ exec[r] \in {"active", "cancelled"}
    /\ r \in responders
    /\ responders' = responders \ {r}
    /\ rx' = [rx EXCEPT ![r] = IF pc[r] = "wait" THEN "value" ELSE @]
    /\ UNCHANGED <<deployment, slotVars, requestVars, exec, ownerVars>>

\* The execution leaves the active map, answered or not.
Finish(r) ==
    /\ exec[r] \in {"active", "cancelled"}
    /\ exec' = [exec EXCEPT ![r] = "finished"]
    /\ UNCHANGED <<deployment, slotVars, requestVars, responders, rx, ownerVars>>

Next ==
    \/ \E r \in Request : Handler(r) \/ Disconnect(r) \/ HttpOut(r) \/ Finish(r)
    \/ \E k \in OwnerCall :
          \/ StartFlow(k) \/ StopFlow(k) \/ DeleteFlow(k)
          \/ Deploy(k) \/ StopExecutions(k) \/ Undeploy(k) \/ Release(k)

\* A handler that can go on is polled, and its timer fires.  Nothing makes
\* an execution answer or finish.
Fairness == \A r \in Request : WF_vars(Handler(r))

Spec == Init /\ [][Next]_vars /\ Fairness

----------------------------------------------------------------------------
\* Every handler that returns takes its responder out of the map, unless its
\* client left: the map does not grow with the calls that were answered
\* (routes.rs:1271-1277).
NoStrayResponder ==
    \A r \in responders : pc[r] \in Admitted \/ answer[r] = "gone"

\* A caller that was told of a timeout left no execution behind
\* (hook_limits.rs:5-6), whenever the execution answered or ended meanwhile.
TimedOutIsCancelled ==
    \A r \in Request : answer[r] = "timeout" => exec[r] \in {"cancelled", "finished"}

\* Nothing is left of a call that is over: no responder, and after a timeout no
\* execution.
CallsCleanUp == NoStrayResponder /\ TimedOutIsCancelled

\* What a request runs is the branch of a trigger that declares its path, in
\* the snapshot whose policy it was checked against, unless the flow was
\* deployed or stopped between the two queries.
RunsWhatItMatched ==
    \A r \in Request :
        (exec[r] # "none" /\ readAt[r][1] = readAt[r][2]) =>
            \E c \in snap[r] : \E n \in node[r] : [path |-> path[r], node |-> n] \in RoutesOf(c)

\* What deploy_flow promises (sqlite.rs:278-279): a hook never matches a
\* route whose snapshot is stale.
RouteNeverStale ==
    \A r \in Request : exec[r] # "none" =>
        \E c \in snap[r] : \E n \in node[r] : [path |-> path[r], node |-> n] \in RoutesOf(c)

\* At most MaxConcurrency handlers that share a semaphore are past it at the
\* same time, whatever became of their clients and flows.
HandlersBounded ==
    \A r \in Request : pc[r] \in Admitted =>
        Cardinality({q \in Request : pc[q] \in Admitted /\ permit[q] = permit[r]})
            <= MaxConcurrency

\* No slot is lost, however a handler ended: a request is refused for its
\* number only while so many others are being handled.
RefusedOnlyWhenFull ==
    [][\A r \in Request :
          (answer'[r] = "tooMany" /\ answer[r] # "tooMany") =>
              Cardinality({q \in Request : pc[q] \in Admitted}) >= MaxConcurrency]_vars

\* The slots bound the handlers, and refuse no call below the bound.
SlotsAreCounted == []HandlersBounded /\ RefusedOnlyWhenFull

\* Every call ends, and gives back its slot, also when its flow has no
\* http-out node or never gets there.
EveryCallEnds ==
    \A r \in Request : <>(pc[r] = "closed" /\ permit[r] = 0)

\* What the handler promises of its slot (routes.rs:1174-1175): when it
\* returns, the execution has finished or been cancelled.
SlotCoversExecution ==
    \A r \in Request :
        (pc[r] = "closed" /\ answer[r] # "gone") => exec[r] # "active"
=============================================================================
