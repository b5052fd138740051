-------------------------- MODULE HookRequestProofs --------------------------
(***************************************************************************)
(* Proofs about HookRequest, for any number of requests, any canvases and   *)
(* any number of slots.  The set of requests need not be finite: that only  *)
(* finitely many are handled at a time is part of the invariant.            *)
(***************************************************************************)
EXTENDS HookRequest, FiniteSetTheorems, TLAPS

\* The requests that hold a permit of semaphore g, and all that are handled.
Holders(g) == {q \in Request : permit[q] = g}
Handled == {q \in Request : pc[q] \in Admitted}

\* The owner's calls that have changed the deployment tables or were refused,
\* and those that are over.
Committed == {k \in OwnerCall : callPc[k] \in {"release", "done"}}
Over == {k \in OwnerCall : callPc[k] = "done"}

----------------------------------------------------------------------------
(* The inductive invariant.                                                  *)

\* The types; what the owner's calls bound is left to CallsCounted.
HookTypes ==
    /\ routes \subseteq Route /\ snapshot \subseteq Canvas
    /\ made \in Nat /\ slot \in 0 .. made
    /\ responders \subseteq Request
    /\ pc \in [Request -> {"new", "load", "admit", "closed"} \cup Admitted]
    /\ path \in [Request -> Path]
    /\ node \in [Request -> SUBSET NodeId]
    /\ snap \in [Request -> SUBSET Canvas]
    /\ permit \in [Request -> 0 .. made]
    /\ rx \in [Request -> {"empty", "value"}]
    /\ answer \in [Request -> Answers]
    /\ exec \in [Request -> {"none", "active", "cancelled", "finished"}]
    /\ exists \in BOOLEAN
    /\ callPc \in [OwnerCall -> {"idle", "deploy", "stop", "undeploy", "release", "done"}]
    /\ callCanvas \in [OwnerCall -> SUBSET Canvas]
    /\ changes \in Nat
    /\ readAt \in [Request -> (0 .. changes) \X (0 .. changes)]

\* The two tables of a deployment always belong together.
TablesAgree ==
    \/ snapshot = {} /\ routes = {}
    \/ \E c \in Canvas : snapshot = {c} /\ routes = RoutesOf(c)

\* Where a handler is says what it holds, and what its execution is.
CallIsSound(r) ==
    /\ pc[r] = "closed" <=> answer[r] # "none"
    /\ pc[r] \in Admitted <=> permit[r] # 0
    /\ r \in responders =>
           pc[r] \in {"execute", "wait", "cancel", "cleanup"} \/ answer[r] = "gone"
    /\ rx[r] = "value" => r \notin responders /\ exec[r] # "none"
    /\ exec[r] # "none" => pc[r] \in {"wait", "cancel", "cleanup", "closed"}
    /\ pc[r] \in {"wait", "cancel"} => exec[r] # "none"
    /\ pc[r] = "cleanup" \/ answer[r] = "timeout" => exec[r] \in {"cancelled", "finished"}

\* A trigger of canvas c declares the path of r, and the look-up of r found it.
DeclaredBy(r, c) == \E n \in node[r] : [path |-> path[r], node |-> n] \in RoutesOf(c)

\* The row that matched is in the table while nothing was committed since; a
\* snapshot loaded under the same count of commits has the trigger.
MatchIsKept(r) ==
    /\ (pc[r] = "load" /\ readAt[r][1] = changes) =>
           \E n \in node[r] : [path |-> path[r], node |-> n] \in routes
    /\ (/\ pc[r] \in {"admit"} \cup Admitted \/ exec[r] # "none"
        /\ readAt[r][1] = readAt[r][2]) =>
           \E c \in snap[r] : DeclaredBy(r, c)

SlotsCounted ==
    /\ IsFiniteSet(Handled)
    /\ \A g \in 1 .. made : Cardinality(Holders(g)) <= MaxConcurrency

\* Each call commits once, and makes room for one more semaphore when it ends.
CallsCounted ==
    /\ changes <= Cardinality(Committed)
    /\ made <= Cardinality(Over) + (IF slot = 0 THEN 0 ELSE 1)

IInv ==
    /\ HookTypes /\ TablesAgree
    /\ \A r \in Request : CallIsSound(r)
    /\ \A r \in Request : MatchIsKept(r)
    /\ SlotsCounted
    /\ CallsCounted

----------------------------------------------------------------------------
(* Operators.                                                                *)

\* collect_hook_routes makes rows of the table.
LEMMA RoutesAreRows == \A c \in Canvas : RoutesOf(c) \subseteq Route
<1> SUFFICES ASSUME NEW c \in Canvas, NEW n \in DOMAIN c, c[n] # Plain
             PROVE  [path |-> c[n], node |-> n] \in Route
  BY DEF RoutesOf
<1>1. c[n] \in Path
  BY HookRequestAssumption
<1>2. n \in NodeId
  BY DEF NodeId
<1> QED
  BY <1>1, <1>2 DEF Route

----------------------------------------------------------------------------
(* The types.                                                                *)

\* Every step of the owner keeps the types.
LEMMA OwnerKeepsTypes ==
    ASSUME HookTypes, NEW k \in OwnerCall,
           \/ StartFlow(k) \/ StopFlow(k) \/ DeleteFlow(k)
           \/ Deploy(k) \/ StopExecutions(k) \/ Undeploy(k) \/ Release(k)
    PROVE  HookTypes'
<1> USE DEF HookTypes, Admitted, deployment, slotVars, requestVars, flowVars, CallGoesTo
<1>1. CASE StartFlow(k)
  BY <1>1 DEF StartFlow
<1>2. CASE StopFlow(k)
  BY <1>2 DEF StopFlow
<1>3. CASE DeleteFlow(k)
  BY <1>3 DEF DeleteFlow
<1>4. CASE Deploy(k)
  BY <1>4, RoutesAreRows DEF Deploy
<1>5. CASE StopExecutions(k)
  BY <1>5 DEF StopExecutions
<1>6. CASE Undeploy(k)
  BY <1>6 DEF Undeploy
<1>7. CASE Release(k)
  BY <1>7 DEF Release
<1> QED
  BY <1>1, <1>2, <1>3, <1>4, <1>5, <1>6, <1>7

\* The types of what decides where a handler is and what its caller got.
HandlerTypes ==
    /\ pc \in [Request -> {"new", "load", "admit", "closed"} \cup Admitted]
    /\ answer \in [Request -> Answers]
    /\ permit \in [Request -> 0 .. made]

\* A handler that goes on or returns keeps them.
LEMMA StepKeepsHandlerTypes ==
    ASSUME HookTypes, NEW r \in Request, NEW place \in {"load", "admit"} \cup Admitted,
           NEW a \in Answers, made' \in Nat, made <= made',
           (GoesTo(r, place) /\ UNCHANGED <<answer, permit>>) \/ Close(r, a)
    PROVE  HandlerTypes'
<1>1. permit \in [Request -> 0 .. made']
  <2> SUFFICES ASSUME NEW q \in Request PROVE permit[q] \in 0 .. made'
    BY DEF HookTypes
  <2>1. permit[q] \in 0 .. made
    BY DEF HookTypes
  <2> QED
    BY <2>1 DEF HookTypes
<1>2. CASE GoesTo(r, place) /\ UNCHANGED <<answer, permit>>
  BY <1>1, <1>2 DEF HookTypes, HandlerTypes, GoesTo
<1>3. CASE Close(r, a)
  BY <1>1, <1>3 DEF HookTypes, HandlerTypes, GoesTo, Close
<1> QED
  BY <1>2, <1>3

\* Every step of a request's handler, client and execution keeps the types.
LEMMA RequestKeepsTypes ==
    ASSUME HookTypes, NEW r \in Request,
           Handler(r) \/ Disconnect(r) \/ HttpOut(r) \/ Finish(r)
    PROVE  HookTypes'
<1> USE DEF HookTypes, Admitted, Answers, deployment, slotVars, requestVars, flowVars, ownerVars,
            HandlerTypes
<1>1. CASE FindHookRoute(r)
  <2>1. readAt' \in [Request -> (0 .. changes') \X (0 .. changes')]
    BY <1>1 DEF FindHookRoute
  <2>2. HandlerTypes'
    BY <1>1, StepKeepsHandlerTypes DEF FindHookRoute
  <2>3. node' \in [Request -> SUBSET NodeId]
    BY <1>1 DEF FindHookRoute, Route
  <2> QED
    BY <1>1, <2>1, <2>2, <2>3 DEF FindHookRoute
<1>2. CASE GetDeployment(r)
  <2>1. readAt' \in [Request -> (0 .. changes') \X (0 .. changes')]
    BY <1>2 DEF GetDeployment
  <2>2. HandlerTypes'
    BY <1>2, StepKeepsHandlerTypes DEF GetDeployment
  <2>3. snap' \in [Request -> SUBSET Canvas]
    BY <1>2 DEF GetDeployment
  <2> QED
    BY <1>2, <2>1, <2>2, <2>3 DEF GetDeployment
<1>3. CASE Admit(r)
  <2>1. CASE UNCHANGED slotVars /\ \E a \in {"error", "unauthorized"} : Close(r, a)
    <3>1. HandlerTypes'
      BY <2>1, StepKeepsHandlerTypes
    <3> QED
      BY <1>3, <2>1, <3>1 DEF Admit
  <2>2. CASE TryAcquire(r)
    <3> DEFINE g == IF slot = 0 THEN made + 1 ELSE slot
    <3>1. g \in 1 .. made' /\ slot' = g /\ made' \in Nat /\ made <= made'
      BY <2>2 DEF TryAcquire
    <3>2. CASE Close(r, "tooMany")
      <4>1. HandlerTypes'
        BY <3>1, <3>2, StepKeepsHandlerTypes
      <4> QED
        BY <1>3, <3>1, <4>1 DEF Admit
    <3>3. CASE permit' = [permit EXCEPT ![r] = g] /\ GoesTo(r, "build") /\ UNCHANGED answer
      <4>1. permit' \in [Request -> 0 .. made']
        BY <3>1, <3>3
      <4>2. pc' \in [Request -> {"new", "load", "admit", "closed"} \cup Admitted]
        BY <3>3 DEF GoesTo
      <4> QED
        BY <1>3, <3>1, <3>3, <4>1, <4>2 DEF Admit
    <3> QED
      BY <2>2, <3>2, <3>3 DEF TryAcquire
  <2> QED
    BY <1>3, <2>1, <2>2 DEF Admit
<1>4. CASE BuildFlow(r)
  <2>1. HandlerTypes'
    BY <1>4, StepKeepsHandlerTypes DEF BuildFlow
  <2> QED
    BY <1>4, <2>1 DEF BuildFlow
<1>5. CASE Execute(r)
  <2>1. HandlerTypes'
    BY <1>5, StepKeepsHandlerTypes DEF Execute
  <2> QED
    BY <1>5, <2>1 DEF Execute
<1> USE DEF GoesTo, Close
<1>6. CASE Answered(r)
  BY <1>6 DEF Answered
<1>7. CASE TimeOut(r)
  BY <1>7 DEF TimeOut
<1>8. CASE CancelExecution(r)
  BY <1>8 DEF CancelExecution
<1>9. CASE RemoveResponder(r)
  BY <1>9 DEF RemoveResponder
<1>10. CASE Disconnect(r)
  BY <1>10 DEF Disconnect
<1>11. CASE HttpOut(r)
  BY <1>11 DEF HttpOut
<1>12. CASE Finish(r)
  BY <1>12 DEF Finish
<1> QED
  BY <1>1, <1>2, <1>3, <1>4, <1>5, <1>6, <1>7, <1>8, <1>9, <1>10, <1>11, <1>12 DEF Handler

----------------------------------------------------------------------------
(* The tables of the deployment.                                             *)

\* A deployment and a retirement are one transaction each; nothing else
\* writes the tables.
LEMMA OwnerKeepsTables ==
    ASSUME HookTypes, TablesAgree, NEW k \in OwnerCall,
           \/ StartFlow(k) \/ StopFlow(k) \/ DeleteFlow(k)
           \/ Deploy(k) \/ StopExecutions(k) \/ Undeploy(k) \/ Release(k)
    PROVE  TablesAgree' /\ (changes' = changes => UNCHANGED <<routes, snapshot>>)
<1>1. CASE Deploy(k)
  <2>1. PICK c \in callCanvas[k] : snapshot' = {c} /\ routes' = RoutesOf(c)
    BY <1>1 DEF Deploy
  <2>2. c \in Canvas
    BY DEF HookTypes
  <2>3. changes' # changes
    BY <1>1 DEF Deploy, HookTypes
  <2> QED
    BY <2>1, <2>2, <2>3 DEF TablesAgree
<1>2. CASE Undeploy(k)
  BY <1>2 DEF Undeploy, TablesAgree, HookTypes
<1>3. CASE \/ StartFlow(k) \/ StopFlow(k) \/ DeleteFlow(k) \/ StopExecutions(k) \/ Release(k)
  <2>1. UNCHANGED <<routes, snapshot, changes>>
    BY <1>3 DEF StartFlow, StopFlow, DeleteFlow, StopExecutions, Release, deployment
  <2> QED
    BY <2>1 DEF TablesAgree
<1> QED
  BY <1>1, <1>2, <1>3

\* Handlers, clients and executions only read them, and the owner's calls as
\* little.
LEMMA RequestKeepsTables ==
    ASSUME NEW r \in Request, Handler(r) \/ Disconnect(r) \/ HttpOut(r) \/ Finish(r)
    PROVE  UNCHANGED <<deployment, ownerVars>>
BY DEF Handler, FindHookRoute, GetDeployment, Admit, BuildFlow, Execute, Answered, TimeOut,
       CancelExecution, RemoveResponder, Disconnect, HttpOut, Finish, ownerVars

----------------------------------------------------------------------------
(* Calls.                                                                    *)

\* A step of request r disturbs no other request.
LEMMA OneRequest ==
    ASSUME HookTypes, NEW r \in Request, NEW q \in Request, q # r,
           Handler(r) \/ Disconnect(r) \/ HttpOut(r) \/ Finish(r)
    PROVE  /\ pc'[q] = pc[q] /\ path'[q] = path[q] /\ node'[q] = node[q] /\ snap'[q] = snap[q]
           /\ permit'[q] = permit[q] /\ rx'[q] = rx[q] /\ answer'[q] = answer[q]
           /\ exec'[q] = exec[q] /\ readAt'[q] = readAt[q]
           /\ q \in responders' <=> q \in responders
<1> USE DEF HookTypes, deployment, slotVars, requestVars, flowVars, ownerVars, GoesTo, Close
<1>1. CASE FindHookRoute(r)
  BY <1>1 DEF FindHookRoute
<1>2. CASE GetDeployment(r)
  BY <1>2 DEF GetDeployment
<1>3. CASE Admit(r)
  BY <1>3 DEF Admit, TryAcquire
<1>4. CASE BuildFlow(r)
  BY <1>4 DEF BuildFlow
<1>5. CASE Execute(r)
  BY <1>5 DEF Execute
<1>6. CASE Answered(r)
  BY <1>6 DEF Answered
<1>7. CASE TimeOut(r)
  BY <1>7 DEF TimeOut
<1>8. CASE CancelExecution(r)
  BY <1>8 DEF CancelExecution
<1>9. CASE RemoveResponder(r)
  BY <1>9 DEF RemoveResponder
<1>10. CASE Disconnect(r)
  BY <1>10 DEF Disconnect
<1>11. CASE HttpOut(r)
  BY <1>11 DEF HttpOut
<1>12. CASE Finish(r)
  BY <1>12 DEF Finish
<1> QED
  BY <1>1, <1>2, <1>3, <1>4, <1>5, <1>6, <1>7, <1>8, <1>9, <1>10, <1>11, <1>12 DEF Handler

\* Its own call stays sound.
LEMMA OwnCallStaysSound ==
    ASSUME HookTypes, NEW r \in Request, CallIsSound(r),
           Handler(r) \/ Disconnect(r) \/ HttpOut(r) \/ Finish(r)
    PROVE  CallIsSound(r)'
<1> USE DEF HookTypes, CallIsSound, Admitted, Answers, requestVars, flowVars, GoesTo, Close
<1>1. CASE FindHookRoute(r)
  BY <1>1 DEF FindHookRoute
<1>2. CASE GetDeployment(r)
  BY <1>2 DEF GetDeployment
<1>3. CASE Admit(r)
  <2>1. CASE \E a \in {"error", "unauthorized"} : Close(r, a)
    BY <1>3, <2>1 DEF Admit
  <2>2. CASE TryAcquire(r)
    <3> DEFINE g == IF slot = 0 THEN made + 1 ELSE slot
    <3>1. g # 0
      OBVIOUS
    <3>2. \/ permit' = [permit EXCEPT ![r] = g] /\ GoesTo(r, "build") /\ UNCHANGED answer
          \/ Close(r, "tooMany")
      BY <2>2 DEF TryAcquire
    <3> HIDE DEF g
    <3> QED
      BY <1>3, <3>1, <3>2 DEF Admit
  <2> QED
    BY <1>3, <2>1, <2>2 DEF Admit
<1>4. CASE BuildFlow(r)
  BY <1>4 DEF BuildFlow
<1>5. CASE Execute(r)
  BY <1>5 DEF Execute
<1>6. CASE Answered(r)
  BY <1>6 DEF Answered
<1>7. CASE TimeOut(r)
  BY <1>7 DEF TimeOut
<1>8. CASE CancelExecution(r)
  BY <1>8 DEF CancelExecution
<1>9. CASE RemoveResponder(r)
  BY <1>9 DEF RemoveResponder
<1>10. CASE Disconnect(r)
  BY <1>10 DEF Disconnect
<1>11. CASE HttpOut(r)
  BY <1>11 DEF HttpOut
<1>12. CASE Finish(r)
  BY <1>12 DEF Finish
<1> QED
  BY <1>1, <1>2, <1>3, <1>4, <1>5, <1>6, <1>7, <1>8, <1>9, <1>10, <1>11, <1>12 DEF Handler

\* The calls stay sound whatever the owner does: stopping cancels executions
\* and touches nothing else of them.
LEMMA OwnerKeepsCalls ==
    ASSUME HookTypes, NEW r \in Request, CallIsSound(r), NEW k \in OwnerCall,
           \/ StartFlow(k) \/ StopFlow(k) \/ DeleteFlow(k)
           \/ Deploy(k) \/ StopExecutions(k) \/ Undeploy(k) \/ Release(k)
    PROVE  CallIsSound(r)'
<1>1. CASE StopExecutions(k)
  BY <1>1 DEF StopExecutions, HookTypes, CallIsSound, requestVars
<1>2. CASE StartFlow(k) \/ StopFlow(k) \/ DeleteFlow(k) \/ Deploy(k) \/ Undeploy(k) \/ Release(k)
  <2>1. UNCHANGED <<requestVars, flowVars>>
    BY <1>2 DEF StartFlow, StopFlow, DeleteFlow, Deploy, Undeploy, Release
  <2> QED
    BY <2>1 DEF CallIsSound, requestVars, flowVars
<1> QED
  BY <1>1, <1>2

----------------------------------------------------------------------------
(* Matches.                                                                  *)

\* A commit of the owner makes every earlier look-up an old one; a snapshot
\* that was loaded is not touched.
LEMMA OwnerKeepsMatches ==
    ASSUME HookTypes, TablesAgree, NEW r \in Request, MatchIsKept(r), NEW k \in OwnerCall,
           \/ StartFlow(k) \/ StopFlow(k) \/ DeleteFlow(k)
           \/ Deploy(k) \/ StopExecutions(k) \/ Undeploy(k) \/ Release(k)
    PROVE  MatchIsKept(r)'
<1>1. UNCHANGED requestVars
  BY DEF StartFlow, StopFlow, DeleteFlow, Deploy, StopExecutions, Undeploy, Release
<1>2. exec'[r] # "none" => exec[r] # "none"
  BY DEF StartFlow, StopFlow, DeleteFlow, Deploy, StopExecutions, Undeploy, Release, flowVars,
         HookTypes
<1>3. changes' = changes \/ changes' = changes + 1
  BY DEF StartFlow, StopFlow, DeleteFlow, Deploy, StopExecutions, Undeploy, Release, deployment
<1>4. readAt[r][1] <= changes /\ readAt[r][1] \in Nat /\ changes \in Nat
  BY DEF HookTypes
<1>5. readAt[r][1] = changes' => changes' = changes
  BY <1>3, <1>4
<1>6. readAt[r][1] = changes' => UNCHANGED routes
  BY <1>5, OwnerKeepsTables
<1> QED
  BY <1>1, <1>2, <1>5, <1>6 DEF MatchIsKept, DeclaredBy, requestVars

\* The look-up takes a row that is there.  The load finds the snapshot the row
\* came with if nothing was committed between the two; from then on neither
\* the request nor its snapshot change.
LEMMA OwnMatchIsKept ==
    ASSUME HookTypes, TablesAgree, NEW r \in Request, CallIsSound(r), MatchIsKept(r),
           Handler(r) \/ Disconnect(r) \/ HttpOut(r) \/ Finish(r)
    PROVE  MatchIsKept(r)'
<1>1. CASE FindHookRoute(r)
  <2>1. exec'[r] = "none"
    BY <1>1 DEF FindHookRoute, CallIsSound, HookTypes, flowVars
  <2>2. CASE Close(r, "notFound") \/ Close(r, "error")
    BY <1>1, <2>1, <2>2 DEF MatchIsKept, Close, GoesTo, HookTypes, Admitted
  <2>3. ASSUME NEW m \in routes, m.path = path[r], node' = [node EXCEPT ![r] = {m.node}],
               GoesTo(r, "load")
        PROVE  MatchIsKept(r)'
    <3>1. m = [path |-> path'[r], node |-> m.node] /\ m.node \in node'[r] /\ m \in routes'
      BY <1>1, <2>3 DEF FindHookRoute, HookTypes, Route, deployment
    <3>2. pc'[r] = "load"
      BY <2>3 DEF GoesTo, HookTypes
    <3> QED
      BY <2>1, <3>1, <3>2 DEF MatchIsKept, Admitted
  <2> QED
    BY <1>1, <2>2, <2>3 DEF FindHookRoute
<1>2. CASE GetDeployment(r)
  <2>1. exec'[r] = "none" /\ pc[r] = "load"
    BY <1>2 DEF GetDeployment, CallIsSound, HookTypes, flowVars
  <2>2. CASE Close(r, "notFound") \/ Close(r, "error")
    BY <1>2, <2>1, <2>2 DEF MatchIsKept, Close, GoesTo, HookTypes, Admitted
  <2>3. ASSUME NEW c \in snapshot, snap' = [snap EXCEPT ![r] = {c}], GoesTo(r, "admit")
        PROVE  MatchIsKept(r)'
    <3>1. routes = RoutesOf(c)
      BY DEF TablesAgree
    <3>2. pc'[r] = "admit" /\ c \in snap'[r]
      BY <2>3 DEF GoesTo, HookTypes
    <3>3. readAt'[r] = <<readAt[r][1], changes>>
      BY <1>2 DEF GetDeployment, HookTypes
    <3>4. ASSUME readAt'[r][1] = readAt'[r][2]
          PROVE  DeclaredBy(r, c)'
      <4>1. PICK n \in node[r] : [path |-> path[r], node |-> n] \in routes
        BY <2>1, <3>3, <3>4 DEF MatchIsKept
      <4>2. UNCHANGED <<path, node>>
        BY <1>2 DEF GetDeployment
      <4> QED
        BY <3>1, <4>1, <4>2 DEF DeclaredBy
    <3> QED
      BY <3>2, <3>4 DEF MatchIsKept
  <2> QED
    BY <1>2, <2>2, <2>3 DEF GetDeployment
<1>3. CASE ~FindHookRoute(r) /\ ~GetDeployment(r)
  <2>1. UNCHANGED <<deployment, path, node, snap, readAt>>
    BY <1>3 DEF Handler, Admit, BuildFlow, Execute, Answered, TimeOut, CancelExecution,
                RemoveResponder, Disconnect, HttpOut, Finish, requestVars
  <2>2. pc'[r] = pc[r] \/ pc'[r] # "load"
    BY <1>3 DEF Handler, Admit, TryAcquire, BuildFlow, Execute, Answered, TimeOut, CancelExecution,
                RemoveResponder, Disconnect, HttpOut, Finish, requestVars, GoesTo, Close, HookTypes
  <2>3. pc'[r] \in {"admit"} \cup Admitted => pc[r] \in {"admit"} \cup Admitted
    BY <1>3 DEF Handler, Admit, TryAcquire, BuildFlow, Execute, Answered, TimeOut, CancelExecution,
                RemoveResponder, Disconnect, HttpOut, Finish, requestVars, GoesTo, Close, HookTypes,
                Admitted
  <2>4. exec'[r] # "none" => exec[r] # "none" \/ pc[r] \in Admitted
    BY <1>3 DEF Handler, Admit, BuildFlow, Execute, Answered, TimeOut, CancelExecution,
                RemoveResponder, Disconnect, HttpOut, Finish, flowVars, HookTypes, Admitted
  <2> QED
    BY <2>1, <2>2, <2>3, <2>4 DEF MatchIsKept, DeclaredBy, deployment
<1> QED
  BY <1>1, <1>2, <1>3

----------------------------------------------------------------------------
(* Slots.                                                                    *)

\* No semaphore has more holders than permits, one still to be made has none,
\* and all of them are being handled.
LEMMA HoldersAreFew ==
    ASSUME HookTypes, \A r \in Request : CallIsSound(r), SlotsCounted, NEW g \in 1 .. made + 1
    PROVE  /\ IsFiniteSet(Holders(g)) /\ Cardinality(Holders(g)) <= MaxConcurrency
           /\ Holders(g) \subseteq Handled
           /\ Cardinality(Holders(g)) <= Cardinality(Handled)
           /\ Cardinality(Holders(g)) \in Nat /\ Cardinality(Handled) \in Nat
<1>1. Holders(g) \subseteq Handled
  BY DEF Holders, Handled, CallIsSound, HookTypes
<1>2. IsFiniteSet(Holders(g)) /\ Cardinality(Holders(g)) <= Cardinality(Handled)
  BY <1>1, FS_Subset DEF SlotsCounted
<1>3. Cardinality(Holders(g)) <= MaxConcurrency
  <2>1. CASE g \in 1 .. made
    BY <2>1 DEF SlotsCounted
  <2>2. CASE g = made + 1
    <3>1. Holders(g) = {}
      BY <2>2 DEF Holders, HookTypes
    <3> QED
      BY <3>1, FS_EmptySet, HookRequestAssumption
  <2> QED
    BY <2>1, <2>2 DEF HookTypes
<1> QED
  BY <1>1, <1>2, <1>3, FS_CardinalityType DEF SlotsCounted

\* At most the request itself joins those that are handled.
LEMMA HandledStaysFinite ==
    ASSUME HookTypes, SlotsCounted, NEW r \in Request,
           Handler(r) \/ Disconnect(r) \/ HttpOut(r) \/ Finish(r)
    PROVE  IsFiniteSet(Handled')
<1>1. Handled' \subseteq Handled \cup {r}
  <2> SUFFICES ASSUME NEW q \in Request, q # r, pc'[q] \in Admitted PROVE pc[q] \in Admitted
    BY DEF Handled
  <2> QED
    BY OneRequest
<1>2. IsFiniteSet(Handled \cup {r})
  BY FS_AddElement DEF SlotsCounted
<1> QED
  BY <1>1, <1>2, FS_Subset

\* A step that gives r no permit leaves no semaphore with more holders.
LEMMA NoneAdmitted ==
    ASSUME HookTypes, \A q \in Request : CallIsSound(q), SlotsCounted, NEW r \in Request,
           Handler(r) \/ Disconnect(r) \/ HttpOut(r) \/ Finish(r),
           permit'[r] \in {0, permit[r]}, made' \in {made, made + 1}
    PROVE  SlotsCounted'
<1>1. ASSUME NEW g \in 1 .. made'
      PROVE  Cardinality(Holders(g)') <= MaxConcurrency
  <2>1. g \in 1 .. made + 1
    BY DEF HookTypes
  <2>2. Holders(g)' \subseteq Holders(g)
    <3> SUFFICES ASSUME NEW q \in Request, permit'[q] = g PROVE permit[q] = g
      BY DEF Holders
    <3>1. CASE q = r
      BY <3>1
    <3>2. CASE q # r
      BY <3>2, OneRequest
    <3> QED
      BY <3>1, <3>2
  <2>3. /\ IsFiniteSet(Holders(g)) /\ Cardinality(Holders(g)) <= MaxConcurrency
        /\ Cardinality(Holders(g)) \in Nat
    BY <2>1, HoldersAreFew
  <2>4. Cardinality(Holders(g)') <= Cardinality(Holders(g)) /\ IsFiniteSet(Holders(g)')
    BY <2>2, <2>3, FS_Subset
  <2> QED
    BY <2>3, <2>4, FS_CardinalityType, HookRequestAssumption
<1> QED
  BY <1>1, HandledStaysFinite DEF SlotsCounted

\* The handlers, their clients and the executions keep the slots counted.
LEMMA RequestKeepsSlots ==
    ASSUME HookTypes, \A q \in Request : CallIsSound(q), SlotsCounted, NEW r \in Request,
           Handler(r) \/ Disconnect(r) \/ HttpOut(r) \/ Finish(r)
    PROVE  SlotsCounted'
<1>1. CASE Admit(r)
  <2>1. CASE UNCHANGED slotVars /\ \E a \in {"error", "unauthorized"} : Close(r, a)
    BY <2>1, NoneAdmitted DEF Close, slotVars, HookTypes
  <2>2. CASE TryAcquire(r)
    <3> DEFINE g == IF slot = 0 THEN made + 1 ELSE slot
    <3>1. g \in 1 .. made + 1 /\ made' \in {made, made + 1} /\ g \in 1 .. made'
      BY <2>2 DEF TryAcquire, HookTypes
    <3>2. CASE Close(r, "tooMany")
      BY <3>1, <3>2, NoneAdmitted DEF Close, HookTypes
    <3>3. CASE /\ Cardinality(Holders(g)) < MaxConcurrency
               /\ permit' = [permit EXCEPT ![r] = g]
      <4>1. ASSUME NEW h \in 1 .. made'
            PROVE  Cardinality(Holders(h)') <= MaxConcurrency
        <5>1. h \in 1 .. made + 1
          BY <3>1 DEF HookTypes
        <5>2. /\ IsFiniteSet(Holders(h)) /\ Cardinality(Holders(h)) <= MaxConcurrency
              /\ Cardinality(Holders(h)) \in Nat
          BY <5>1, HoldersAreFew
        <5>3. CASE h = g
          <6>1. Holders(h)' = Holders(h) \cup {r}
            BY <3>3, <5>3 DEF Holders, HookTypes
          <6>2. Cardinality(Holders(h)') <= Cardinality(Holders(h)) + 1
            BY <5>2, <6>1, FS_AddElement
          <6>3. Cardinality(Holders(h)') \in Nat
            BY <5>2, <6>1, FS_AddElement, FS_CardinalityType
          <6> QED
            BY <3>3, <5>2, <5>3, <6>2, <6>3, HookRequestAssumption
        <5>4. CASE h # g
          <6>1. Holders(h)' \subseteq Holders(h)
            BY <3>3, <5>4 DEF Holders, HookTypes
          <6>2. Cardinality(Holders(h)') <= Cardinality(Holders(h)) /\ IsFiniteSet(Holders(h)')
            BY <5>2, <6>1, FS_Subset
          <6> QED
            BY <5>2, <6>2, FS_CardinalityType, HookRequestAssumption
        <5> QED
          BY <5>3, <5>4
      <4> QED
        BY <4>1, HandledStaysFinite DEF SlotsCounted
    <3> QED
      BY <2>2, <3>2, <3>3 DEF TryAcquire, Holders
  <2> QED
    BY <1>1, <2>1, <2>2 DEF Admit
<1>2. CASE ~Admit(r)
  <2>1. permit'[r] \in {0, permit[r]} /\ made' = made
    BY <1>2 DEF Handler, FindHookRoute, GetDeployment, BuildFlow, Execute, Answered, TimeOut,
                CancelExecution, RemoveResponder, Disconnect, HttpOut, Finish, requestVars,
                slotVars, Close, HookTypes
  <2> QED
    BY <2>1, NoneAdmitted
<1> QED
  BY <1>1, <1>2

\* The owner's calls take no permits; a semaphore that release forgets is
\* still counted by those who hold it.
LEMMA OwnerKeepsSlots ==
    ASSUME SlotsCounted, NEW k \in OwnerCall,
           \/ StartFlow(k) \/ StopFlow(k) \/ DeleteFlow(k)
           \/ Deploy(k) \/ StopExecutions(k) \/ Undeploy(k) \/ Release(k)
    PROVE  SlotsCounted'
<1>1. UNCHANGED <<made, requestVars>>
  BY DEF StartFlow, StopFlow, DeleteFlow, Deploy, StopExecutions, Undeploy, Release, slotVars
<1> QED
  BY <1>1 DEF SlotsCounted, Holders, Handled, requestVars

----------------------------------------------------------------------------
(* The bounds that the owner's calls set.                                    *)

\* Sets of calls are finite.
LEMMA CallsAreFinite ==
    ASSUME NEW S \in SUBSET OwnerCall
    PROVE  IsFiniteSet(S) /\ Cardinality(S) \in Nat /\ Cardinality(S) <= Cardinality(OwnerCall)
BY FS_Subset, FS_CardinalityType, HookRequestAssumption

\* A call that goes on leaves the sets Committed and Over alone or joins them.
LEMMA OwnerKeepsCounts ==
    ASSUME HookTypes, CallsCounted, NEW k \in OwnerCall,
           \/ StartFlow(k) \/ StopFlow(k) \/ DeleteFlow(k)
           \/ Deploy(k) \/ StopExecutions(k) \/ Undeploy(k) \/ Release(k)
    PROVE  CallsCounted'
<1>1. /\ Committed \in SUBSET OwnerCall /\ Over \in SUBSET OwnerCall
      /\ Committed' \in SUBSET OwnerCall /\ Over' \in SUBSET OwnerCall
  BY DEF Committed, Over
<1>2. /\ Cardinality(Committed) \in Nat /\ Cardinality(Over) \in Nat
      /\ Cardinality(Committed') \in Nat /\ Cardinality(Over') \in Nat
      /\ IsFiniteSet(Committed) /\ IsFiniteSet(Over)
      /\ IsFiniteSet(Committed') /\ IsFiniteSet(Over')
  BY <1>1, CallsAreFinite
<1>3. Committed \subseteq Committed' /\ Over \subseteq Over'
  BY DEF Committed, Over, CallGoesTo, HookTypes, StartFlow, StopFlow, DeleteFlow, Deploy,
         StopExecutions, Undeploy, Release
<1>4. Cardinality(Committed) <= Cardinality(Committed') /\ Cardinality(Over) <= Cardinality(Over')
  BY <1>2, <1>3, FS_Subset
<1>5. CASE Deploy(k) \/ Undeploy(k)
  <2>1. Committed' = Committed \cup {k} /\ k \notin Committed
    BY <1>5 DEF Committed, CallGoesTo, HookTypes, Deploy, Undeploy
  <2>2. Cardinality(Committed') = Cardinality(Committed) + 1
    BY <1>2, <2>1, FS_AddElement
  <2>3. changes' = changes + 1 /\ UNCHANGED slotVars
    BY <1>5 DEF Deploy, Undeploy
  <2> QED
    BY <1>2, <1>4, <2>2, <2>3 DEF CallsCounted, HookTypes, slotVars
<1>6. CASE Release(k)
  <2>1. Over' = Over \cup {k} /\ k \notin Over
    BY <1>6 DEF Over, CallGoesTo, HookTypes, Release
  <2>2. Cardinality(Over') = Cardinality(Over) + 1
    BY <1>2, <2>1, FS_AddElement
  <2>3. slot' = 0 /\ UNCHANGED <<made, changes>>
    BY <1>6 DEF Release, deployment
  <2> QED
    BY <1>2, <1>4, <2>2, <2>3 DEF CallsCounted, HookTypes
<1>7. CASE StartFlow(k) \/ StopFlow(k) \/ DeleteFlow(k) \/ StopExecutions(k)
  <2>1. UNCHANGED <<changes, slotVars>>
    BY <1>7 DEF StartFlow, StopFlow, DeleteFlow, StopExecutions, deployment
  <2> QED
    BY <1>2, <1>4, <2>1 DEF CallsCounted, HookTypes, slotVars
<1> QED
  BY <1>5, <1>6, <1>7

\* A semaphore is made only while there is none, which is once until the next
\* release.
LEMMA RequestKeepsCounts ==
    ASSUME HookTypes, CallsCounted, NEW r \in Request,
           Handler(r) \/ Disconnect(r) \/ HttpOut(r) \/ Finish(r)
    PROVE  CallsCounted'
<1>1. UNCHANGED <<changes, callPc>>
  BY RequestKeepsTables DEF deployment, ownerVars
<1>2. UNCHANGED slotVars \/ TryAcquire(r)
  BY DEF Handler, FindHookRoute, GetDeployment, Admit, BuildFlow, Execute, Answered, TimeOut,
         CancelExecution, RemoveResponder, Disconnect, HttpOut, Finish
<1>3. \/ UNCHANGED slotVars
      \/ slot = 0 /\ made' = made + 1 /\ slot' = made + 1
  BY <1>2 DEF TryAcquire, HookTypes, slotVars
<1>4. Cardinality(Over) \in Nat
  BY CallsAreFinite DEF Over
<1> QED
  BY <1>1, <1>3, <1>4 DEF CallsCounted, Committed, Over, slotVars, HookTypes

----------------------------------------------------------------------------
(* The invariant.                                                            *)

\* Before the first request nothing is deployed, made or held.
LEMMA InitEstablishes == Init => IInv
<1> SUFFICES ASSUME Init PROVE IInv
  OBVIOUS
<1> USE DEF Init
<1>1. HookTypes
  BY DEF HookTypes, Answers
<1>2. TablesAgree
  BY DEF TablesAgree
<1>3. ASSUME NEW r \in Request PROVE CallIsSound(r) /\ MatchIsKept(r)
  BY DEF CallIsSound, MatchIsKept, Admitted
<1>4. SlotsCounted
  <2>1. Handled = {}
    BY DEF Handled, Admitted
  <2> QED
    BY <2>1, FS_EmptySet DEF SlotsCounted
<1>5. CallsCounted
  <2>1. Cardinality(Committed) \in Nat /\ Cardinality(Over) \in Nat
    BY CallsAreFinite DEF Committed, Over
  <2> QED
    BY <2>1 DEF CallsCounted
<1> QED
  BY <1>1, <1>2, <1>3, <1>4, <1>5 DEF IInv

\* A step of the owner preserves it.
LEMMA OwnerPreserves ==
    ASSUME IInv, NEW k \in OwnerCall,
           \/ StartFlow(k) \/ StopFlow(k) \/ DeleteFlow(k)
           \/ Deploy(k) \/ StopExecutions(k) \/ Undeploy(k) \/ Release(k)
    PROVE  IInv'
<1>1. HookTypes'
  BY OwnerKeepsTypes DEF IInv
<1>2. TablesAgree'
  BY OwnerKeepsTables DEF IInv
<1>3. ASSUME NEW r \in Request PROVE CallIsSound(r)'
  BY OwnerKeepsCalls DEF IInv
<1>4. ASSUME NEW r \in Request PROVE MatchIsKept(r)'
  BY OwnerKeepsMatches DEF IInv
<1>5. SlotsCounted'
  BY OwnerKeepsSlots DEF IInv
<1>6. CallsCounted'
  BY OwnerKeepsCounts DEF IInv
<1> QED
  BY <1>1, <1>2, <1>3, <1>4, <1>5, <1>6 DEF IInv

\* A step of a request preserves it.
LEMMA RequestPreserves ==
    ASSUME IInv, NEW r \in Request,
           Handler(r) \/ Disconnect(r) \/ HttpOut(r) \/ Finish(r)
    PROVE  IInv'
<1>1. HookTypes'
  BY RequestKeepsTypes DEF IInv
<1>2. TablesAgree'
  BY RequestKeepsTables DEF IInv, TablesAgree, deployment
<1>3. ASSUME NEW q \in Request PROVE CallIsSound(q)' /\ MatchIsKept(q)'
  <2>1. CASE q = r
    BY <2>1, OwnCallStaysSound, OwnMatchIsKept DEF IInv
  <2>2. CASE q # r
    <3>1. UNCHANGED <<routes, changes>>
      BY RequestKeepsTables DEF deployment
    <3>2. /\ pc'[q] = pc[q] /\ path'[q] = path[q] /\ node'[q] = node[q] /\ snap'[q] = snap[q]
          /\ permit'[q] = permit[q] /\ rx'[q] = rx[q] /\ answer'[q] = answer[q]
          /\ exec'[q] = exec[q] /\ readAt'[q] = readAt[q]
          /\ q \in responders' <=> q \in responders
      BY <2>2, OneRequest DEF IInv
    <3>3. CallIsSound(q)'
      BY <3>2 DEF IInv, CallIsSound
    <3>4. MatchIsKept(q)'
      BY <3>1, <3>2 DEF IInv, MatchIsKept, DeclaredBy
    <3> QED
      BY <3>3, <3>4
  <2> QED
    BY <2>1, <2>2
<1>4. SlotsCounted'
  BY RequestKeepsSlots DEF IInv
<1>5. CallsCounted'
  BY RequestKeepsCounts DEF IInv
<1> QED
  BY <1>1, <1>2, <1>3, <1>4, <1>5 DEF IInv

\* Every step preserves it.
LEMMA NextPreserves == IInv /\ [Next]_vars => IInv'
<1>1. CASE UNCHANGED vars
  BY <1>1 DEF IInv, HookTypes, TablesAgree, CallIsSound, MatchIsKept, DeclaredBy, SlotsCounted,
              CallsCounted, Holders, Handled, Committed, Over, vars, deployment, slotVars,
              requestVars, flowVars, ownerVars
<1> QED
  BY <1>1, OwnerPreserves, RequestPreserves DEF Next

\* The inductive invariant holds of every execution.
THEOREM HookInvariant == Spec => []IInv
BY InitEstablishes, NextPreserves, PTL DEF Spec

----------------------------------------------------------------------------
(* What it implies.                                                          *)

\* Every variable of a webhook call keeps its type; the deployment tables
\* change at most once per call of the owner, and a semaphore is made at most
\* once per call and once more.
THEOREM HookTypesHold == Spec => []TypeOK
<1>1. IInv => TypeOK
  <2> SUFFICES ASSUME IInv PROVE TypeOK
    OBVIOUS
  <2>1. Cardinality(snapshot) <= 1
    <3>1. CASE snapshot = {}
      BY <3>1, FS_EmptySet
    <3>2. ASSUME NEW c \in Canvas, snapshot = {c}
          PROVE  Cardinality(snapshot) <= 1
      BY <3>2, FS_Singleton
    <3> QED
      BY <3>1, <3>2 DEF IInv, TablesAgree
  <2>2. /\ Cardinality(Committed) \in Nat /\ Cardinality(Over) \in Nat
        /\ Cardinality(Committed) <= Cardinality(OwnerCall)
        /\ Cardinality(Over) <= Cardinality(OwnerCall)
    BY CallsAreFinite DEF Committed, Over
  <2>3. Cardinality(OwnerCall) \in Nat
    BY CallsAreFinite
  <2>4. made \in 0 .. Cardinality(OwnerCall) + 1 /\ changes \in 0 .. Cardinality(OwnerCall)
    BY <2>2, <2>3 DEF IInv, CallsCounted, HookTypes
  <2> QED
    BY <2>1, <2>4 DEF IInv, HookTypes, TypeOK
<1> QED
  BY <1>1, HookInvariant, PTL

\* However a call ends, its responder is out of the map unless its client
\* left, and an execution whose caller was told of a timeout has been cancelled
\* or is over.
THEOREM CallsAreCleanedUp == Spec => []CallsCleanUp
<1>1. IInv => CallsCleanUp
  BY DEF IInv, HookTypes, CallIsSound, CallsCleanUp, NoStrayResponder, TimedOutIsCancelled, Admitted
<1> QED
  BY <1>1, HookInvariant, PTL

\* What a request runs is declared by the snapshot it loaded, unless a commit
\* of the owner came between its two queries.
THEOREM MatchesAreRun == Spec => []RunsWhatItMatched
<1>1. IInv => RunsWhatItMatched
  BY DEF IInv, MatchIsKept, DeclaredBy, RunsWhatItMatched
<1> QED
  BY <1>1, HookInvariant, PTL

\* The slots bound the handlers of one semaphore, and a call is refused for
\* its number only while as many others as there are slots are being handled:
\* no slot leaks, whatever becomes of clients, executions and flows.
THEOREM SlotsHold == Spec => SlotsAreCounted
<1>1. IInv => HandlersBounded
  <2> SUFFICES ASSUME IInv, NEW r \in Request, pc[r] \in Admitted
               PROVE  Cardinality({q \in Request : pc[q] \in Admitted /\ permit[q] = permit[r]})
                          <= MaxConcurrency
    BY DEF HandlersBounded
  <2>1. permit[r] \in 1 .. made
    BY DEF IInv, CallIsSound, HookTypes
  <2>2. {q \in Request : pc[q] \in Admitted /\ permit[q] = permit[r]} = Holders(permit[r])
    BY <2>1 DEF IInv, CallIsSound, Holders
  <2> QED
    BY <2>1, <2>2 DEF IInv, SlotsCounted
<1>2. IInv /\ [Next]_vars =>
          [\A r \in Request :
              (answer'[r] = "tooMany" /\ answer[r] # "tooMany") =>
                  Cardinality({q \in Request : pc[q] \in Admitted}) >= MaxConcurrency]_vars
  <2> SUFFICES ASSUME IInv, Next, NEW r \in Request,
                      answer'[r] = "tooMany", answer[r] # "tooMany"
               PROVE  Cardinality(Handled) >= MaxConcurrency
    BY DEF Handled
  <2>1. ~ \E k \in OwnerCall :
             \/ StartFlow(k) \/ StopFlow(k) \/ DeleteFlow(k)
             \/ Deploy(k) \/ StopExecutions(k) \/ Undeploy(k) \/ Release(k)
    BY DEF StartFlow, StopFlow, DeleteFlow, Deploy, StopExecutions, Undeploy, Release, requestVars
  <2>2. PICK q \in Request : Handler(q) \/ Disconnect(q) \/ HttpOut(q) \/ Finish(q)
    BY <2>1 DEF Next
  <2>3. q = r
    BY <2>2, OneRequest DEF IInv
  <2>4. TryAcquire(r) /\ Close(r, "tooMany")
    BY <2>2, <2>3 DEF Handler, FindHookRoute, GetDeployment, Admit, TryAcquire, BuildFlow, Execute,
                      Answered, TimeOut, CancelExecution, RemoveResponder, Disconnect, HttpOut,
                      Finish, requestVars, Close, IInv, HookTypes
  <2> DEFINE g == IF slot = 0 THEN made + 1 ELSE slot
  <2>5. g \in 1 .. made + 1
    BY DEF IInv, HookTypes
  <2>6. pc'[r] = "closed"
    BY <2>4 DEF Close, GoesTo, IInv, HookTypes
  <2>7. ~(Cardinality(Holders(g)) < MaxConcurrency)
    BY <2>4, <2>6 DEF TryAcquire, Holders, GoesTo, IInv, HookTypes
  <2> HIDE DEF g
  <2>8. Cardinality(Holders(g)) <= Cardinality(Handled) /\ Cardinality(Holders(g)) \in Nat
        /\ Cardinality(Handled) \in Nat
    BY <2>5, HoldersAreFew DEF IInv
  <2> QED
    BY <2>7, <2>8, HookRequestAssumption
<1> QED
  BY <1>1, <1>2, HookInvariant, PTL DEF Spec, SlotsAreCounted, RefusedOnlyWhenFull
=============================================================================
