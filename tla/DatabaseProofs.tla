--------------------------- MODULE DatabaseProofs ---------------------------
(***************************************************************************)
(* Theorems about the two modules that share the database.                  *)
(*                                                                         *)
(* FlowStore, for any users, flows, calls and canvases: deployments are      *)
(* sound however the calls overlap and wherever they end, and without        *)
(* overlap and failure the handlers implement FlowRegistry.  Both rest on    *)
(* one invariant, StoreInv.  It adds to the tables what each handler carries *)
(* between its statements: the creator of the flow it opened on, and, as     *)
(* long as nobody else is at that flow, the row as it is.                    *)
(*                                                                         *)
(* ServerStart, for any set of processes, any number of secrets and any      *)
(* number of crashes and failing statements: the schema a server serves is   *)
(* the newest one, and secrets and credentials outlive every start.  They    *)
(* rest on StartInv.                                                         *)
(***************************************************************************)
EXTENDS MCDatabase, TLAPS

----------------------------------------------------------------------------
(* The inductive invariant.                                                  *)

Deployment == [user : User, canvas : Canvas]
Handling == [at : {"save", "undeploy", "deploy", "retire", "execute", "stop", "stopped"},
             flow : Flow, user : User, got : Row \cup {None}]
Execution == {[user |-> u, flow |-> CanvasToFlow(c, u)] : u \in User, c \in Canvas \cup {NoCanvas}}

\* The routes of one snapshot.
Bound(u, c) == {[user |-> u, route |-> r.route, node |-> r.node] : r \in HookRoutes(c)}
RoutesOf(d) == IF d = None THEN {} ELSE Bound(d.user, d.canvas)

TablesOK ==
    /\ flows \in [Flow -> Row \cup {None}]
    /\ deployments \in [Flow -> Deployment \cup {None}]
    /\ hookRoutes = [f \in Flow |-> RoutesOf(deployments[f])]
    /\ running \in [Flow -> SUBSET Execution]
    /\ call \in [Call -> {Idle, Done} \cup Handling]
    /\ creator \in [Flow -> User \cup {None}]
    /\ disorder \subseteq Flow

\* Whose a flow, its deployment and its executions are.
OwnersOK ==
    \A f \in Flow :
        /\ flows[f] # None => creator[f] # None /\ flows[f].owner \in {creator[f], Nobody}
        /\ deployments[f] # None =>
              deployments[f].user = creator[f] /\ HookRoutes(deployments[f].canvas) # {}
        /\ \A x \in running[f] : x.user = creator[f]

\* What a handler carries: it was let in as the creator of the flow.
Carries(x) ==
    /\ x.user = creator[x.flow]
    /\ x.at \in {"save", "deploy", "retire", "execute"} => x.got \in Row
    /\ x.at = "deploy" => HookRoutes(x.got.canvas) # {}

CallsOK == \A k \in Call : call[k] \in Handling => Carries(call[k])

\* In order: the handler is alone at its flow, and the flow is as it found it.
Alone(k) == \A j \in Call : call[j] \in Handling /\ call[j].flow = call[k].flow => j = k
AsFound(x) ==
    /\ x.at # "undeploy" => flows[x.flow] # None
    /\ x.at = "deploy" => flows[x.flow] = x.got /\ x.got.owner = x.user

Orderly ==
    \A k \in Call : call[k] \in Handling /\ call[k].flow \notin disorder =>
        Alone(k) /\ AsFound(call[k])

StoreInv == TablesOK /\ OwnersOK /\ CallsOK /\ Orderly

----------------------------------------------------------------------------
(* Lemmas about canvases and calls.                                          *)

\* The secrets of an executable flow are looked up under the user it was made for.
LEMMA SecretsBelong ==
    ASSUME NEW x \in Execution
    PROVE  \A s \in SecretsOf(x.flow) : s[1] = x.user
<1>1. PICK u \in User, c \in Canvas \cup {NoCanvas} : x = [user |-> u, flow |-> CanvasToFlow(c, u)]
  BY DEF Execution
<1>2. \A n : \A s \in ResolveVaultRefs(n, u) : s[1] = u
  BY DEF ResolveVaultRefs
<1>3. \A i \in DOMAIN c.nodes : CanvasToFlow(c, u).nodes[i].secrets = ResolveVaultRefs(c.nodes[i], u)
  BY DEF CanvasToFlow
<1>4. DOMAIN CanvasToFlow(c, u).nodes = DOMAIN c.nodes
  BY DEF CanvasToFlow
<1> QED
  BY <1>1, <1>2, <1>3, <1>4 DEF SecretsOf

\* A canvas without nodes has no routes.
LEMMA NoRoutes == HookRoutes(NoCanvas) = {}
BY DEF HookRoutes, Triggers, Nodes, NoCanvas, ToSet

\* What a call is by its place.
LEMMA CallByPlace ==
    ASSUME StoreInv, NEW k \in Call
    PROVE  /\ InHandler(k) <=> call[k] \in Handling
           /\ call[k].at \notin {"idle", "done"} => call[k] \in Handling
           /\ Idle \notin Handling /\ Done \notin Handling
BY DEF StoreInv, TablesOK, InHandler, Handling, Idle, Done

\* Only the creator of a flow is let in.
LEMMA OwnerIsCreator ==
    ASSUME StoreInv, NEW f \in Flow, NEW u \in User, OwnedBy(f, u)
    PROVE  u = creator[f] /\ flows[f] \in Row /\ flows[f].owner = u
BY FlowStoreAssumption DEF StoreInv, TablesOK, OwnersOK, OwnedBy

\* Rows, deployments and users are there.
LEMMA NoneIsNothing == None \notin Row /\ None \notin Deployment /\ None \notin User
BY FlowStoreAssumption DEF Row, Deployment

----------------------------------------------------------------------------
(* Steps by kind.                                                            *)

\* The handlers that remain in order: those of other flows, whose rows are as
\* they were, and the one that made the step.
LEMMA OrderKept ==
    ASSUME StoreInv, NEW k \in Call, NEW f \in Flow, NEW STATE x,
           x \in {Idle, Done} \cup Handling, call' = [call EXCEPT ![k] = x],
           call[k] \in Handling => call[k].flow = f,
           x \in Handling => x.flow = f,
           disorder \subseteq disorder',
           \A g \in Flow \ {f} : flows'[g] = flows[g],
           \/ call[k] \in Handling
           \/ x \notin Handling /\ flows'[f] = flows[f]
           \/ \A j \in Call \ {k} : call[j] \in Handling => call[j].flow # f
           \/ f \in disorder',
           x \in Handling /\ f \notin disorder' =>
                /\ x.at # "undeploy" => flows'[f] # None
                /\ x.at = "deploy" => flows'[f] = x.got /\ x.got.owner = x.user
    PROVE  Orderly'
<1>1. /\ call \in [Call -> {Idle, Done} \cup Handling]
      /\ Idle \notin Handling /\ Done \notin Handling
  BY CallByPlace DEF StoreInv, TablesOK
<1>2. call'[k] = x /\ \A j \in Call \ {k} : call'[j] = call[j]
  BY <1>1
<1> SUFFICES ASSUME NEW j \in Call, call'[j] \in Handling, call'[j].flow \notin disorder'
             PROVE  /\ \A i \in Call : call'[i] \in Handling /\ call'[i].flow = call'[j].flow => i = j
                    /\ call'[j].at # "undeploy" => flows'[call'[j].flow] # None
                    /\ call'[j].at = "deploy" => /\ flows'[call'[j].flow] = call'[j].got
                                                  /\ call'[j].got.owner = call'[j].user
  BY DEF Orderly, Alone, AsFound
<1>3. CASE j = k
  <2>1. ASSUME NEW i \in Call \ {k}, call[i] \in Handling, call[i].flow = f PROVE FALSE
    <3>1. CASE call[k] \in Handling
      BY <1>2, <1>3, <2>1, <3>1 DEF StoreInv, Orderly, Alone
    <3> QED
      BY <1>2, <1>3, <2>1, <3>1
  <2> QED
    BY <1>2, <1>3, <2>1
<1>4. CASE j # k
  <2>1. call[j] \in Handling /\ call[j].flow \notin disorder /\ call'[j] = call[j] /\ call[j].flow \in Flow
    BY <1>2, <1>4 DEF Handling
  <2>2. Alone(j) /\ AsFound(call[j])
    BY <2>1 DEF StoreInv, Orderly
  <2>3. CASE call[j].flow = f
    <3>1. call[k] \notin Handling
      BY <1>4, <2>2, <2>3 DEF Alone
    <3>2. x \notin Handling /\ flows'[f] = flows[f]
      BY <1>2, <1>4, <2>1, <2>3, <3>1
    <3> QED
      BY <1>2, <2>1, <2>2, <2>3, <3>2 DEF Alone, AsFound
  <2>4. CASE call[j].flow # f
    <3>1. flows'[call[j].flow] = flows[call[j].flow]
      BY <2>1, <2>4
    <3>2. \A i \in Call : call'[i] \in Handling /\ call'[i].flow = call[j].flow => i = j
      BY <1>2, <2>1, <2>2, <2>4 DEF Alone
    <3> QED
      BY <2>1, <2>2, <3>1, <3>2 DEF AsFound
  <2> QED
    BY <2>3, <2>4
<1> QED
  BY <1>3, <1>4

\* What the calls carry, after one of them went on.
LEMMA CallsKept ==
    ASSUME StoreInv, NEW k \in Call, NEW STATE x,
           x \in {Idle, Done} \cup Handling, call' = [call EXCEPT ![k] = x],
           \A f \in Flow : creator[f] # None => creator'[f] = creator[f],
           x \in Handling => Carries(x) /\ UNCHANGED creator
    PROVE  call' \in [Call -> {Idle, Done} \cup Handling] /\ CallsOK'
<1>1. /\ call \in [Call -> {Idle, Done} \cup Handling]
      /\ Idle \notin Handling /\ Done \notin Handling
  BY CallByPlace DEF StoreInv, TablesOK
<1>2. call'[k] = x /\ \A j \in Call \ {k} : call'[j] = call[j]
  BY <1>1
<1>3. ASSUME NEW j \in Call, call'[j] \in Handling
      PROVE  /\ call'[j].user = creator'[call'[j].flow]
             /\ call'[j].at \in {"save", "deploy", "retire", "execute"} => call'[j].got \in Row
             /\ call'[j].at = "deploy" => HookRoutes(call'[j].got.canvas) # {}
  <2>1. CASE j = k
    BY <1>2, <1>3, <2>1 DEF Carries
  <2>2. CASE j # k
    <3>1. call'[j] = call[j] /\ Carries(call[j])
      BY <1>2, <1>3, <2>2 DEF StoreInv, CallsOK
    <3>2. call[j].flow \in Flow /\ creator[call[j].flow] # None
      BY <1>3, <3>1, NoneIsNothing DEF Carries, Handling
    <3> QED
      BY <3>1, <3>2 DEF Carries
  <2> QED
    BY <2>1, <2>2
<1> QED
  BY <1>1, <1>3 DEF CallsOK, Carries

\* A handler that is let in.
LEMMA EnterStep ==
    ASSUME StoreInv, NEW k \in Call, NEW f \in Flow, NEW u \in User, NEW place, NEW STATE got,
           call[k] = Idle, OwnedBy(f, u), Enter(k, f, u, place, got),
           place \in {"save", "undeploy", "deploy", "retire", "stop"},
           got \in Row \cup {None},
           place \in {"save", "deploy", "retire"} => got \in Row,
           place = "deploy" => HookRoutes(got.canvas) # {} /\ got = flows[f],
           \A g \in Flow \ {f} : flows'[g] = flows[g],
           place # "undeploy" => flows' = flows,
           UNCHANGED <<deployments, hookRoutes, running, creator>>,
           flows' \in [Flow -> Row \cup {None}], flows'[f] \in {flows[f], None}
    PROVE  StoreInv'
<1> DEFINE x == [at |-> place, flow |-> f, user |-> u, got |-> got]
<1>1. u = creator[f] /\ flows[f] \in Row /\ flows[f].owner = u /\ flows[f] # None
  BY OwnerIsCreator DEF OwnedBy
<1>2. /\ call' = [call EXCEPT ![k] = x]
      /\ disorder' = disorder \cup {g \in {f} : \E j \in Call \ {k} : InHandler(j) /\ call[j].flow = f}
  BY DEF Enter
<1>3. x \in Handling /\ Carries(x)
  BY <1>1 DEF Handling, Carries
<1>4. x.flow = f /\ x.at = place /\ x.got = got /\ x.user = u
  OBVIOUS
<1> HIDE DEF x
<1>5. call' \in [Call -> {Idle, Done} \cup Handling] /\ CallsOK'
  BY <1>2, <1>3, CallsKept
<1>6. call[k] \notin Handling
  BY CallByPlace
<1>7. (\A j \in Call \ {k} : call[j] \in Handling => call[j].flow # f) \/ f \in disorder'
  BY <1>2, CallByPlace
<1>8. disorder \subseteq disorder' /\ disorder' \subseteq Flow
  BY <1>2 DEF StoreInv, TablesOK
<1>9. /\ x.at # "undeploy" => flows'[f] # None
      /\ x.at = "deploy" => flows'[f] = x.got /\ x.got.owner = x.user
  BY <1>1, <1>4
<1>10. Orderly'
  BY <1>2, <1>3, <1>4, <1>6, <1>7, <1>8, <1>9, OrderKept
<1>11. TablesOK'
  BY <1>5, <1>8 DEF StoreInv, TablesOK, RoutesOf
<1>12. OwnersOK'
  <2>1. \A g \in Flow : flows'[g] \in {flows[g], None}
    OBVIOUS
  <2> QED
    BY <2>1 DEF StoreInv, OwnersOK
<1> QED
  BY <1>5, <1>10, <1>11, <1>12 DEF StoreInv

\* A handler that returns, or goes on in its place, and leaves the row alone.
LEMMA GoesOn ==
    ASSUME StoreInv, NEW k \in Call, call[k] \in Handling,
           NEW STATE x, call' = [call EXCEPT ![k] = x],
           \/ x = Done
           \/ /\ call[k].at \in {"retire", "stop"}
              /\ x \in {[call[k] EXCEPT !.at = "execute"], [call[k] EXCEPT !.at = "stopped"]}
              /\ x.at = "execute" => call[k].at = "retire",
           disorder \subseteq disorder', disorder' \subseteq Flow,
           UNCHANGED <<flows, creator>>
    PROVE  call' \in [Call -> {Idle, Done} \cup Handling] /\ CallsOK' /\ Orderly'
<1> DEFINE f == call[k].flow
<1>1. /\ x \in {Idle, Done} \cup Handling /\ f \in Flow
      /\ x \in Handling => x.flow = f /\ x.at \notin {"undeploy", "deploy"} /\ Carries(x)
  <2>1. Carries(call[k])
    BY DEF StoreInv, CallsOK
  <2>2. CASE x = Done
    BY <2>2, CallByPlace DEF Handling
  <2>3. CASE x # Done
    BY <2>1, <2>3 DEF Handling, Carries
  <2> QED
    BY <2>2, <2>3
<1>2. call' \in [Call -> {Idle, Done} \cup Handling] /\ CallsOK'
  BY <1>1, CallsKept
<1>3. x \in Handling /\ f \notin disorder' => flows'[f] # None
  <2> SUFFICES ASSUME x \in Handling, f \notin disorder PROVE flows[f] # None
    OBVIOUS
  <2>1. x # Done
    BY CallByPlace
  <2> QED
    BY <2>1 DEF StoreInv, Orderly, AsFound
<1> HIDE DEF f
<1>4. Orderly'
  BY <1>1, <1>3, OrderKept DEF f
<1> QED
  BY <1>2, <1>4

\* A new row under a new id.
LEMMA NewFlow ==
    ASSUME StoreInv, NEW k \in Call, NEW u \in User, NEW f \in Flow, NEW STATE r,
           r \in Row, r.owner = u, call[k] = Idle,
           FreshId(f), SaveFlowWithUser(f, r), creator' = [creator EXCEPT ![f] = u],
           OneStep(k, f), UNCHANGED <<deployments, hookRoutes, running>>
    PROVE  /\ StoreInv'
           /\ flows[f] = None /\ deployments[f] = None /\ flows' = [flows EXCEPT ![f] = r]
<1>1. /\ flows[f] = None /\ deployments[f] = None /\ running[f] = {}
      /\ \A j \in Call : call[j] \in Handling => call[j].flow # f
  <2>1. flows[f] = None
    BY DEF StoreInv, OwnersOK, FreshId
  <2>2. deployments[f] = None
    BY NoneIsNothing DEF StoreInv, TablesOK, OwnersOK, FreshId, Deployment
  <2>3. running[f] = {}
    <3> SUFFICES ASSUME NEW x \in running[f] PROVE FALSE
      OBVIOUS
    <3>1. x.user \in User
      BY DEF StoreInv, TablesOK, Execution
    <3> QED
      BY <3>1, NoneIsNothing DEF StoreInv, OwnersOK, FreshId
  <2>4. \A j \in Call : call[j] \in Handling => call[j].flow # f
    BY NoneIsNothing DEF StoreInv, CallsOK, Carries, Handling, FreshId
  <2> QED
    BY <2>1, <2>2, <2>3, <2>4
<1>2. flows' = [flows EXCEPT ![f] = r]
  BY <1>1 DEF SaveFlowWithUser, StoreInv, TablesOK
<1>3. /\ call' = [call EXCEPT ![k] = Done]
      /\ disorder \subseteq disorder' /\ disorder' \subseteq Flow
  BY DEF OneStep, Return, StoreInv, TablesOK
<1>4. Done \notin Handling /\ call[k] \notin Handling
  BY CallByPlace
<1>5. call' \in [Call -> {Idle, Done} \cup Handling] /\ CallsOK'
  <2>1. \A g \in Flow : creator[g] # None => creator'[g] = creator[g]
    BY DEF FreshId, StoreInv, TablesOK
  <2> QED
    BY <1>3, <1>4, <2>1, CallsKept
<1>6. Orderly'
  <2>1. \A g \in Flow \ {f} : flows'[g] = flows[g]
    BY <1>2 DEF StoreInv, TablesOK
  <2> QED
    BY <1>1, <1>3, <1>4, <2>1, OrderKept
<1>7. TablesOK'
  <2>1. flows' \in [Flow -> Row \cup {None}] /\ creator' \in [Flow -> User \cup {None}]
    BY <1>2 DEF StoreInv, TablesOK
  <2> QED
    BY <1>3, <1>5, <2>1 DEF StoreInv, TablesOK, RoutesOf
<1>8. OwnersOK'
  <2> SUFFICES ASSUME NEW g \in Flow
               PROVE  /\ flows'[g] # None => creator'[g] # None /\ flows'[g].owner \in {creator'[g], Nobody}
                      /\ deployments[g] # None =>
                            /\ deployments[g].user = creator'[g]
                            /\ HookRoutes(deployments[g].canvas) # {}
                      /\ \A x \in running[g] : x.user = creator'[g]
    BY DEF OwnersOK
  <2>1. CASE g = f
    BY <1>1, <1>2, <2>1, NoneIsNothing DEF StoreInv, TablesOK
  <2>2. CASE g # f
    BY <1>2, <2>2 DEF StoreInv, TablesOK, OwnersOK
  <2> QED
    BY <2>1, <2>2
<1> QED
  BY <1>1, <1>2, <1>5, <1>6, <1>7, <1>8 DEF StoreInv

\* A snapshot and its routes are replaced together.
LEMMA SnapshotKept ==
    ASSUME StoreInv, NEW f \in Flow, NEW STATE d, d \in Deployment \cup {None},
           d # None => d.user = creator[f] /\ HookRoutes(d.canvas) # {},
           deployments' = [deployments EXCEPT ![f] = d],
           hookRoutes' = [hookRoutes EXCEPT ![f] = RoutesOf(d)],
           UNCHANGED <<flows, creator>>, running' \in [Flow -> SUBSET Execution],
           \A g \in Flow : \A x \in running'[g] : x.user = creator[g],
           call' \in [Call -> {Idle, Done} \cup Handling], disorder' \subseteq Flow
    PROVE  TablesOK' /\ OwnersOK'
<1>1. deployments \in [Flow -> Deployment \cup {None}]
      /\ hookRoutes = [g \in Flow |-> RoutesOf(deployments[g])]
  BY DEF StoreInv, TablesOK
<1>2. hookRoutes' = [g \in Flow |-> RoutesOf(deployments'[g])]
  BY <1>1
<1>3. deployments' \in [Flow -> Deployment \cup {None}]
  BY <1>1
<1>4. TablesOK'
  <2>1. \A g \in Flow : RoutesOf(deployments[g])' = RoutesOf(deployments'[g])
    BY DEF RoutesOf, Bound
  <2> QED
    BY <1>2, <1>3, <2>1 DEF StoreInv, TablesOK
<1>5. OwnersOK'
  BY <1>1 DEF StoreInv, OwnersOK
<1> QED
  BY <1>4, <1>5

----------------------------------------------------------------------------
(* The handlers.                                                             *)

\* The guards of an action on a call that is under way.
LEMMA AtHandling ==
    ASSUME StoreInv, NEW k \in Call, call[k].at \notin {"idle", "done"}
    PROVE  /\ call[k] \in Handling /\ call[k].flow \in Flow /\ call[k].user \in User
           /\ call[k].user = creator[call[k].flow] /\ creator[call[k].flow] # None
           /\ call[k].at \in {"save", "deploy", "retire", "execute"} => call[k].got \in Row
           /\ call[k].at = "deploy" => HookRoutes(call[k].got.canvas) # {}
BY CallByPlace, NoneIsNothing DEF StoreInv, CallsOK, Carries, Handling

\* create_flow and import_flow make a new row.
LEMMA CreateKeeps ==
    ASSUME StoreInv, NEW k \in Call, NEW u \in User, NEW n \in Name, CreateFlow(k, u, n)
    PROVE  StoreInv'
<1>1. PICK f \in Flow :
         /\ FreshId(f) /\ OneStep(k, f)
         /\ SaveFlowWithUser(f, [owner |-> u, name |-> n, canvas |-> NoCanvas])
         /\ creator' = [creator EXCEPT ![f] = u]
  BY DEF CreateFlow
<1> DEFINE r == [owner |-> u, name |-> n, canvas |-> NoCanvas]
<1>2. r \in Row /\ r.owner = u
  BY DEF Row
<1> HIDE DEF r
<1> QED
  BY <1>1, <1>2, NewFlow DEF CreateFlow, r

\* What a user exported is a name and a canvas of a row.
LEMMA ImportKeeps ==
    ASSUME StoreInv, NEW k \in Call, NEW u \in User, ImportFlow(k, u)
    PROVE  StoreInv'
<1>1. PICK doc \in Exported, f \in Flow :
         /\ FreshId(f) /\ OneStep(k, f)
         /\ SaveFlowWithUser(f, [owner |-> u, name |-> doc.name, canvas |-> doc.canvas])
         /\ creator' = [creator EXCEPT ![f] = u]
  BY DEF ImportFlow
<1> DEFINE r == [owner |-> u, name |-> doc.name, canvas |-> doc.canvas]
<1>2. r \in Row /\ r.owner = u
  <2>1. PICK g \in Flow : flows[g] \in Row /\ doc = ExportFlow(g)
    BY DEF Exported, StoreInv, TablesOK
  <2> QED
    BY <2>1 DEF ExportFlow, Row
<1> HIDE DEF r
<1> QED
  BY <1>1, <1>2, NewFlow DEF ImportFlow, r

\* The four handlers that open on a flow.
LEMMA OpenKeeps ==
    ASSUME StoreInv, NEW k \in Call, NEW u \in User, NEW f \in Flow,
           \/ \E n \in Name \cup {None}, c \in Canvas \cup {None} : UpdateFlow(k, f, u, n, c)
           \/ DeleteFlow(k, f, u) \/ StartFlow(k, f, u) \/ StopFlow(k, f, u)
    PROVE  StoreInv'
<1>0. flows \in [Flow -> Row \cup {None}]
  BY DEF StoreInv, TablesOK
<1>1. ASSUME NEW n \in Name \cup {None}, NEW c \in Canvas \cup {None}, UpdateFlow(k, f, u, n, c)
      PROVE  StoreInv'
  <2> DEFINE got == [flows[f] EXCEPT !.name = IF n = None THEN @ ELSE n,
                                     !.canvas = IF c = None THEN @ ELSE c]
  <2>1. OwnedBy(f, u) /\ flows[f] \in Row
    BY <1>1, OwnerIsCreator DEF UpdateFlow
  <2>2. got \in Row
    BY <2>1 DEF Row
  <2>3. Enter(k, f, u, "save", got) /\ UNCHANGED <<tables, running, creator>> /\ call[k] = Idle
    BY <1>1 DEF UpdateFlow
  <2> HIDE DEF got
  <2> QED
    BY <1>0, <2>1, <2>2, <2>3, EnterStep DEF tables
<1>2. CASE DeleteFlow(k, f, u)
  <2>1. /\ OwnedBy(f, u) /\ Enter(k, f, u, "undeploy", None) /\ call[k] = Idle
        /\ UNCHANGED <<deployments, hookRoutes, running, creator>>
        /\ flows' = [flows EXCEPT ![f] = None]
    BY <1>2 DEF DeleteFlow
  <2>2. /\ flows' \in [Flow -> Row \cup {None}] /\ flows'[f] = None
        /\ \A g \in Flow \ {f} : flows'[g] = flows[g]
    BY <1>0, <2>1
  <2> QED
    BY <2>1, <2>2, EnterStep
<1>3. CASE StartFlow(k, f, u)
  <2>1. OwnedBy(f, u) /\ flows[f] \in Row /\ call[k] = Idle /\ UNCHANGED <<tables, running, creator>>
    BY <1>3, OwnerIsCreator DEF StartFlow
  <2>2. CASE HookRoutes(flows[f].canvas) # {}
    <3>1. Enter(k, f, u, "deploy", flows[f])
      BY <1>3, <2>2 DEF StartFlow
    <3> QED
      BY <1>0, <2>1, <2>2, <3>1, EnterStep DEF tables
  <2>3. CASE HookRoutes(flows[f].canvas) = {}
    <3>1. Enter(k, f, u, "retire", flows[f])
      BY <1>3, <2>3 DEF StartFlow
    <3> QED
      BY <1>0, <2>1, <3>1, EnterStep DEF tables
  <2> QED
    BY <2>2, <2>3
<1>4. CASE StopFlow(k, f, u)
  BY <1>0, <1>4, EnterStep DEF StopFlow, tables
<1> QED
  BY <1>1, <1>2, <1>3, <1>4

\* The save of an update: whoever is the owner of the row stays it, and a row
\* that was deleted meanwhile comes back without an owner.
LEMMA SaveKeeps ==
    ASSUME StoreInv, NEW k \in Call, UpdateSave(k)
    PROVE  StoreInv'
<1> DEFINE f == call[k].flow
           r == [call[k].got EXCEPT !.owner = IF flows[f] = None THEN Nobody ELSE flows[f].owner]
<1>1. /\ call[k] \in Handling /\ f \in Flow /\ call[k].got \in Row /\ creator[f] # None
      /\ flows' = [flows EXCEPT ![f] = r] /\ call' = [call EXCEPT ![k] = Done]
      /\ UNCHANGED <<deployments, hookRoutes, running, creator, disorder>>
  BY AtHandling DEF UpdateSave, SaveFlow, Return
<1>2. r \in Row /\ r.owner \in {creator[f], Nobody}
  BY <1>1 DEF Row, StoreInv, TablesOK, OwnersOK
<1> HIDE DEF r
<1>3. flows' \in [Flow -> Row \cup {None}] /\ flows'[f] = r
      /\ \A g \in Flow \ {f} : flows'[g] = flows[g]
  BY <1>1, <1>2 DEF StoreInv, TablesOK
<1>4. call' \in [Call -> {Idle, Done} \cup Handling] /\ CallsOK' /\ Done \notin Handling
  BY <1>1, CallsKept, CallByPlace
<1>5. Orderly'
  <2> HIDE DEF f
  <2> QED
    BY <1>1, <1>3, <1>4, OrderKept DEF f
<1>6. TablesOK'
  BY <1>1, <1>3, <1>4 DEF StoreInv, TablesOK, RoutesOf
<1>7. OwnersOK'
  <2>1. \A g \in Flow : flows'[g] # None => creator[g] # None /\ flows'[g].owner \in {creator[g], Nobody}
    BY <1>1, <1>2, <1>3 DEF StoreInv, OwnersOK
  <2> QED
    BY <1>1, <2>1 DEF StoreInv, OwnersOK
<1> QED
  BY <1>4, <1>5, <1>6, <1>7 DEF StoreInv

\* The handlers that leave the row alone and may touch the deployment.
LEMMA UndeployKeeps ==
    ASSUME StoreInv, NEW k \in Call, DeleteUndeploy(k) \/ StartRetire(k) \/ StopUndeploy(k)
    PROVE  StoreInv'
<1> DEFINE f == call[k].flow
<1>1. /\ call[k] \in Handling /\ f \in Flow
      /\ call[k].at \in {"undeploy", "retire", "stopped"}
      /\ UndeployFlow(f) /\ UNCHANGED <<flows, running, creator, disorder>>
  BY AtHandling DEF DeleteUndeploy, StartRetire, StopUndeploy, Proceed
<1>2. PICK x \in {Done, [call[k] EXCEPT !.at = "execute"]} :
        /\ call' = [call EXCEPT ![k] = x] /\ (x # Done => call[k].at = "retire")
  BY <1>1 DEF DeleteUndeploy, StartRetire, StopUndeploy, Proceed, Return, StoreInv, TablesOK
<1>3. call' \in [Call -> {Idle, Done} \cup Handling] /\ CallsOK' /\ Orderly'
  <2>1. x.at = "execute" => call[k].at = "retire"
    BY <1>2 DEF Done, Idle
  <2> QED
    BY <1>1, <1>2, <2>1, GoesOn DEF StoreInv, TablesOK
<1>4. TablesOK' /\ OwnersOK'
  <2>1. /\ deployments' = [deployments EXCEPT ![f] = None]
        /\ hookRoutes' = [hookRoutes EXCEPT ![f] = RoutesOf(None)]
    BY <1>1 DEF UndeployFlow, RoutesOf
  <2> HIDE DEF f
  <2> QED
    BY <1>1, <1>3, <2>1, SnapshotKept DEF StoreInv, TablesOK, OwnersOK
<1> QED
  BY <1>3, <1>4 DEF StoreInv

\* The deploy of a start: the creator's snapshot, and its routes.
LEMMA DeployKeeps ==
    ASSUME StoreInv, NEW k \in Call, StartDeploy(k)
    PROVE  StoreInv'
<1> DEFINE f == call[k].flow
           d == [user |-> call[k].user, canvas |-> call[k].got.canvas]
<1>1. /\ call[k] \in Handling /\ f \in Flow /\ call[k].user \in User /\ call[k].user = creator[f]
      /\ call[k].got \in Row /\ HookRoutes(call[k].got.canvas) # {}
      /\ UNCHANGED <<flows, running, creator, disorder>> /\ call' = [call EXCEPT ![k] = Done]
  BY AtHandling DEF StartDeploy, Return
<1>2. call[k].got.canvas \in Canvas
  BY <1>1, NoRoutes DEF Row
<1>3. d \in Deployment /\ d.user = creator[f] /\ HookRoutes(d.canvas) # {}
  BY <1>1, <1>2 DEF Deployment
<1>4. call' \in [Call -> {Idle, Done} \cup Handling] /\ CallsOK' /\ Orderly'
  BY <1>1, GoesOn DEF StoreInv, TablesOK
<1>5. deployments' = [deployments EXCEPT ![f] = d] /\ hookRoutes' = [hookRoutes EXCEPT ![f] = RoutesOf(d)]
  BY <1>3, NoneIsNothing DEF StartDeploy, DeployFlow, RoutesOf, Bound
<1> HIDE DEF f, d
<1>6. TablesOK' /\ OwnersOK'
  BY <1>1, <1>3, <1>4, <1>5, SnapshotKept DEF StoreInv, TablesOK, OwnersOK
<1> QED
  BY <1>4, <1>6 DEF StoreInv

\* The steps that start and end executions, and a handler that ends halfway.
LEMMA RunKeeps ==
    ASSUME StoreInv,
           \/ \E k \in Call : StartExecute(k) \/ StopEngine(k) \/ EndsHalfway(k)
           \/ \E f \in Flow : ExecutionEnds(f)
    PROVE  StoreInv'
<1>0. running \in [Flow -> SUBSET Execution]
  BY DEF StoreInv, TablesOK
<1>1. ASSUME NEW k \in Call, StartExecute(k) PROVE StoreInv'
  <2> DEFINE f == call[k].flow
             x == [user |-> call[k].user, flow |-> CanvasToFlow(call[k].got.canvas, call[k].user)]
  <2>1. /\ call[k] \in Handling /\ f \in Flow /\ call[k].user \in User /\ call[k].user = creator[f]
        /\ call[k].got \in Row /\ UNCHANGED <<tables, creator, disorder>>
        /\ call' = [call EXCEPT ![k] = Done]
    BY <1>1, AtHandling DEF StartExecute, Return
  <2>2. x \in Execution /\ x.user = creator[f]
    BY <2>1 DEF Execution, Row
  <2>3. \/ running' = [running EXCEPT ![f] = @ \cup {x}]
        \/ running' = running
    BY <1>1 DEF StartExecute
  <2> HIDE DEF x
  <2>4. running' \in [Flow -> SUBSET Execution] /\ \A g \in Flow : \A y \in running'[g] : y.user = creator[g]
    BY <1>0, <2>1, <2>2, <2>3 DEF StoreInv, OwnersOK
  <2>5. call' \in [Call -> {Idle, Done} \cup Handling] /\ CallsOK' /\ Orderly'
    BY <2>1, GoesOn DEF StoreInv, TablesOK, tables
  <2> QED
    BY <2>1, <2>4, <2>5 DEF StoreInv, TablesOK, OwnersOK, tables, RoutesOf
<1>2. ASSUME NEW k \in Call, StopEngine(k) PROVE StoreInv'
  <2>1. /\ call[k] \in Handling /\ call[k].flow \in Flow /\ UNCHANGED <<tables, creator, disorder>>
        /\ call[k].at = "stop" /\ running' = [running EXCEPT ![call[k].flow] = {}]
    BY <1>2, AtHandling DEF StopEngine, Proceed
  <2>2. call' = [call EXCEPT ![k] = [call[k] EXCEPT !.at = "stopped"]]
    BY <1>2 DEF StopEngine, Proceed, StoreInv, TablesOK
  <2>3. [call[k] EXCEPT !.at = "stopped"].at = "stopped"
    BY <2>1 DEF Handling
  <2>4. call' \in [Call -> {Idle, Done} \cup Handling] /\ CallsOK' /\ Orderly'
    BY <2>1, <2>2, <2>3, GoesOn DEF StoreInv, TablesOK, tables
  <2>5. running' \in [Flow -> SUBSET Execution] /\ \A g \in Flow : running'[g] \subseteq running[g]
    BY <1>0, <2>1
  <2> QED
    BY <2>1, <2>4, <2>5 DEF StoreInv, TablesOK, OwnersOK, tables, RoutesOf
<1>3. ASSUME NEW k \in Call, EndsHalfway(k) PROVE StoreInv'
  <2>1. /\ call[k] \in Handling /\ call[k].flow \in Flow /\ UNCHANGED <<tables, running, creator>>
        /\ call' = [call EXCEPT ![k] = Done] /\ disorder' = disorder \cup {call[k].flow}
    BY <1>3, AtHandling DEF EndsHalfway, Return, InHandler
  <2>2. call' \in [Call -> {Idle, Done} \cup Handling] /\ CallsOK' /\ Orderly'
    BY <2>1, GoesOn DEF StoreInv, TablesOK, tables
  <2> QED
    BY <2>1, <2>2 DEF StoreInv, TablesOK, OwnersOK, tables, RoutesOf
<1>4. ASSUME NEW f \in Flow, ExecutionEnds(f) PROVE StoreInv'
  <2>1. /\ UNCHANGED <<tables, call, creator, disorder>>
        /\ running' \in [Flow -> SUBSET Execution] /\ \A g \in Flow : running'[g] \subseteq running[g]
    BY <1>0, <1>4 DEF ExecutionEnds
  <2> QED
    BY <2>1 DEF StoreInv, TablesOK, OwnersOK, CallsOK, Carries, Orderly, Alone, AsFound, tables, RoutesOf
<1> QED
  BY <1>1, <1>2, <1>3, <1>4

\* A flow from earlier has an owner, and no call is under way.
LEMMA InitEstablishes == Init => StoreInv
<1> SUFFICES ASSUME Init PROVE StoreInv
  OBVIOUS
<1>1. PICK old \in SUBSET Flow, u \in User, n \in Name :
        \E c \in [old -> {x \in Canvas : ValidateCanvas(x)}] :
           /\ Cardinality(old) <= 1
           /\ flows = [f \in Flow |-> IF f \in old THEN [owner |-> u, name |-> n, canvas |-> c[f]]
                                      ELSE None]
           /\ creator = [f \in Flow |-> IF f \in old THEN u ELSE None]
  BY Zenon DEF Init
<1>2. PICK c \in [old -> {x \in Canvas : ValidateCanvas(x)}] :
           /\ flows = [f \in Flow |-> IF f \in old THEN [owner |-> u, name |-> n, canvas |-> c[f]]
                                      ELSE None]
           /\ creator = [f \in Flow |-> IF f \in old THEN u ELSE None]
  BY <1>1, Zenon
<1>3. /\ deployments = [f \in Flow |-> None] /\ hookRoutes = [f \in Flow |-> {}]
      /\ running = [f \in Flow |-> {}] /\ call = [k \in Call |-> Idle] /\ disorder = {}
  BY DEF Init
<1>4. TablesOK
  <2>1. flows \in [Flow -> Row \cup {None}] /\ creator \in [Flow -> User \cup {None}]
    BY <1>2 DEF Row
  <2> QED
    BY <1>3, <2>1 DEF TablesOK, RoutesOf
<1>5. OwnersOK
  BY <1>2, <1>3, NoneIsNothing DEF OwnersOK
<1>6. \A k \in Call : call[k] \notin Handling
  BY <1>3 DEF Idle, Handling
<1> QED
  BY <1>4, <1>5, <1>6 DEF StoreInv, CallsOK, Orderly

\* Every step keeps the invariant.
LEMMA StepKeeps == StoreInv /\ [Next]_vars => StoreInv'
<1> SUFFICES ASSUME StoreInv, [Next]_vars PROVE StoreInv'
  OBVIOUS
<1>1. CASE Next
  <2>1. CASE \E k \in Call, u \in User :
                \/ \E n \in Name : CreateFlow(k, u, n)
                \/ ImportFlow(k, u)
                \/ \E f \in Flow :
                      \/ \E n \in Name \cup {None}, c \in Canvas \cup {None} : UpdateFlow(k, f, u, n, c)
                      \/ DeleteFlow(k, f, u) \/ StartFlow(k, f, u) \/ StopFlow(k, f, u)
    BY <2>1, CreateKeeps, ImportKeeps, OpenKeeps
  <2>2. CASE \E k \in Call :
                \/ UpdateSave(k) \/ DeleteUndeploy(k) \/ EndsHalfway(k)
                \/ StartDeploy(k) \/ StartRetire(k) \/ StartExecute(k)
                \/ StopEngine(k) \/ StopUndeploy(k)
    BY <2>2, SaveKeeps, UndeployKeeps, DeployKeeps, RunKeeps
  <2>3. CASE \E f \in Flow : ExecutionEnds(f)
    BY <2>3, RunKeeps
  <2> QED
    BY <1>1, <2>1, <2>2, <2>3 DEF Next
<1>2. CASE UNCHANGED vars
  BY <1>2 DEF vars, tables, StoreInv, TablesOK, OwnersOK, CallsOK, Carries, Orderly, Alone, AsFound,
     RoutesOf
<1> QED
  BY <1>1, <1>2

----------------------------------------------------------------------------
(* The theorems about states.                                                *)

\* The invariant always holds.
THEOREM StoreInvariant == Spec => []StoreInv
BY InitEstablishes, StepKeeps, PTL DEF Spec

\* The invariant of the stores gives their variables their types.
LEMMA StoreTypes ==
    ASSUME StoreInv
    PROVE  TypeOK
<1>1. \A f \in Flow : \A r \in hookRoutes[f] :
          /\ r.user \in User
          /\ \E c \in Canvas : [route |-> r.route, node |-> r.node] \in HookRoutes(c)
  <2> SUFFICES ASSUME NEW f \in Flow, NEW r \in hookRoutes[f]
               PROVE  /\ r.user \in User
                      /\ \E c \in Canvas : [route |-> r.route, node |-> r.node] \in HookRoutes(c)
    OBVIOUS
  <2>1. deployments[f] \in Deployment /\ r \in Bound(deployments[f].user, deployments[f].canvas)
    BY DEF StoreInv, TablesOK, RoutesOf
  <2>2. PICK h \in HookRoutes(deployments[f].canvas) :
            r = [user |-> deployments[f].user, route |-> h.route, node |-> h.node]
    BY <2>1 DEF Bound
  <2>3. h = [route |-> h.route, node |-> h.node]
    BY <2>2 DEF HookRoutes
  <2> QED
    BY <2>1, <2>2, <2>3 DEF Deployment
<1>2. \A f \in Flow : \A x \in running[f] : x.user \in User
  BY DEF StoreInv, TablesOK, Execution
<1>3. \A k \in Call :
        \/ call[k] \in {Idle, Done}
        \/ /\ call[k].at \in {"save", "undeploy", "deploy", "retire", "execute", "stop", "stopped"}
           /\ call[k].flow \in Flow /\ call[k].user \in User /\ call[k].got \in Row \cup {None}
  BY DEF StoreInv, TablesOK, Handling
<1> QED
  BY <1>1, <1>2, <1>3 DEF StoreInv, TablesOK, TypeOK, Deployment

\* Type correctness of the tables and the handlers.
THEOREM StoreTypeCorrect == Spec => []TypeOK
BY StoreTypes, StoreInvariant, PTL

\* Whatever calls overlap and wherever they end, a live deployment is the one
\* snapshot of the creator of its flow with all of its routes, a flow changes
\* hands to nobody, and secrets are looked up under its creator.
THEOREM DeploymentsSound == Spec => []DeploymentsAreSound
<1>1. StoreInv => DeploymentsAreSound
  <2> SUFFICES ASSUME StoreInv, NEW f \in Flow
               PROVE  /\ deployments[f] = None => hookRoutes[f] = {}
                      /\ deployments[f] # None =>
                            /\ deployments[f].user = creator[f]
                            /\ hookRoutes[f] = {[user |-> creator[f], route |-> r.route, node |-> r.node] :
                                                  r \in HookRoutes(deployments[f].canvas)}
                            /\ hookRoutes[f] # {}
                      /\ flows[f] # None => flows[f].owner \in {creator[f], Nobody}
                      /\ \A x \in running[f] : \A s \in SecretsOf(x.flow) : s[1] = creator[f]
    BY DEF DeploymentsAreSound
  <2>1. hookRoutes[f] = RoutesOf(deployments[f])
    BY DEF StoreInv, TablesOK
  <2>2. ASSUME deployments[f] # None
        PROVE  /\ deployments[f].user = creator[f] /\ hookRoutes[f] # {}
               /\ hookRoutes[f] = {[user |-> creator[f], route |-> r.route, node |-> r.node] :
                                      r \in HookRoutes(deployments[f].canvas)}
    <3>1. deployments[f].user = creator[f] /\ HookRoutes(deployments[f].canvas) # {}
      BY <2>2 DEF StoreInv, OwnersOK
    <3>2. hookRoutes[f] = Bound(creator[f], deployments[f].canvas)
      BY <2>1, <2>2, <3>1 DEF RoutesOf
    <3>3. PICK h : h \in HookRoutes(deployments[f].canvas)
      BY <3>1
    <3>4. [user |-> creator[f], route |-> h.route, node |-> h.node] \in hookRoutes[f]
      BY <3>2, <3>3 DEF Bound
    <3> QED
      BY <3>1, <3>2, <3>4 DEF Bound
  <2>3. \A x \in running[f] : \A s \in SecretsOf(x.flow) : s[1] = creator[f]
    BY SecretsBelong DEF StoreInv, TablesOK, OwnersOK
  <2> QED
    BY <2>1, <2>2, <2>3 DEF StoreInv, OwnersOK, RoutesOf
<1> QED
  BY <1>1, StoreInvariant, PTL

----------------------------------------------------------------------------
(* FlowStore implements FlowRegistry.                                        *)

\* What the registry sees of the deployments.
Seen == [f \in Flow |-> IF Deleting(f) THEN None ELSE deployments[f]]

\* The initial states of both.
LEMMA RegistryInit == Init => Registry!RegistryInit
<1> SUFFICES ASSUME Init PROVE Registry!RegistryInit
  OBVIOUS
<1>1. DOMAIN flows = Flow /\ deployments = [f \in Flow |-> None] /\ disorder = {}
  BY DEF Init
<1>2. Seen = [f \in Flow |-> None]
  BY <1>1 DEF Seen
<1> QED
  BY <1>1, <1>2 DEF Registry!RegistryInit, Seen

\* What remains the same of a step of call k that is about flow f.
LEMMA SeenElsewhere ==
    ASSUME StoreInv, NEW k \in Call, NEW f \in Flow, NEW STATE x,
           x \in {Idle, Done} \cup Handling, call' = [call EXCEPT ![k] = x],
           call[k] \in Handling => call[k].flow = f,
           x \in Handling => x.flow = f,
           \A g \in Flow \ {f} : deployments'[g] = deployments[g]
    PROVE  /\ \A g \in Flow \ {f} : Seen'[g] = Seen[g]
           /\ call[k].at # "undeploy" /\ x.at # "undeploy" =>
                 Seen'[f] = IF Deleting(f) THEN None ELSE deployments'[f]
<1>1. /\ call \in [Call -> {Idle, Done} \cup Handling]
      /\ \A j \in Call : call[j].at = "undeploy" => call[j] \in Handling
  BY CallByPlace DEF StoreInv, TablesOK
<1>2. call'[k] = x /\ \A j \in Call \ {k} : call'[j] = call[j]
  BY <1>1
<1>3. x.at = "undeploy" => x \in Handling
  BY DEF Idle, Done
<1>4. \A g \in Flow \ {f} : Deleting(g)' <=> Deleting(g)
  BY <1>1, <1>2, <1>3 DEF Deleting
<1>5. ASSUME call[k].at # "undeploy", x.at # "undeploy"
      PROVE  Seen'[f] = IF Deleting(f) THEN None ELSE deployments'[f]
  <2>1. Deleting(f)' <=> Deleting(f)
    BY <1>2, <1>5 DEF Deleting
  <2> QED
    BY <2>1 DEF Seen
<1>6. ASSUME NEW g \in Flow \ {f} PROVE Seen'[g] = Seen[g]
  BY <1>4, <1>6 DEF Seen
<1> QED
  BY <1>5, <1>6

\* The registry's next step, of one flow.
LEMMA OneFlowMoves ==
    ASSUME NEW f \in Flow,
           \A g \in Flow \ {f} : flows'[g] = flows[g] /\ Seen'[g] = Seen[g],
           \/ disorder' = disorder \cup {f}
           \/ /\ disorder' = disorder
              /\ \/ f \in disorder
                 \/ flows[f] = None /\ Seen[f] = None /\ flows'[f] # None /\ Seen'[f] = None
                 \/ /\ flows[f] # None /\ flows'[f] # None /\ flows'[f].owner = flows[f].owner
                    /\ Seen'[f] = Seen[f]
                 \/ flows[f] # None /\ flows'[f] = None /\ Seen'[f] = None
                 \/ /\ flows[f] # None /\ flows'[f] = flows[f]
                    /\ Seen'[f] = [user |-> flows[f].owner, canvas |-> flows[f].canvas]
                 \/ flows[f] # None /\ flows'[f] = flows[f] /\ Seen'[f] = None
    PROVE  Registry!RegistryNext
<1>1. Registry!Only(f)
  BY DEF Registry!Only, Seen
<1>2. \/ disorder' = disorder \cup {f}
      \/ disorder' = disorder /\ f \in disorder
      \/ /\ f \notin disorder /\ disorder' = disorder
         /\ \/ Registry!Create(f) \/ Registry!Update(f) \/ Registry!Delete(f)
            \/ Registry!Deploy(f) \/ Registry!Retire(f)
  BY DEF Registry!Create, Registry!Update, Registry!Delete, Registry!Deploy, Registry!Retire, Seen
<1> QED
  BY <1>1, <1>2 DEF Registry!RegistryNext

\* What the registry does not see.
LEMMA Unseen ==
    ASSUME Seen' = Seen, UNCHANGED <<flows, disorder>>
    PROVE  UNCHANGED Registry!registryVars
BY DEF Registry!registryVars, Seen

\* A handler that is let in: its flow falls into disorder, or it is deleted, or
\* nothing is seen.
LEMMA EnterSeen ==
    ASSUME StoreInv, NEW k \in Call, NEW f \in Flow, NEW u \in User, NEW place, NEW STATE got,
           call[k] = Idle, OwnedBy(f, u), Enter(k, f, u, place, got),
           place \in {"save", "undeploy", "deploy", "retire", "stop"}, got \in Row \cup {None},
           UNCHANGED deployments,
           flows' = IF place = "undeploy" THEN [flows EXCEPT ![f] = None] ELSE flows
    PROVE  Registry!RegistryNext \/ UNCHANGED Registry!registryVars
<1>1. PICK x \in Handling :
         /\ call' = [call EXCEPT ![k] = x] /\ x.flow = f /\ x.at = place
         /\ disorder' \in {disorder, disorder \cup {f}}
  <2>1. [at |-> place, flow |-> f, user |-> u, got |-> got] \in Handling
    BY DEF Handling
  <2> QED
    BY <2>1 DEF Enter
<1>2. call[k] \notin Handling /\ call[k].at # "undeploy"
  BY CallByPlace DEF Idle
<1>3. /\ \A g \in Flow \ {f} : deployments'[g] = deployments[g]
      /\ call[k] \in Handling => call[k].flow = f
      /\ x \in {Idle, Done} \cup Handling
      /\ x \in Handling => x.flow = f
  BY <1>1, <1>2
<1>4. \A g \in Flow \ {f} : Seen'[g] = Seen[g]
  BY <1>1, <1>3, SeenElsewhere
<1>5. place # "undeploy" => Seen'[f] = IF Deleting(f) THEN None ELSE deployments'[f]
  BY <1>1, <1>2, <1>3, SeenElsewhere
<1>6. ASSUME place = "undeploy" PROVE Seen'[f] = None
  <2>1. call'[k] = x /\ x.at = "undeploy" /\ x.flow = f
    BY <1>1, <1>6 DEF StoreInv, TablesOK
  <2> QED
    BY <2>1 DEF Seen, Deleting
<1>7. \A g \in Flow \ {f} : flows'[g] = flows[g]
  BY DEF StoreInv, TablesOK
<1>8. CASE disorder' = disorder \cup {f}
  BY <1>4, <1>7, <1>8, OneFlowMoves
<1>9. CASE disorder' = disorder /\ place = "undeploy"
  <2>1. flows[f] # None /\ flows'[f] = None /\ Seen'[f] = None
    BY <1>6, <1>9 DEF OwnedBy, StoreInv, TablesOK, Seen
  <2> QED
    BY <1>4, <1>7, <1>9, <2>1, OneFlowMoves
<1>10. CASE disorder' = disorder /\ place # "undeploy"
  <2>1. Seen' = Seen
    BY <1>4, <1>5, <1>10 DEF Seen
  <2> QED
    BY <1>10, <2>1, Unseen
<1> QED
  BY <1>1, <1>8, <1>9, <1>10

\* The handlers that open on a flow.
LEMMA OpenSeen ==
    ASSUME StoreInv, NEW k \in Call, NEW u \in User, NEW f \in Flow,
           \/ \E n \in Name \cup {None}, c \in Canvas \cup {None} : UpdateFlow(k, f, u, n, c)
           \/ DeleteFlow(k, f, u) \/ StartFlow(k, f, u) \/ StopFlow(k, f, u)
    PROVE  Registry!RegistryNext \/ UNCHANGED Registry!registryVars
<1>1. ASSUME NEW n \in Name \cup {None}, NEW c \in Canvas \cup {None}, UpdateFlow(k, f, u, n, c)
      PROVE  Registry!RegistryNext \/ UNCHANGED Registry!registryVars
  <2> DEFINE got == [flows[f] EXCEPT !.name = IF n = None THEN @ ELSE n,
                                     !.canvas = IF c = None THEN @ ELSE c]
  <2>1. got \in Row
    BY <1>1, OwnerIsCreator DEF UpdateFlow, Row
  <2>2. OwnedBy(f, u) /\ Enter(k, f, u, "save", got) /\ UNCHANGED <<tables, running, creator>> /\ call[k] = Idle
    BY <1>1 DEF UpdateFlow
  <2> HIDE DEF got
  <2> QED
    BY <2>1, <2>2, EnterSeen DEF tables
<1>2. CASE DeleteFlow(k, f, u)
  BY <1>2, EnterSeen DEF DeleteFlow
<1>3. CASE StartFlow(k, f, u)
  <2>1. /\ OwnedBy(f, u) /\ flows[f] \in Row /\ call[k] = Idle /\ UNCHANGED <<tables, running, creator>>
        /\ Enter(k, f, u, "deploy", flows[f]) \/ Enter(k, f, u, "retire", flows[f])
    BY <1>3, OwnerIsCreator DEF StartFlow
  <2> QED
    BY <2>1, EnterSeen DEF tables
<1>4. CASE StopFlow(k, f, u)
  BY <1>4, EnterSeen DEF StopFlow, tables
<1> QED
  BY <1>1, <1>2, <1>3, <1>4

\* A new flow has no row and no deployment.
LEMMA NewSeen ==
    ASSUME StoreInv, NEW k \in Call, NEW u \in User, NEW f \in Flow, NEW STATE r,
           r \in Row, r.owner = u, call[k] = Idle,
           FreshId(f), SaveFlowWithUser(f, r), creator' = [creator EXCEPT ![f] = u],
           OneStep(k, f), UNCHANGED <<deployments, hookRoutes, running>>
    PROVE  Registry!RegistryNext
<1>1. /\ flows[f] = None /\ deployments[f] = None
      /\ flows' = [flows EXCEPT ![f] = r]
  <2>1. flows[f] = None /\ deployments[f] = None
    BY NoneIsNothing DEF StoreInv, TablesOK, OwnersOK, FreshId, Deployment
  <2> QED
    BY <2>1 DEF SaveFlowWithUser
<1>2. /\ call' = [call EXCEPT ![k] = Done]
      /\ disorder' \in {disorder, disorder \cup {f}}
  BY DEF OneStep, Return
<1>3. \A g \in Flow \ {f} : Seen'[g] = Seen[g] /\ flows'[g] = flows[g]
  <2>1. Done \notin Handling /\ call[k] \notin Handling
    BY CallByPlace
  <2>2. \A g \in Flow \ {f} : Seen'[g] = Seen[g]
    BY <1>2, <2>1, SeenElsewhere
  <2> QED
    BY <1>1, <2>2 DEF StoreInv, TablesOK
<1>4. Seen[f] = None /\ Seen'[f] = None /\ flows'[f] # None
  BY <1>1, NoneIsNothing DEF Seen, StoreInv, TablesOK
<1> QED
  BY <1>1, <1>2, <1>3, <1>4, OneFlowMoves

\* create_flow and import_flow.
LEMMA CreateSeen ==
    ASSUME StoreInv, NEW k \in Call, NEW u \in User,
           ImportFlow(k, u) \/ \E n \in Name : CreateFlow(k, u, n)
    PROVE  Registry!RegistryNext
<1>1. ASSUME NEW n \in Name, CreateFlow(k, u, n) PROVE Registry!RegistryNext
  <2> DEFINE r == [owner |-> u, name |-> n, canvas |-> NoCanvas]
  <2>1. PICK f \in Flow :
           /\ FreshId(f) /\ OneStep(k, f) /\ SaveFlowWithUser(f, r)
           /\ creator' = [creator EXCEPT ![f] = u]
    BY <1>1 DEF CreateFlow
  <2>2. r \in Row /\ r.owner = u
    BY DEF Row
  <2> HIDE DEF r
  <2> QED
    BY <1>1, <2>1, <2>2, NewSeen DEF CreateFlow
<1>2. ASSUME ImportFlow(k, u) PROVE Registry!RegistryNext
  <2>1. PICK doc \in Exported, f \in Flow :
           /\ FreshId(f) /\ OneStep(k, f)
           /\ SaveFlowWithUser(f, [owner |-> u, name |-> doc.name, canvas |-> doc.canvas])
           /\ creator' = [creator EXCEPT ![f] = u]
    BY <1>2 DEF ImportFlow
  <2> DEFINE r == [owner |-> u, name |-> doc.name, canvas |-> doc.canvas]
  <2>2. r \in Row /\ r.owner = u
    <3>1. PICK g \in Flow : flows[g] \in Row /\ doc = ExportFlow(g)
      BY DEF Exported, StoreInv, TablesOK
    <3> QED
      BY <3>1 DEF ExportFlow, Row
  <2>3. SaveFlowWithUser(f, r)
    BY <2>1
  <2> HIDE DEF r
  <2> QED
    BY <1>2, <2>1, <2>2, <2>3, NewSeen DEF ImportFlow
<1> QED
  BY <1>1, <1>2

\* An update saves the row of its flow, and nobody else sees it.
LEMMA SaveSeen ==
    ASSUME StoreInv, NEW k \in Call, UpdateSave(k)
    PROVE  Registry!RegistryNext
<1> DEFINE f == call[k].flow
           r == [call[k].got EXCEPT !.owner = IF flows[f] = None THEN Nobody ELSE flows[f].owner]
<1>1. /\ call[k] \in Handling /\ f \in Flow /\ call[k].got \in Row
      /\ flows' = [flows EXCEPT ![f] = r] /\ call' = [call EXCEPT ![k] = Done]
      /\ call[k].at = "save" /\ UNCHANGED <<deployments, disorder>>
  BY AtHandling DEF UpdateSave, SaveFlow, Return
<1>2. r \in Row /\ (flows[f] # None => r.owner = flows[f].owner)
  BY <1>1 DEF Row, StoreInv, TablesOK, OwnersOK
<1>3. Done \notin Handling /\ Done.at # "undeploy"
  BY CallByPlace DEF Done, Idle
<1>4. f \notin disorder => flows[f] # None
  BY <1>1 DEF StoreInv, Orderly, AsFound
<1> HIDE DEF r, f
<1>5. /\ flows'[f] = r /\ flows'[f] # None
      /\ \A g \in Flow \ {f} : flows'[g] = flows[g]
  BY <1>1, <1>2, NoneIsNothing DEF StoreInv, TablesOK
<1>6. /\ \A g \in Flow \ {f} : Seen'[g] = Seen[g]
      /\ Seen'[f] = IF Deleting(f) THEN None ELSE deployments'[f]
  BY <1>1, <1>3, SeenElsewhere DEF f
<1>7. Seen'[f] = Seen[f]
  BY <1>1, <1>6 DEF Seen
<1> QED
  BY <1>1, <1>2, <1>4, <1>5, <1>6, <1>7, OneFlowMoves

\* The end of a delete is seen only of a flow in disorder; start and stop
\* retire the deployment.
LEMMA UndeploySeen ==
    ASSUME StoreInv, NEW k \in Call, DeleteUndeploy(k) \/ StartRetire(k) \/ StopUndeploy(k)
    PROVE  Registry!RegistryNext \/ UNCHANGED Registry!registryVars
<1> DEFINE f == call[k].flow
<1>1. /\ call[k] \in Handling /\ f \in Flow
      /\ UNCHANGED <<flows, disorder>> /\ deployments' = [deployments EXCEPT ![f] = None]
      /\ DeleteUndeploy(k) => call[k].at = "undeploy"
      /\ StartRetire(k) \/ StopUndeploy(k) => call[k].at \in {"retire", "stopped"}
  BY AtHandling DEF DeleteUndeploy, StartRetire, StopUndeploy, Proceed, UndeployFlow
<1>2. PICK x \in {Done, [call[k] EXCEPT !.at = "execute"]} : call' = [call EXCEPT ![k] = x]
  BY <1>1 DEF DeleteUndeploy, StartRetire, StopUndeploy, Proceed, Return, StoreInv, TablesOK
<1>3. /\ x \in {Idle, Done} \cup Handling
      /\ x \in Handling => x.flow = f
  BY <1>1, <1>2, CallByPlace DEF Handling
<1> HIDE DEF f
<1>4. \A g \in Flow \ {f} : Seen'[g] = Seen[g]
  BY <1>1, <1>2, <1>3, SeenElsewhere DEF f, StoreInv, TablesOK
<1>5. Seen'[f] = None
  BY <1>1 DEF Seen, StoreInv, TablesOK
<1>6. CASE f \in disorder
  BY <1>1, <1>4, <1>6, OneFlowMoves
<1>7. CASE f \notin disorder /\ DeleteUndeploy(k)
  <2>1. Seen[f] = None
    BY <1>1, <1>7 DEF Seen, Deleting, f
  <2>2. Seen' = Seen
    BY <1>4, <1>5, <2>1 DEF Seen
  <2> QED
    BY <1>1, <2>2, Unseen
<1>8. CASE f \notin disorder /\ (StartRetire(k) \/ StopUndeploy(k))
  <2>1. flows[f] # None
    BY <1>1, <1>8 DEF StoreInv, Orderly, AsFound, f
  <2> QED
    BY <1>1, <1>4, <1>5, <2>1, OneFlowMoves
<1> QED
  BY <1>6, <1>7, <1>8

\* A start deploys the row as it is.
LEMMA DeploySeen ==
    ASSUME StoreInv, NEW k \in Call, StartDeploy(k)
    PROVE  Registry!RegistryNext
<1> DEFINE f == call[k].flow
           d == [user |-> call[k].user, canvas |-> call[k].got.canvas]
<1>1. /\ call[k] \in Handling /\ f \in Flow /\ call[k].at = "deploy"
      /\ UNCHANGED <<flows, disorder>> /\ call' = [call EXCEPT ![k] = Done]
      /\ deployments' = [deployments EXCEPT ![f] = d]
  BY AtHandling DEF StartDeploy, Return, DeployFlow
<1>2. Done \notin Handling /\ Done.at # "undeploy"
  BY CallByPlace DEF Done, Idle
<1>3. f \notin disorder => Alone(k) /\ flows[f] # None /\ d = [user |-> flows[f].owner, canvas |-> flows[f].canvas]
  BY <1>1 DEF StoreInv, Orderly, AsFound
<1> HIDE DEF f, d
<1>4. /\ \A g \in Flow \ {f} : Seen'[g] = Seen[g]
      /\ Seen'[f] = IF Deleting(f) THEN None ELSE deployments'[f]
  BY <1>1, <1>2, SeenElsewhere DEF f, StoreInv, TablesOK
<1>5. f \notin disorder => Seen'[f] = d
  <2>1. f \notin disorder => ~Deleting(f)
    BY <1>1, <1>3, CallByPlace DEF Deleting, Alone, f
  <2> QED
    BY <1>1, <1>4, <2>1 DEF Seen, StoreInv, TablesOK
<1> QED
  BY <1>1, <1>3, <1>4, <1>5, OneFlowMoves

\* Executions are not seen; a handler that ends halfway leaves disorder.
LEMMA RunSeen ==
    ASSUME StoreInv,
           \/ \E k \in Call : StartExecute(k) \/ StopEngine(k) \/ EndsHalfway(k)
           \/ \E f \in Flow : ExecutionEnds(f)
    PROVE  Registry!RegistryNext \/ UNCHANGED Registry!registryVars
<1>1. ASSUME NEW k \in Call, StartExecute(k) \/ StopEngine(k)
      PROVE  UNCHANGED Registry!registryVars
  <2>1. /\ call[k] \in Handling /\ call[k].flow \in Flow /\ call[k].at \in {"execute", "stop"}
        /\ UNCHANGED <<flows, deployments, disorder>>
    BY <1>1, AtHandling DEF StartExecute, StopEngine, Proceed, tables
  <2>2. PICK x \in {Done, [call[k] EXCEPT !.at = "stopped"]} : call' = [call EXCEPT ![k] = x]
    BY <1>1 DEF StartExecute, StopEngine, Proceed, Return, StoreInv, TablesOK
  <2>3. /\ x \in {Idle, Done} \cup Handling /\ x.at # "undeploy"
        /\ x \in Handling => x.flow = call[k].flow
    BY <2>1, <2>2, CallByPlace DEF Handling, Done, Idle
  <2>4. /\ \A g \in Flow \ {call[k].flow} : Seen'[g] = Seen[g]
        /\ Seen'[call[k].flow] = IF Deleting(call[k].flow) THEN None ELSE deployments'[call[k].flow]
    BY <2>1, <2>2, <2>3, SeenElsewhere
  <2>5. Seen' = Seen
    BY <2>1, <2>4 DEF Seen
  <2> QED
    BY <2>1, <2>5, Unseen
<1>2. ASSUME NEW k \in Call, EndsHalfway(k) PROVE Registry!RegistryNext
  <2>1. /\ call[k] \in Handling /\ call[k].flow \in Flow /\ UNCHANGED tables
        /\ call' = [call EXCEPT ![k] = Done] /\ disorder' = disorder \cup {call[k].flow}
    BY <1>2, AtHandling DEF EndsHalfway, Return, InHandler
  <2>2. \A g \in Flow \ {call[k].flow} : Seen'[g] = Seen[g]
    BY <2>1, CallByPlace, SeenElsewhere DEF tables
  <2> QED
    BY <2>1, <2>2, OneFlowMoves DEF tables
<1>3. ASSUME NEW f \in Flow, ExecutionEnds(f) PROVE UNCHANGED Registry!registryVars
  <2>1. UNCHANGED <<flows, deployments, call, disorder>>
    BY <1>3 DEF ExecutionEnds, tables
  <2> QED
    BY <2>1, Unseen DEF Seen, Deleting
<1> QED
  BY <1>1, <1>2, <1>3

\* Every step of the handlers is one of the registry, or not seen.
LEMMA RegistryStep == StoreInv /\ [Next]_vars => [Registry!RegistryNext]_(Registry!registryVars)
<1> SUFFICES ASSUME StoreInv, [Next]_vars
             PROVE  Registry!RegistryNext \/ UNCHANGED Registry!registryVars
  OBVIOUS
<1>1. CASE \E k \in Call, u \in User :
              \/ \E n \in Name : CreateFlow(k, u, n)
              \/ ImportFlow(k, u)
              \/ \E f \in Flow :
                    \/ \E n \in Name \cup {None}, c \in Canvas \cup {None} : UpdateFlow(k, f, u, n, c)
                    \/ DeleteFlow(k, f, u) \/ StartFlow(k, f, u) \/ StopFlow(k, f, u)
  BY <1>1, CreateSeen, OpenSeen
<1>2. CASE \E k \in Call :
              \/ UpdateSave(k) \/ DeleteUndeploy(k) \/ EndsHalfway(k)
              \/ StartDeploy(k) \/ StartRetire(k) \/ StartExecute(k)
              \/ StopEngine(k) \/ StopUndeploy(k)
  BY <1>2, SaveSeen, UndeploySeen, DeploySeen, RunSeen
<1>3. CASE \E f \in Flow : ExecutionEnds(f)
  BY <1>3, RunSeen
<1>4. CASE UNCHANGED vars
  <2>1. UNCHANGED <<flows, deployments, call, disorder>>
    BY <1>4 DEF vars, tables
  <2> QED
    BY <2>1, Unseen DEF Seen, Deleting
<1> QED
  BY <1>1, <1>2, <1>3, <1>4 DEF Next

\* As long as the calls on a flow do not overlap and none ends halfway, update,
\* delete, start and stop are one step each of FlowRegistry.
THEOREM StoreImplementsRegistry == Spec => ImplementsRegistry
BY RegistryInit, RegistryStep, StoreInvariant, PTL DEF Spec, ImplementsRegistry, Registry!RegistrySpec

----------------------------------------------------------------------------
(* Starting a server.                                                        *)

StartSpec == StartInit /\ [][StartNext]_startVars

\* What a process has still to do of a migration: some last statements of it.
Todos ==
    {<<0, <<>>>>}
    \cup ({1} \X {V1, Tail(V1), Tail(Tail(V1)), <<>>})
    \cup ({2} \X {V2, Tail(V2), Tail(Tail(V2)), <<>>})
    \cup ({3} \X {V3, Tail(V3), <<>>})
    \cup ({4} \X {V4, <<>>})
    \cup ({5} \X {V5, Tail(V5), Tail(Tail(V5)), <<>>})

StartTypes ==
    /\ backend \in {"sqlite", "postgres"} /\ env \subseteq Secret
    /\ file \in [Secret -> (1 .. MaxKeys) \cup {Missing, Torn}]
    /\ keys \in 0 .. MaxKeys
    /\ at \in [Server -> Places]
    /\ secret \in [Server -> [Secret -> 0 .. MaxKeys]]
    /\ todo \in [Server -> Todos]
    /\ shape \in [Table -> 0 .. 5]
    /\ recorded \subseteq Version
    /\ faults \in 0 .. MaxFaults
    /\ sealedBy \subseteq 0 .. MaxKeys /\ signedBy \subseteq 0 .. MaxKeys
    /\ met \in BOOLEAN /\ swallowed \in BOOLEAN

----------------------------------------------------------------------------
(* The inductive invariant: secrets.                                         *)

ViaEnv(k) == k \in env \/ "jwt" \in env

\* A secret that is settled is never changed again.
Settled(k) == ViaEnv(k) \/ file[k] \notin {Missing, Torn}
Value(k) == IF ViaEnv(k) THEN FromEnv ELSE file[k]

Creates(k) == IF k = "jwt" THEN "create jwt" ELSE "create vault"
Writes(k) == IF k = "jwt" THEN "write jwt" ELSE "write vault"

Migrated == {"check", "apply", "up"}
Past(s, k) ==
    at[s] \in Migrated \/ (k = "jwt" /\ at[s] \in {"vault", "create vault", "write vault"})

\* Only the process that created a file writes it, and what was written is
\* what every process uses.
SecretsSettle ==
    \A k \in Secret :
        /\ \A s \in Server : Past(s, k) => Settled(k) /\ secret[s][k] = Value(k)
        /\ \A s \in Server : at[s] \in {Creates(k), Writes(k)} => ~ViaEnv(k)
        /\ \A s \in Server : at[s] = Writes(k) => file[k] = Torn
        /\ \A s, t \in Server : at[s] = Writes(k) /\ at[t] = Writes(k) => s = t

UsesAreSettled ==
    /\ sealedBy \subseteq {Value("vault")} /\ (sealedBy # {} => Settled("vault"))
    /\ signedBy \subseteq {Value("jwt")} /\ (signedBy # {} => Settled("jwt"))

----------------------------------------------------------------------------
(* The inductive invariant: migrations.                                      *)

\* The versions a process is past are recorded, whoever recorded them.
InOrder(s) ==
    /\ at[s] \notin Migrated \cup {"off"} => todo[s] = <<0, <<>>>>
    /\ at[s] = "check" => 1 .. todo[s][1] \subseteq recorded
    /\ at[s] = "apply" => todo[s][1] \in Version /\ 1 .. todo[s][1] - 1 \subseteq recorded
    /\ at[s] = "up" => recorded = Version

VersionsInOrder ==
    /\ \A v \in recorded : 1 .. v \subseteq recorded
    /\ \A s \in Server : InOrder(s)
    /\ sealedBy # {} => recorded = Version

\* A process that is alone is the only one that records.
OneAtATime ==
    ~met =>
        /\ \A s, t \in Server : at[s] # "off" /\ at[t] # "off" => s = t
        /\ \A s \in Server : at[s] = "apply" => todo[s][1] \notin recorded

\* What the recorded versions say of the tables; the next version may have
\* been begun any number of times.
ShapeFits ==
    /\ shape["flows"] \in IF 1 \notin recorded THEN {0, 1}
                          ELSE IF 2 \notin recorded THEN {1, 2} ELSE {2}
    /\ shape["executions"] \in IF 1 \notin recorded THEN {0, 1} ELSE {1}
    /\ shape["credentials"] \in IF 1 \notin recorded THEN {0, 1}
                                ELSE IF 2 \notin recorded THEN {1}
                                ELSE IF 3 \notin recorded THEN {0, 1, 3} ELSE {3}
    /\ \A t \in {"users", "connections"} :
          shape[t] \in IF 1 \notin recorded THEN {0} ELSE IF 2 \notin recorded THEN {0, 2} ELSE {2}
    /\ shape["hook_routes"] \in IF 3 \notin recorded THEN {0}
                                ELSE IF 4 \notin recorded THEN {0, 4}
                                ELSE IF 5 \notin recorded THEN {0, 4, 5} ELSE {5}
    /\ shape["flow_deployments"] \in IF 4 \notin recorded THEN {0}
                                     ELSE IF 5 \notin recorded THEN {0, 5} ELSE {5}

\* What the statements that have run of the present migration say of them.
AppliedSoFar(v, left) ==
    /\ v = 1 => /\ left < 3 => shape["flows"] = 1
                /\ left < 2 => shape["executions"] = 1
                /\ left < 1 => shape["credentials"] = 1
    /\ v = 2 => /\ left < 3 => shape["users"] = 2
                /\ left < 2 => shape["connections"] = 2
                /\ left < 1 => shape["flows"] = 2
    /\ v = 3 => /\ left = 1 => shape["credentials"] = 0
                /\ left = 0 => shape["credentials"] = 3
    /\ v = 4 => (left = 0 => shape["hook_routes"] = 4)
    /\ v = 5 => /\ left = 2 => shape["hook_routes"] = 0
                /\ left < 2 => shape["hook_routes"] = 5
                /\ left < 1 => shape["flow_deployments"] = 5

ShapesAreKnown ==
    ~met /\ ~swallowed =>
        /\ ShapeFits
        /\ \A s \in Server : at[s] = "apply" => AppliedSoFar(todo[s][1], Len(todo[s][2]))

StartInv ==
    /\ StartTypes /\ SecretsSettle /\ UsesAreSettled
    /\ VersionsInOrder /\ OneAtATime /\ ShapesAreKnown

----------------------------------------------------------------------------
(* The statements of the migrations.                                         *)

\* The statement that comes next, by the version and how many are left.
Due(v, left) ==
    CASE v = 1 -> IfMissing(CASE left = 3 -> "flows" [] left = 2 -> "executions"
                              [] OTHER -> "credentials")
      [] v = 2 /\ left = 3 -> IfMissing("users")
      [] v = 2 /\ left = 2 -> IfMissing("connections")
      [] v = 2 /\ left = 1 -> AddColumn("flows")
      [] v = 3 /\ left = 2 -> DropIfThere("credentials")
      [] v = 3 /\ left = 1 -> Create("credentials")
      [] v = 4 -> IfMissing("hook_routes")
      [] v = 5 /\ left = 3 -> DropIfThere("hook_routes")
      [] v = 5 /\ left = 2 -> Create("hook_routes")
      [] OTHER -> IfMissing("flow_deployments")

\* How the lists of three come apart.
LEMMA Three ==
    ASSUME NEW a, NEW b, NEW c
    PROVE  /\ Head(<<a, b, c>>) = a /\ Tail(<<a, b, c>>) = <<b, c>> /\ Len(<<a, b, c>>) = 3
           /\ Head(<<b, c>>) = b /\ Tail(<<b, c>>) = <<c>> /\ Len(<<b, c>>) = 2
           /\ Head(<<c>>) = c /\ Tail(<<c>>) = <<>> /\ Len(<<c>>) = 1 /\ Len(<<>>) = 0
           /\ <<a, b, c>> # <<>> /\ <<b, c>> # <<>> /\ <<c>> # <<>>
OBVIOUS

\* A list that is not empty starts with the statement that is due; what is
\* left is again some last statements of the migration.
LEMMA NextStatement ==
    ASSUME NEW p \in Todos, p[2] # <<>>
    PROVE  /\ p[1] \in Version
           /\ Len(p[2]) \in 1 .. 3
           /\ p[1] = 3 => Len(p[2]) < 3
           /\ p[1] = 4 => Len(p[2]) = 1
           /\ Head(p[2]) = Due(p[1], Len(p[2]))
           /\ Len(Tail(p[2])) = Len(p[2]) - 1
           /\ <<p[1], Tail(p[2])>> \in Todos
<1>1. CASE p \in {1} \X {V1, Tail(V1), Tail(Tail(V1)), <<>>}
  <2>1. PICK l \in {V1, Tail(V1), Tail(Tail(V1))} : p = <<1, l>>
    BY <1>1
  <2>2. /\ Len(l) \in 1 .. 3 /\ Head(l) = Due(1, Len(l)) /\ Len(Tail(l)) = Len(l) - 1
        /\ Tail(l) \in {Tail(V1), Tail(Tail(V1)), <<>>}
    <3>1. CASE l = V1
      BY <3>1, Three DEF V1, Due
    <3>2. CASE l = Tail(V1)
      BY <3>2, Three DEF V1, Due
    <3>3. CASE l = Tail(Tail(V1))
      BY <3>3, Three DEF V1, Due
    <3> QED
      BY <3>1, <3>2, <3>3
  <2>3. p[1] = 1 /\ p[2] = l
    BY <2>1
  <2>4. <<1, Tail(l)>> \in Todos
    BY <2>2 DEF Todos
  <2> QED
    BY <2>2, <2>3, <2>4 DEF Version
<1>2. CASE p \in {2} \X {V2, Tail(V2), Tail(Tail(V2)), <<>>}
  <2>1. PICK l \in {V2, Tail(V2), Tail(Tail(V2))} : p = <<2, l>>
    BY <1>2
  <2>2. /\ Len(l) \in 1 .. 3 /\ Head(l) = Due(2, Len(l)) /\ Len(Tail(l)) = Len(l) - 1
        /\ Tail(l) \in {Tail(V2), Tail(Tail(V2)), <<>>}
    <3>1. CASE l = V2
      BY <3>1, Three DEF V2, Due
    <3>2. CASE l = Tail(V2)
      BY <3>2, Three DEF V2, Due
    <3>3. CASE l = Tail(Tail(V2))
      BY <3>3, Three DEF V2, Due
    <3> QED
      BY <3>1, <3>2, <3>3
  <2>3. p[1] = 2 /\ p[2] = l
    BY <2>1
  <2>4. <<2, Tail(l)>> \in Todos
    BY <2>2 DEF Todos
  <2> QED
    BY <2>2, <2>3, <2>4 DEF Version
<1>3. CASE p \in {3} \X {V3, Tail(V3), <<>>}
  <2>1. PICK l \in {V3, Tail(V3)} : p = <<3, l>>
    BY <1>3
  <2>2. /\ Len(l) \in 1 .. 2 /\ Head(l) = Due(3, Len(l)) /\ Len(Tail(l)) = Len(l) - 1
        /\ Tail(l) \in {Tail(V3), <<>>}
    <3>1. CASE l = V3
      BY <3>1, Three DEF V3, Due
    <3>2. CASE l = Tail(V3)
      BY <3>2, Three DEF V3, Due
    <3> QED
      BY <3>1, <3>2
  <2>3. p[1] = 3 /\ p[2] = l
    BY <2>1
  <2>4. <<3, Tail(l)>> \in Todos
    BY <2>2 DEF Todos
  <2> QED
    BY <2>2, <2>3, <2>4 DEF Version
<1>4. CASE p \in {4} \X {V4, <<>>}
  <2>1. p = <<4, V4>>
    BY <1>4
  <2>2. /\ Len(V4) = 1 /\ Head(V4) = Due(4, Len(V4)) /\ Len(Tail(V4)) = Len(V4) - 1
        /\ Tail(V4) = <<>>
    BY Three DEF V4, Due
  <2>3. p[1] = 4 /\ p[2] = V4
    BY <2>1
  <2>4. <<4, Tail(V4)>> \in Todos
    BY <2>2 DEF Todos
  <2> QED
    BY <2>2, <2>3, <2>4 DEF Version
<1>5. CASE p \in {5} \X {V5, Tail(V5), Tail(Tail(V5)), <<>>}
  <2>1. PICK l \in {V5, Tail(V5), Tail(Tail(V5))} : p = <<5, l>>
    BY <1>5
  <2>2. /\ Len(l) \in 1 .. 3 /\ Head(l) = Due(5, Len(l)) /\ Len(Tail(l)) = Len(l) - 1
        /\ Tail(l) \in {Tail(V5), Tail(Tail(V5)), <<>>}
    <3>1. CASE l = V5
      BY <3>1, Three DEF V5, Due
    <3>2. CASE l = Tail(V5)
      BY <3>2, Three DEF V5, Due
    <3>3. CASE l = Tail(Tail(V5))
      BY <3>3, Three DEF V5, Due
    <3> QED
      BY <3>1, <3>2, <3>3
  <2>3. p[1] = 5 /\ p[2] = l
    BY <2>1
  <2>4. <<5, Tail(l)>> \in Todos
    BY <2>2 DEF Todos
  <2> QED
    BY <2>2, <2>3, <2>4 DEF Version
<1>6. p # <<0, <<>>>>
  OBVIOUS
<1> QED
  BY <1>1, <1>2, <1>3, <1>4, <1>5, <1>6, Zenon DEF Todos

\* A migration that begins has all of its statements to do, and one that is
\* done none.
LEMMA FirstStatements ==
    ASSUME NEW v \in Version
    PROVE  /\ <<v, Statements[v]>> \in Todos /\ <<v, <<>>>> \in Todos
           /\ Len(Statements[v]) = IF v = 3 THEN 2 ELSE IF v = 4 THEN 1 ELSE 3
<1>1. /\ Statements[1] = V1 /\ Statements[2] = V2 /\ Statements[3] = V3 /\ Statements[4] = V4
      /\ Statements[5] = V5
  BY DEF Statements
<1>2. Len(V1) = 3 /\ Len(V2) = 3 /\ Len(V3) = 2 /\ Len(V4) = 1 /\ Len(V5) = 3
  BY Three DEF V1, V2, V3, V4, V5
<1>3. v \in {1, 2, 3, 4, 5}
  BY DEF Version
<1>4. <<v, <<>>>> \in Todos
  BY <1>3 DEF Todos
<1>5. <<v, Statements[v]>> \in Todos
  BY <1>1, <1>3 DEF Todos
<1> QED
  BY <1>1, <1>2, <1>3, <1>4, <1>5

----------------------------------------------------------------------------
(* The types.                                                                *)

\* Every statement that is due is about a table and shapes it by its version.
LEMMA DueStatements ==
    ASSUME NEW v \in Version, NEW left \in 1 .. 3, v = 3 => left < 3, v = 4 => left = 1
    PROVE  Due(v, left).table \in Table
<1> USE DEF Due, IfMissing, Create, DropIfThere, AddColumn, Table
<1>1. CASE v = 1
  BY <1>1
<1>2. CASE v = 2
  BY <1>2
<1>3. CASE v = 3
  BY <1>3
<1>4. CASE v = 4
  BY <1>4
<1>5. CASE v = 5
  BY <1>5
<1> QED
  BY <1>1, <1>2, <1>3, <1>4, <1>5 DEF Version

\* A statement leaves every table the shape of some migration.
LEMMA ShapesStayTyped ==
    ASSUME shape \in [Table -> 0 .. 5], NEW p \in Todos, p[2] # <<>>
    PROVE  LET st == Head(p[2])
           IN  [shape EXCEPT ![st.table] = ShapedBy(st, p[1])] \in [Table -> 0 .. 5]
<1> DEFINE st == Head(p[2])
<1>1. p[1] \in 1 .. 5
  BY NextStatement DEF Version
<1>2. st.table \in Table
  BY NextStatement, DueStatements
<1>3. shape[st.table] \in 0 .. 5
  BY <1>2
<1>4. ShapedBy(st, p[1]) \in {0, p[1], shape[st.table]}
  <2> HIDE DEF st
  <2>1. CASE st.op = "create if missing"
    BY <2>1 DEF ShapedBy
  <2>2. CASE st.op = "drop if there"
    BY <2>2 DEF ShapedBy
  <2>3. CASE st.op \notin {"create if missing", "drop if there"}
    BY <2>3 DEF ShapedBy
  <2> QED
    BY <2>1, <2>2, <2>3
<1>5. ShapedBy(st, p[1]) \in 0 .. 5
  BY <1>1, <1>3, <1>4
<1> QED
  BY <1>2, <1>5

\* Every step keeps the types.
LEMMA TypesKept ==
    ASSUME StartTypes, VersionsInOrder, [StartNext]_startVars
    PROVE  StartTypes'
<1> USE ServerStartAssumption DEF StartTypes, Goto, Resolved, processVars, databaseVars
<1>1. ASSUME NEW s \in Server, Launch(s) PROVE StartTypes'
  <2>1. <<0, <<>>>> \in Todos /\ "jwt" \in Places
    BY DEF Todos, Places
  <2>2. secret' \in [Server -> [Secret -> 0 .. MaxKeys]]
    BY <1>1 DEF Launch
  <2>3. met' \in BOOLEAN
    BY <1>1 DEF Launch
  <2> QED
    BY <1>1, <2>1, <2>2, <2>3 DEF Launch
<1>2. ASSUME NEW s \in Server, NEW k \in Secret, Load(s, k) PROVE StartTypes'
  <2>1. {"vault", "check", "off", "create jwt", "create vault"} \subseteq Places
    BY DEF Places
  <2>2. FromEnv \in 0 .. MaxKeys
    BY DEF FromEnv
  <2>3. file[k] \notin {Missing, Torn} => file[k] \in 0 .. MaxKeys
    OBVIOUS
  <2>4. at' \in [Server -> Places]
    BY <1>2, <2>1 DEF Load
  <2>5. UNCHANGED secret \/ \E value \in 0 .. MaxKeys : secret' = [secret EXCEPT ![s][k] = value]
    BY <1>2, <2>2, <2>3 DEF Load
  <2>6. secret' \in [Server -> [Secret -> 0 .. MaxKeys]]
    <3>1. ASSUME NEW value \in 0 .. MaxKeys, secret' = [secret EXCEPT ![s][k] = value]
          PROVE  secret' \in [Server -> [Secret -> 0 .. MaxKeys]]
      BY <3>1
    <3> QED
      BY <2>5, <3>1
  <2> QED
    BY <1>2, <2>4, <2>6 DEF Load
<1>3. ASSUME NEW s \in Server, NEW k \in Secret, CreateFile(s, k) PROVE StartTypes'
  <2>1. {"write jwt", "write vault"} \cup Secret \subseteq Places
    BY DEF Places, Secret
  <2> QED
    BY <1>3, <2>1 DEF CreateFile
<1>4. ASSUME NEW s \in Server, NEW k \in Secret, WriteFile(s, k) PROVE StartTypes'
  <2>1. {"vault", "check"} \subseteq Places
    BY DEF Places
  <2>2. keys' \in 1 .. MaxKeys /\ keys' \in 0 .. MaxKeys /\ keys' = keys + 1
    <3>1. keys < MaxKeys /\ keys' = keys + 1
      BY <1>4, Zenon DEF WriteFile
    <3> QED
      BY <3>1
  <2>3. file' \in [Secret -> (1 .. MaxKeys) \cup {Missing, Torn}]
    BY <1>4, <2>2 DEF WriteFile
  <2>4. secret' \in [Server -> [Secret -> 0 .. MaxKeys]]
    <3>1. secret' = [secret EXCEPT ![s][k] = keys']
      BY <1>4, <2>2 DEF WriteFile
    <3> QED
      BY <2>2, <3>1
  <2>5. at' \in [Server -> Places]
    BY <1>4, <2>1 DEF WriteFile
  <2> QED
    BY <1>4, <2>2, <2>3, <2>4, <2>5 DEF WriteFile
<1>5. ASSUME NEW k \in Secret, OperatorDeletesTornFile(k) PROVE StartTypes'
  BY <1>5 DEF OperatorDeletesTornFile
<1>6. ASSUME NEW s \in Server, Check(s) PROVE StartTypes'
  <2>1. {"apply", "up"} \subseteq Places
    BY DEF Places
  <2>2. todo' \in [Server -> Todos]
    <3>1. CASE UNCHANGED todo
      BY <3>1
    <3>2. ASSUME NEW v \in Version, todo' = [todo EXCEPT ![s] = <<v, <<>>>>]
          PROVE  todo' \in [Server -> Todos]
      BY <3>2, FirstStatements
    <3>3. ASSUME NEW v \in Version, todo' = [todo EXCEPT ![s] = <<v, Statements[v]>>]
          PROVE  todo' \in [Server -> Todos]
      BY <3>3, FirstStatements
    <3> QED
      BY <1>6, <3>1, <3>2, <3>3 DEF Check
  <2> QED
    BY <1>6, <2>1, <2>2 DEF Check
<1>7. ASSUME NEW s \in Server, Apply(s) PROVE StartTypes'
  <2>1. todo[s] \in Todos /\ todo[s][2] # <<>>
    BY <1>7 DEF Apply
  <2>2. <<todo[s][1], Tail(todo[s][2])>> \in Todos /\ "off" \in Places
    BY <2>1, NextStatement DEF Places
  <2>3. todo' \in [Server -> Todos]
    BY <1>7, <2>2 DEF Apply
  <2>4. at' \in [Server -> Places]
    BY <1>7, <2>2 DEF Apply
  <2>5. shape' \in [Table -> 0 .. 5]
    <3>1. [shape EXCEPT ![Head(todo[s][2]).table] = ShapedBy(Head(todo[s][2]), todo[s][1])]
              \in [Table -> 0 .. 5]
      BY <2>1, ShapesStayTyped
    <3> QED
      BY <1>7, <3>1 DEF Apply
  <2>6. faults' \in 0 .. MaxFaults
    BY <1>7 DEF Apply
  <2>7. swallowed' \in BOOLEAN
    BY <1>7 DEF Apply, Forgives
  <2>8. sealedBy' \subseteq 0 .. MaxKeys
    BY <1>7 DEF Apply
  <2> QED
    BY <1>7, <2>3, <2>4, <2>5, <2>6, <2>7, <2>8 DEF Apply
<1>8. ASSUME NEW s \in Server, Record(s) PROVE StartTypes'
  <2>1. todo[s][1] \in Version
    BY <1>8 DEF Record, VersionsInOrder, InOrder
  <2>2. {"off", "check"} \subseteq Places
    BY DEF Places
  <2> QED
    BY <1>8, <2>1, <2>2 DEF Record
<1>9. ASSUME NEW s \in Server, Die(s) PROVE StartTypes'
  <2>1. "off" \in Places
    BY DEF Places
  <2> QED
    BY <1>9, <2>1 DEF Die
<1>10. ASSUME NEW s \in Server, StoreCredential(s) PROVE StartTypes'
  <2>1. "vault" \in Secret
    BY DEF Secret
  <2>2. sealedBy' \subseteq 0 .. MaxKeys
    BY <1>10, <2>1 DEF StoreCredential
  <2> QED
    BY <1>10, <2>2 DEF StoreCredential
<1>11. ASSUME NEW s \in Server, DeleteCredential(s) PROVE StartTypes'
  BY <1>11 DEF DeleteCredential
<1>12. ASSUME NEW s \in Server, Login(s) PROVE StartTypes'
  <2>1. "jwt" \in Secret
    BY DEF Secret
  <2>2. signedBy' \subseteq 0 .. MaxKeys
    BY <1>12, <2>1 DEF Login
  <2> QED
    BY <1>12, <2>2 DEF Login
<1>13. CASE UNCHANGED startVars
  BY <1>13 DEF startVars
<1> QED
  BY <1>1, <1>2, <1>3, <1>4, <1>5, <1>6, <1>7, <1>8, <1>9, <1>10, <1>11, <1>12, <1>13
     DEF StartNext, Resolving, Migrating

----------------------------------------------------------------------------
(* Secrets.                                                                  *)

\* A file is created if it is missing, and from then on written only by the
\* process that created it and deleted only if that process is gone.
LEMMA FileSteps ==
    ASSUME StartTypes, SecretsSettle, [StartNext]_startVars, NEW k \in Secret
    PROVE  /\ UNCHANGED env
           /\ \/ file'[k] = file[k]
              \/ file[k] = Missing /\ file'[k] = Torn
                 /\ \E s \in Server : CreateFile(s, k)
              \/ file[k] = Torn /\ file'[k] \in 1 .. MaxKeys
                 /\ \E s \in Server : WriteFile(s, k)
              \/ file[k] = Torn /\ file'[k] = Missing /\ OperatorDeletesTornFile(k)
<1>1. ASSUME NEW s \in Server, NEW j \in Secret, CreateFile(s, j)
      PROVE  /\ UNCHANGED env
             /\ \/ file'[k] = file[k]
                \/ file[k] = Missing /\ file'[k] = Torn /\ j = k
  BY <1>1 DEF CreateFile, StartTypes
<1>2. ASSUME NEW s \in Server, NEW j \in Secret, WriteFile(s, j)
      PROVE  /\ UNCHANGED env
             /\ \/ file'[k] = file[k]
                \/ file[k] = Torn /\ file'[k] \in 1 .. MaxKeys /\ j = k
  <2>1. keys < MaxKeys /\ file' = [file EXCEPT ![j] = keys + 1] /\ UNCHANGED env
    BY <1>2, Zenon DEF WriteFile
  <2>2. file[j] = Torn
    BY <1>2 DEF WriteFile, SecretsSettle, Writes
  <2> QED
    BY <2>1, <2>2, ServerStartAssumption DEF StartTypes
<1>3. ASSUME NEW j \in Secret, OperatorDeletesTornFile(j)
      PROVE  /\ UNCHANGED env
             /\ \/ file'[k] = file[k]
                \/ file[k] = Torn /\ file'[k] = Missing /\ j = k
  BY <1>3 DEF OperatorDeletesTornFile, StartTypes
<1>4. ASSUME NEW s \in Server,
             \/ Launch(s) \/ Migrating(s) \/ Die(s) \/ StoreCredential(s) \/ DeleteCredential(s)
             \/ Login(s) \/ \E j \in Secret : Load(s, j)
      PROVE  UNCHANGED <<env, file>>
  BY <1>4 DEF Launch, Migrating, Check, Apply, Record, Die, StoreCredential, DeleteCredential,
              Login, Load
<1>5. CASE UNCHANGED startVars
  BY <1>5 DEF startVars
<1> QED
  BY <1>1, <1>2, <1>3, <1>4, <1>5 DEF StartNext, Resolving

\* So a settled secret stays what it is.
LEMMA SettledStays ==
    ASSUME StartTypes, SecretsSettle, [StartNext]_startVars, NEW k \in Secret, Settled(k)
    PROVE  Settled(k)' /\ Value(k)' = Value(k)
<1>1. ViaEnv(k) \/ file'[k] = file[k]
  BY FileSteps DEF Settled
<1>2. UNCHANGED env
  BY FileSteps
<1> QED
  BY <1>1, <1>2 DEF Settled, Value, ViaEnv

\* A file that is missing is not a torn one.
LEMMA MissingIsNotTorn == Missing # Torn
BY ServerStartAssumption DEF Missing, Torn

\* What a step of process s means for its secrets, and for those of others.
StepOfOne(s) ==
    /\ \A t \in Server \ {s} : at'[t] = at[t] /\ secret'[t] = secret[t]
    /\ \A k \in Secret :
          /\ Past(s, k)' =>
                 \/ Past(s, k) /\ secret'[s][k] = secret[s][k]
                 \/ Settled(k)' /\ secret'[s][k] = Value(k)'
          /\ at'[s] \in {Creates(k), Writes(k)} => ~ViaEnv(k)'
          /\ at'[s] = Writes(k) => at[s] = Writes(k) \/ (file[k] = Missing /\ file'[k] = Torn)
          /\ \/ file'[k] = file[k]
             \/ file[k] = Missing /\ file'[k] = Torn
             \/ at[s] = Writes(k) /\ at'[s] # Writes(k)

\* A process is past a secret only with its settled value.
LEMMA ProcessSteps ==
    ASSUME StartTypes, SecretsSettle, NEW s \in Server,
           \/ Launch(s) \/ Resolving(s) \/ Migrating(s) \/ Die(s)
           \/ StoreCredential(s) \/ DeleteCredential(s) \/ Login(s)
    PROVE  StepOfOne(s)
<1>1. CASE Launch(s)
  BY <1>1 DEF Launch, Goto, StartTypes, StepOfOne, Secret, Past, Migrated, Creates, Writes
<1>2. ASSUME NEW j \in Secret, Load(s, j)
      PROVE  StepOfOne(s)
  <2>1. UNCHANGED <<env, file>> /\ at[s] = j
    BY <1>2 DEF Load
  <2>2. CASE Settled(j) /\ Resolved(s, j, Value(j))
    BY <2>1, <2>2 DEF Resolved, Goto, StartTypes, StepOfOne, Secret, Past, Migrated, Creates, Writes,
                      Settled, Value, ViaEnv
  <2>3. CASE Goto(s, "off") /\ UNCHANGED secret
    BY <2>1, <2>3 DEF Goto, StartTypes, StepOfOne, Secret, Past, Migrated, Creates, Writes
  <2>4. CASE ~ViaEnv(j) /\ Goto(s, Creates(j)) /\ UNCHANGED secret
    BY <2>1, <2>4 DEF Goto, StartTypes, StepOfOne, Secret, Past, Migrated, Creates, Writes, ViaEnv
  <2> QED
    BY <1>2, <2>2, <2>3, <2>4 DEF Load, Settled, Value, ViaEnv, Creates, Secret
<1>3. ASSUME NEW j \in Secret, CreateFile(s, j)
      PROVE  StepOfOne(s)
  <2>1. at[s] = Creates(j) /\ UNCHANGED <<env, secret>>
    BY <1>3 DEF CreateFile, Creates
  <2>2. CASE file[j] = Missing /\ file' = [file EXCEPT ![j] = Torn] /\ Goto(s, Writes(j))
    <3>1. /\ at' = [at EXCEPT ![s] = Writes(j)] /\ at'[s] = Writes(j)
          /\ at \in [Server -> Places] /\ file \in [Secret -> (1 .. MaxKeys) \cup {Missing, Torn}]
      BY <2>2 DEF Goto, StartTypes
    <3>2. ~ViaEnv(j) /\ ~ViaEnv(j)'
      BY <2>1 DEF SecretsSettle, ViaEnv
    <3>3. ASSUME NEW k \in Secret
          PROVE  /\ Past(s, k)' => Past(s, k)
                 /\ at'[s] \in {Creates(k), Writes(k)} => k = j
                 /\ k # j => file'[k] = file[k]
                 /\ k = j => file[k] = Missing /\ file'[k] = Torn
      BY <2>1, <2>2, <3>1 DEF Past, Migrated, Creates, Writes, Secret
    <3> QED
      BY <2>1, <3>1, <3>2, <3>3 DEF StepOfOne
  <2>3. CASE Goto(s, j) /\ UNCHANGED file
    BY <2>1, <2>3 DEF Goto, StartTypes, StepOfOne, Secret, Past, Migrated, Creates, Writes, ViaEnv
  <2> QED
    BY <1>3, <2>2, <2>3 DEF CreateFile, Writes
<1>4. ASSUME NEW j \in Secret, WriteFile(s, j)
      PROVE  StepOfOne(s)
  <2>1. /\ at[s] = Writes(j) /\ UNCHANGED env /\ file' = [file EXCEPT ![j] = keys + 1]
        /\ Resolved(s, j, keys + 1) /\ keys < MaxKeys
    BY <1>4, Zenon DEF WriteFile, Writes
  <2>2. ~ViaEnv(j)
    BY <2>1 DEF SecretsSettle
  <2>3. keys + 1 \notin {Missing, Torn}
    BY <2>1, ServerStartAssumption DEF StartTypes, Missing, Torn
  <2> QED
    <3> DEFINE next == IF j = "jwt" THEN "vault" ELSE "check"
    <3>1. /\ at' = [at EXCEPT ![s] = next] /\ at'[s] = next
          /\ secret' = [secret EXCEPT ![s][j] = keys + 1]
          /\ at \in [Server -> Places] /\ secret \in [Server -> [Secret -> 0 .. MaxKeys]]
          /\ file \in [Secret -> (1 .. MaxKeys) \cup {Missing, Torn}]
      BY <2>1 DEF Resolved, Goto, StartTypes
    <3>2. ~ViaEnv(j)' /\ file'[j] = keys + 1 /\ secret'[s][j] = keys + 1
      BY <2>1, <2>2, <3>1 DEF ViaEnv
    <3>3. Settled(j)' /\ secret'[s][j] = Value(j)'
      BY <2>3, <3>2 DEF Settled, Value
    <3>4. ASSUME NEW k \in Secret
          PROVE  /\ k # j => file'[k] = file[k] /\ secret'[s][k] = secret[s][k]
                 /\ Past(s, k)' => k = j \/ Past(s, k)
                 /\ at'[s] \notin {Creates(k), Writes(k)}
                 /\ k = j => at[s] = Writes(k)
      BY <2>1, <3>1 DEF Past, Migrated, Creates, Writes, Secret
    <3>5. \A t \in Server \ {s} : at'[t] = at[t] /\ secret'[t] = secret[t]
      BY <3>1
    <3> HIDE DEF next
    <3> QED
      BY <3>3, <3>4, <3>5 DEF StepOfOne
<1>5. CASE Migrating(s) \/ Die(s) \/ StoreCredential(s) \/ DeleteCredential(s) \/ Login(s)
  <2>1. UNCHANGED <<file, secret>> /\ \A t \in Server \ {s} : at'[t] = at[t]
    BY <1>5 DEF Migrating, Check, Apply, Record, Die, StoreCredential, DeleteCredential, Login, Goto,
                processVars, StartTypes
  <2>2. at'[s] = "off" \/ (at[s] \in Migrated /\ at'[s] \in Migrated)
    BY <1>5 DEF Migrating, Check, Apply, Record, Die, StoreCredential, DeleteCredential, Login, Goto,
                processVars, StartTypes, Migrated
  <2> QED
    BY <2>1, <2>2 DEF StepOfOne, Secret, Past, Migrated, Creates, Writes
<1> QED
  BY <1>1, <1>2, <1>3, <1>4, <1>5 DEF Resolving

\* Secrets go on settling.
LEMMA SecretsKept ==
    ASSUME StartTypes, SecretsSettle, [StartNext]_startVars
    PROVE  SecretsSettle'
<1>1. ASSUME NEW s \in Server, StepOfOne(s)
      PROVE  SecretsSettle'
  <2> SUFFICES ASSUME NEW k \in Secret
               PROVE  /\ \A t \in Server : Past(t, k)' => Settled(k)' /\ secret'[t][k] = Value(k)'
                      /\ \A t \in Server : at'[t] \in {Creates(k), Writes(k)} => ~ViaEnv(k)'
                      /\ \A t \in Server : at'[t] = Writes(k) => file'[k] = Torn
                      /\ \A t, u \in Server : at'[t] = Writes(k) /\ at'[u] = Writes(k) => t = u
    BY DEF SecretsSettle, Creates, Writes
  <2>1. ASSUME NEW t \in Server, Past(t, k)'
        PROVE  Settled(k)' /\ secret'[t][k] = Value(k)'
    <3>1. CASE Past(t, k) /\ secret'[t][k] = secret[t][k]
      <4>1. Settled(k) /\ secret[t][k] = Value(k)
        BY <3>1 DEF SecretsSettle
      <4> QED
        BY <3>1, <4>1, SettledStays
    <3> QED
      BY <1>1, <2>1, <3>1 DEF StepOfOne, Past
  <2>2. ASSUME NEW t \in Server, at'[t] \in {Creates(k), Writes(k)}
        PROVE  ~ViaEnv(k)'
    BY <1>1, <2>2, FileSteps DEF StepOfOne, SecretsSettle, ViaEnv
  <2>3. ASSUME NEW t \in Server, at'[t] = Writes(k)
        PROVE  file'[k] = Torn
    <3>1. CASE at[t] = Writes(k)
      <4>1. file[k] = Torn /\ (at[s] = Writes(k) => s = t)
        BY <3>1 DEF SecretsSettle
      <4> QED
        BY <1>1, <2>3, <4>1, MissingIsNotTorn DEF StepOfOne
    <3> QED
      BY <1>1, <2>3, <3>1 DEF StepOfOne
  <2>4. ASSUME NEW t \in Server, NEW u \in Server, at'[t] = Writes(k), at'[u] = Writes(k)
        PROVE  t = u
    <3>1. /\ at[t] = Writes(k) => file[k] = Torn
          /\ at[u] = Writes(k) => file[k] = Torn
          /\ at[t] = Writes(k) /\ at[u] = Writes(k) => t = u
      BY DEF SecretsSettle
    <3> QED
      BY <1>1, <2>4, <3>1, MissingIsNotTorn DEF StepOfOne
  <2> QED
    BY <2>1, <2>2, <2>3, <2>4
<1>2. ASSUME NEW j \in Secret, OperatorDeletesTornFile(j)
      PROVE  SecretsSettle'
  <2>1. UNCHANGED <<env, at, secret>> /\ file' = [file EXCEPT ![j] = Missing]
    BY <1>2 DEF OperatorDeletesTornFile, processVars
  <2>2. file[j] = Torn /\ \A s \in Server : at[s] # Writes(j)
    BY <1>2 DEF OperatorDeletesTornFile, Writes
  <2> QED
    BY <2>1, <2>2 DEF SecretsSettle, Past, Settled, Value, ViaEnv, Creates, Writes, StartTypes
<1>3. CASE UNCHANGED startVars
  BY <1>3 DEF startVars, SecretsSettle, Past, Settled, Value, ViaEnv
<1> QED
  BY <1>1, <1>2, <1>3, ProcessSteps DEF StartNext

\* What is stored or signed is so with the secret of a server that is up.
LEMMA UseSteps ==
    ASSUME [StartNext]_startVars
    PROVE  /\ \/ sealedBy' \in {sealedBy, {}}
              \/ \E s \in Server : at[s] = "up" /\ sealedBy' = {secret[s]["vault"]}
           /\ \/ signedBy' = signedBy
              \/ \E s \in Server : at[s] = "up" /\ signedBy' = {secret[s]["jwt"]}
<1> USE DEF databaseVars
<1>1. CASE UNCHANGED startVars
  BY <1>1 DEF startVars
<1>2. ASSUME NEW s \in Server, Launch(s) \/ Resolving(s) \/ Check(s) \/ Record(s) \/ Die(s)
      PROVE  UNCHANGED <<sealedBy, signedBy>>
  BY <1>2 DEF Launch, Resolving, Load, CreateFile, WriteFile, Check, Record, Die
<1>3. ASSUME NEW s \in Server, Apply(s)
      PROVE  sealedBy' \in {sealedBy, {}} /\ UNCHANGED signedBy
  BY <1>3 DEF Apply
<1>4. ASSUME NEW k \in Secret, OperatorDeletesTornFile(k)
      PROVE  UNCHANGED <<sealedBy, signedBy>>
  BY <1>4 DEF OperatorDeletesTornFile
<1>5. ASSUME NEW s \in Server, StoreCredential(s)
      PROVE  at[s] = "up" /\ sealedBy' = {secret[s]["vault"]} /\ UNCHANGED signedBy
  BY <1>5 DEF StoreCredential
<1>6. ASSUME NEW s \in Server, DeleteCredential(s)
      PROVE  sealedBy' = {} /\ UNCHANGED signedBy
  BY <1>6 DEF DeleteCredential
<1>7. ASSUME NEW s \in Server, Login(s)
      PROVE  at[s] = "up" /\ signedBy' = {secret[s]["jwt"]} /\ UNCHANGED sealedBy
  BY <1>7 DEF Login
<1> QED
  BY <1>1, <1>2, <1>3, <1>4, <1>5, <1>6, <1>7 DEF StartNext, Migrating

\* What the vault sealed and the server signed stays under settled secrets.
LEMMA UsesKept ==
    ASSUME StartTypes, SecretsSettle, UsesAreSettled, [StartNext]_startVars
    PROVE  UsesAreSettled'
<1>1. "vault" \in Secret /\ "jwt" \in Secret
  BY DEF Secret
<1>2. ASSUME NEW k \in Secret, Settled(k)
      PROVE  Settled(k)' /\ Value(k)' = Value(k)
  BY <1>2, SettledStays
<1>3. ASSUME NEW s \in Server, at[s] = "up", NEW k \in Secret
      PROVE  Settled(k) /\ secret[s][k] = Value(k)
  BY <1>3 DEF SecretsSettle, Past, Migrated
<1>4. sealedBy' \subseteq {Value("vault")'} /\ (sealedBy' # {} => Settled("vault")')
  BY <1>1, <1>2, <1>3, UseSteps DEF UsesAreSettled
<1>5. signedBy' \subseteq {Value("jwt")'} /\ (signedBy' # {} => Settled("jwt")')
  BY <1>1, <1>2, <1>3, UseSteps DEF UsesAreSettled
<1> QED
  BY <1>4, <1>5 DEF UsesAreSettled

----------------------------------------------------------------------------
(* Versions.                                                                 *)

\* What is left to do is of a migration that exists.
LEMMA TodoVersion == \A p \in Todos : p[1] \in 0 .. 5
BY DEF Todos

\* Versions are recorded in order by whoever applies them.
LEMMA VersionsKept ==
    ASSUME StartTypes, VersionsInOrder, [StartNext]_startVars
    PROVE  VersionsInOrder'
<1> USE DEF StartTypes, Goto, Resolved, processVars, databaseVars, VersionsInOrder, InOrder
<1>1. CASE UNCHANGED startVars
  BY <1>1 DEF startVars
<1>2. ASSUME NEW s \in Server, Launch(s)
      PROVE  VersionsInOrder'
  BY <1>2 DEF Launch, Migrated
<1>3. ASSUME NEW s \in Server, NEW k \in Secret, Load(s, k) \/ CreateFile(s, k) \/ WriteFile(s, k)
      PROVE  VersionsInOrder'
  <2>1. UNCHANGED <<todo, recorded, sealedBy>> /\ at[s] \notin Migrated \cup {"off"}
    BY <1>3 DEF Load, CreateFile, WriteFile, Secret, Migrated
  <2>2. /\ at'[s] \notin {"apply", "up"}
        /\ \A t \in Server \ {s} : at'[t] = at[t]
    BY <1>3 DEF Load, CreateFile, WriteFile, Secret
  <2>3. todo[s] = <<0, <<>>>>
    BY <2>1
  <2> QED
    BY <2>1, <2>2, <2>3
<1>4. ASSUME NEW s \in Server, Check(s)
      PROVE  VersionsInOrder'
  <2> DEFINE v == todo[s][1] + 1
  <2>1. UNCHANGED <<recorded, sealedBy>> /\ at[s] = "check" /\ 1 .. todo[s][1] \subseteq recorded
    BY <1>4 DEF Check
  <2>6. todo[s][1] \in 0 .. 5
    BY TodoVersion
  <2>2. \A t \in Server \ {s} : at'[t] = at[t] /\ todo'[t] = todo[t]
    BY <1>4 DEF Check
  <2>3. CASE v = 6 /\ Goto(s, "up") /\ UNCHANGED todo
    <3>1. recorded = Version
      <4>1. todo[s][1] = 5 /\ recorded \subseteq Version
        BY <2>3, <2>6
      <4>2. 1 .. 5 \subseteq recorded
        BY <2>1, <4>1
      <4> QED
        BY <4>1, <4>2, Zenon DEF Version
    <3> QED
      BY <2>1, <2>2, <2>3, <3>1 DEF Migrated
  <2>4. CASE v \in recorded /\ todo' = [todo EXCEPT ![s] = <<v, <<>>>>] /\ UNCHANGED at
    <3>1. 1 .. v \subseteq recorded /\ todo'[s][1] = v
      BY <2>4
    <3> QED
      BY <2>1, <2>2, <2>4, <3>1 DEF Migrated
  <2>5. CASE v \in Version \ recorded /\ todo' = [todo EXCEPT ![s] = <<v, Statements[v]>>] /\ Goto(s, "apply")
    <3>1. 1 .. v - 1 \subseteq recorded /\ todo'[s][1] = v
      BY <2>1, <2>5, <2>6 DEF Version
    <3> QED
      BY <2>1, <2>2, <2>5, <3>1 DEF Migrated
  <2> QED
    BY <1>4, <2>3, <2>4, <2>5 DEF Check
<1>5. ASSUME NEW s \in Server, Apply(s)
      PROVE  VersionsInOrder'
  <2>1. /\ UNCHANGED recorded /\ sealedBy' \in {sealedBy, {}}
        /\ at[s] = "apply" /\ at'[s] \in {"apply", "off"}
    BY <1>5 DEF Apply
  <2>2. todo'[s][1] = todo[s][1]
    BY <1>5 DEF Apply
  <2>3. \A t \in Server \ {s} : at'[t] = at[t] /\ todo'[t] = todo[t]
    BY <1>5 DEF Apply
  <2> QED
    BY <2>1, <2>2, <2>3 DEF Migrated
<1>6. ASSUME NEW s \in Server, Record(s)
      PROVE  VersionsInOrder'
  <2> DEFINE v == todo[s][1]
  <2>1. /\ UNCHANGED <<todo, sealedBy>> /\ recorded' = recorded \cup {v}
        /\ at[s] = "apply" /\ at'[s] \in {"check", "off"}
        /\ \A t \in Server \ {s} : at'[t] = at[t]
    BY <1>6 DEF Record
  <2>2. v \in Version /\ 1 .. v \subseteq recorded'
    BY <2>1 DEF Version
  <2>3. recorded' \subseteq Version /\ (recorded = Version => recorded' = Version)
    BY <2>1, <2>2
  <2>4. \A w \in recorded' : 1 .. w \subseteq recorded'
    BY <2>1, <2>2
  <2> HIDE DEF v
  <2>5. ASSUME NEW t \in Server PROVE InOrder(t)'
    BY <2>1, <2>2, <2>3 DEF v, Migrated
  <2>6. sealedBy' # {} => recorded' = Version
    BY <2>1, <2>3
  <2> QED
    BY <2>4, <2>5, <2>6
<1>7. ASSUME NEW s \in Server, Die(s)
      PROVE  VersionsInOrder'
  BY <1>7 DEF Die, Migrated
<1>8. ASSUME NEW s \in Server, StoreCredential(s) \/ DeleteCredential(s) \/ Login(s)
      PROVE  VersionsInOrder'
  BY <1>8 DEF StoreCredential, DeleteCredential, Login
<1>9. ASSUME NEW k \in Secret, OperatorDeletesTornFile(k)
      PROVE  VersionsInOrder'
  BY <1>9 DEF OperatorDeletesTornFile
<1> QED
  BY <1>1, <1>2, <1>3, <1>4, <1>5, <1>6, <1>7, <1>8, <1>9 DEF StartNext, Resolving, Migrating

\* A process that starts while no other runs is alone until another starts.
LEMMA OneAtATimeKept ==
    ASSUME StartTypes, OneAtATime, [StartNext]_startVars
    PROVE  OneAtATime'
<1> USE DEF StartTypes, Goto, Resolved, processVars, databaseVars, OneAtATime
<1>1. CASE UNCHANGED startVars
  BY <1>1 DEF startVars
<1>2. ASSUME NEW s \in Server, Launch(s)
      PROVE  OneAtATime'
  BY <1>2 DEF Launch
<1>3. ASSUME NEW s \in Server,
             \/ Resolving(s) \/ Check(s) \/ Apply(s) \/ Record(s) \/ Die(s)
             \/ StoreCredential(s) \/ DeleteCredential(s) \/ Login(s)
      PROVE  OneAtATime'
  <2>1. UNCHANGED met /\ at[s] # "off"
    BY <1>3 DEF Resolving, Load, CreateFile, WriteFile, Secret, Check, Apply, Record, Die,
                StoreCredential, DeleteCredential, Login
  <2>2. \A t \in Server \ {s} : at'[t] = at[t]
    BY <1>3 DEF Resolving, Load, CreateFile, WriteFile, Check, Apply, Record, Die,
                StoreCredential, DeleteCredential, Login
  <2>3. ASSUME ~met, at'[s] = "apply"
        PROVE  todo'[s][1] \notin recorded'
    <3>1. CASE Resolving(s)
      BY <2>3, <3>1 DEF Resolving, Load, CreateFile, WriteFile, Secret
    <3>2. CASE Check(s)
      BY <2>3, <3>2 DEF Check
    <3>3. CASE Apply(s)
      <4>1. UNCHANGED recorded /\ at[s] = "apply" /\ todo'[s][1] = todo[s][1]
        BY <3>3 DEF Apply
      <4> QED
        BY <2>3, <4>1
    <3>4. CASE Record(s) \/ Die(s)
      BY <2>3, <3>4 DEF Record, Die
    <3>5. CASE StoreCredential(s) \/ DeleteCredential(s) \/ Login(s)
      BY <2>3, <3>5 DEF StoreCredential, DeleteCredential, Login
    <3> QED
      BY <1>3, <3>1, <3>2, <3>3, <3>4, <3>5
  <2>4. ~met => \A t \in Server \ {s} : at[t] = "off"
    BY <2>1
  <2> QED
    BY <2>1, <2>2, <2>3, <2>4
<1>4. ASSUME NEW k \in Secret, OperatorDeletesTornFile(k)
      PROVE  OneAtATime'
  BY <1>4 DEF OperatorDeletesTornFile
<1> QED
  BY <1>1, <1>2, <1>3, <1>4 DEF StartNext, Migrating

----------------------------------------------------------------------------
(* Shapes.                                                                   *)

\* A process that is alone applies the first version that is not recorded.
LEMMA FirstMissing ==
    ASSUME StartTypes, VersionsInOrder, OneAtATime, ~met, NEW s \in Server, at[s] = "apply"
    PROVE  /\ todo[s][1] \in Version
           /\ \A w \in Version : w \in recorded <=> w < todo[s][1]
<1> DEFINE v == todo[s][1]
<1>1. v \in Version /\ v \notin recorded /\ 1 .. v - 1 \subseteq recorded
  BY DEF VersionsInOrder, InOrder, OneAtATime
<1>2. ASSUME NEW w \in Version, w < v PROVE w \in recorded
  BY <1>1, <1>2 DEF Version
<1>3. ASSUME NEW w \in Version, w \in recorded PROVE w < v
  <2>1. v \notin 1 .. w
    BY <1>1, <1>3 DEF VersionsInOrder
  <2> QED
    BY <1>1, <2>1 DEF Version
<1> QED
  BY <1>1, <1>2, <1>3

\* What the kinds of statements need and do.
LEMMA StatementMeans ==
    ASSUME NEW t \in Table, NEW v
    PROVE  /\ IfMissing(t).table = t /\ Create(t).table = t
           /\ DropIfThere(t).table = t /\ AddColumn(t).table = t
           /\ Accepts(IfMissing(t)) /\ Accepts(DropIfThere(t))
           /\ shape[t] = 0 => Accepts(Create(t))
           /\ shape[t] = 1 => Accepts(AddColumn(t))
           /\ ShapedBy(IfMissing(t), v) = IF shape[t] = 0 THEN v ELSE shape[t]
           /\ ShapedBy(DropIfThere(t), v) = 0
           /\ ShapedBy(Create(t), v) = v /\ ShapedBy(AddColumn(t), v) = v
BY DEF IfMissing, Create, DropIfThere, AddColumn, Accepts, ShapedBy

\* A statement that is accepted brings the tables one step on, and one that is
\* refused had been applied before.
LEMMA StatementFits ==
    ASSUME StartTypes, ShapeFits, NEW v \in Version, NEW left \in 1 .. 3,
           v = 3 => left < 3, v = 4 => left = 1,
           \A w \in Version : w \in recorded <=> w < v,
           AppliedSoFar(v, left), UNCHANGED recorded,
           \/ Accepts(Due(v, left))
              /\ shape' = [shape EXCEPT ![Due(v, left).table] = ShapedBy(Due(v, left), v)]
           \/ ~Accepts(Due(v, left)) /\ Forgives(v) /\ UNCHANGED shape
    PROVE  ShapeFits' /\ AppliedSoFar(v, left - 1)'
<1>1. shape \in [Table -> 0 .. 5]
  BY DEF StartTypes
<1>2. \A w \in {1, 2, 3, 4, 5} : w \in recorded <=> w < v
  BY DEF Version
<1>3. CASE v = 1 /\ left = 3
  <2>1. shape["flows"] \in {0, 1}
    BY <1>2, <1>3 DEF ShapeFits, AppliedSoFar
  <2>2. shape' = [shape EXCEPT !["flows"] = 1]
    <3>1. Due(v, left) = IfMissing("flows")
      BY <1>3 DEF Due
    <3> QED
      BY <1>1, <1>3, <2>1, <3>1, StatementMeans DEF Table
  <2> QED
    BY <1>1, <1>2, <1>3, <2>2 DEF ShapeFits, AppliedSoFar, Table
<1>4. CASE v = 1 /\ left = 2
  <2>1. shape["executions"] \in {0, 1}
    BY <1>2, <1>4 DEF ShapeFits, AppliedSoFar
  <2>2. shape' = [shape EXCEPT !["executions"] = 1]
    <3>1. Due(v, left) = IfMissing("executions")
      BY <1>4 DEF Due
    <3> QED
      BY <1>1, <1>4, <2>1, <3>1, StatementMeans DEF Table
  <2> QED
    BY <1>1, <1>2, <1>4, <2>2 DEF ShapeFits, AppliedSoFar, Table
<1>5. CASE v = 1 /\ left = 1
  <2>1. shape["credentials"] \in {0, 1}
    BY <1>2, <1>5 DEF ShapeFits, AppliedSoFar
  <2>2. shape' = [shape EXCEPT !["credentials"] = 1]
    <3>1. Due(v, left) = IfMissing("credentials")
      BY <1>5 DEF Due
    <3> QED
      BY <1>1, <1>5, <2>1, <3>1, StatementMeans DEF Table
  <2> QED
    BY <1>1, <1>2, <1>5, <2>2 DEF ShapeFits, AppliedSoFar, Table
<1>6. CASE v = 2 /\ left = 3
  <2>1. shape["users"] \in {0, 2}
    BY <1>2, <1>6 DEF ShapeFits, AppliedSoFar
  <2>2. shape' = [shape EXCEPT !["users"] = 2]
    <3>1. Due(v, left) = IfMissing("users")
      BY <1>6 DEF Due
    <3> QED
      BY <1>1, <1>6, <2>1, <3>1, StatementMeans DEF Table
  <2> QED
    BY <1>1, <1>2, <1>6, <2>2 DEF ShapeFits, AppliedSoFar, Table
<1>7. CASE v = 2 /\ left = 2
  <2>1. shape["connections"] \in {0, 2}
    BY <1>2, <1>7 DEF ShapeFits, AppliedSoFar
  <2>2. shape' = [shape EXCEPT !["connections"] = 2]
    <3>1. Due(v, left) = IfMissing("connections")
      BY <1>7 DEF Due
    <3> QED
      BY <1>1, <1>7, <2>1, <3>1, StatementMeans DEF Table
  <2> QED
    BY <1>1, <1>2, <1>7, <2>2 DEF ShapeFits, AppliedSoFar, Table
<1>8. CASE v = 2 /\ left = 1
  <2>1. shape["flows"] \in {1, 2}
    BY <1>2, <1>8 DEF ShapeFits, AppliedSoFar
  <2>2. shape' = [shape EXCEPT !["flows"] = 2]
    <3>1. Due(v, left) = AddColumn("flows")
      BY <1>8 DEF Due
    <3> QED
      BY <1>1, <1>8, <2>1, <3>1, StatementMeans DEF Table, Forgives
  <2> QED
    BY <1>1, <1>2, <1>8, <2>2 DEF ShapeFits, AppliedSoFar, Table
<1>9. CASE v = 3 /\ left = 2
  <2>1. shape["credentials"] \in {0, 1, 3}
    BY <1>2, <1>9 DEF ShapeFits, AppliedSoFar
  <2>2. shape' = [shape EXCEPT !["credentials"] = 0]
    <3>1. Due(v, left) = DropIfThere("credentials")
      BY <1>9 DEF Due
    <3> QED
      BY <1>1, <1>9, <2>1, <3>1, StatementMeans DEF Table
  <2> QED
    BY <1>1, <1>2, <1>9, <2>2 DEF ShapeFits, AppliedSoFar, Table
<1>10. CASE v = 3 /\ left = 1
  <2>1. shape["credentials"] \in {0}
    BY <1>2, <1>10 DEF ShapeFits, AppliedSoFar
  <2>2. shape' = [shape EXCEPT !["credentials"] = 3]
    <3>1. Due(v, left) = Create("credentials")
      BY <1>10 DEF Due
    <3> QED
      BY <1>1, <1>10, <2>1, <3>1, StatementMeans DEF Table
  <2> QED
    BY <1>1, <1>2, <1>10, <2>2 DEF ShapeFits, AppliedSoFar, Table
<1>11. CASE v = 4 /\ left = 1
  <2>1. shape["hook_routes"] \in {0, 4}
    BY <1>2, <1>11 DEF ShapeFits, AppliedSoFar
  <2>2. shape' = [shape EXCEPT !["hook_routes"] = 4]
    <3>1. Due(v, left) = IfMissing("hook_routes")
      BY <1>11 DEF Due
    <3> QED
      BY <1>1, <1>11, <2>1, <3>1, StatementMeans DEF Table
  <2> QED
    BY <1>1, <1>2, <1>11, <2>2 DEF ShapeFits, AppliedSoFar, Table
<1>12. CASE v = 5 /\ left = 3
  <2>1. shape["hook_routes"] \in {0, 4, 5}
    BY <1>2, <1>12 DEF ShapeFits, AppliedSoFar
  <2>2. shape' = [shape EXCEPT !["hook_routes"] = 0]
    <3>1. Due(v, left) = DropIfThere("hook_routes")
      BY <1>12 DEF Due
    <3> QED
      BY <1>1, <1>12, <2>1, <3>1, StatementMeans DEF Table
  <2> QED
    BY <1>1, <1>2, <1>12, <2>2 DEF ShapeFits, AppliedSoFar, Table
<1>13. CASE v = 5 /\ left = 2
  <2>1. shape["hook_routes"] \in {0}
    BY <1>2, <1>13 DEF ShapeFits, AppliedSoFar
  <2>2. shape' = [shape EXCEPT !["hook_routes"] = 5]
    <3>1. Due(v, left) = Create("hook_routes")
      BY <1>13 DEF Due
    <3> QED
      BY <1>1, <1>13, <2>1, <3>1, StatementMeans DEF Table
  <2> QED
    BY <1>1, <1>2, <1>13, <2>2 DEF ShapeFits, AppliedSoFar, Table
<1>14. CASE v = 5 /\ left = 1
  <2>1. shape["flow_deployments"] \in {0, 5}
    BY <1>2, <1>14 DEF ShapeFits, AppliedSoFar
  <2>2. shape' = [shape EXCEPT !["flow_deployments"] = 5]
    <3>1. Due(v, left) = IfMissing("flow_deployments")
      BY <1>14 DEF Due
    <3> QED
      BY <1>1, <1>14, <2>1, <3>1, StatementMeans DEF Table
  <2> QED
    BY <1>1, <1>2, <1>14, <2>2 DEF ShapeFits, AppliedSoFar, Table
<1> QED
  BY <1>3, <1>4, <1>5, <1>6, <1>7, <1>8, <1>9, <1>10, <1>11, <1>12, <1>13, <1>14 DEF Version

\* A migration that has all its statements behind it can be recorded.
LEMMA RecordFits ==
    ASSUME StartTypes, ShapeFits, NEW v \in Version,
           \A w \in Version : w \in recorded <=> w < v,
           AppliedSoFar(v, 0), UNCHANGED shape, recorded' = recorded \cup {v}
    PROVE  ShapeFits'
<1>1. \A w \in {1, 2, 3, 4, 5} : w \in recorded <=> w < v
  BY DEF Version
<1>2. CASE v = 1
  BY <1>1, <1>2 DEF ShapeFits, AppliedSoFar
<1>3. CASE v = 2
  BY <1>1, <1>3 DEF ShapeFits, AppliedSoFar
<1>4. CASE v = 3
  BY <1>1, <1>4 DEF ShapeFits, AppliedSoFar
<1>5. CASE v = 4
  BY <1>1, <1>5 DEF ShapeFits, AppliedSoFar
<1>6. CASE v = 5
  BY <1>1, <1>6 DEF ShapeFits, AppliedSoFar
<1> QED
  BY <1>2, <1>3, <1>4, <1>5, <1>6 DEF Version

\* A migration that begins has done nothing yet.
LEMMA NothingApplied ==
    ASSUME NEW v \in Version
    PROVE  AppliedSoFar(v, Len(Statements[v]))'
<1>1. Len(Statements[v]) = IF v = 3 THEN 2 ELSE IF v = 4 THEN 1 ELSE 3
  BY FirstStatements
<1> QED
  BY <1>1 DEF AppliedSoFar

\* As long as processes run one at a time and no failure is forgiven, the
\* tables are what the recorded versions and the present one make them.
LEMMA ShapesKept ==
    ASSUME StartTypes, VersionsInOrder, OneAtATime, ShapesAreKnown, [StartNext]_startVars
    PROVE  ShapesAreKnown'
<1> SUFFICES ASSUME ~met', ~swallowed'
             PROVE  /\ ShapeFits'
                    /\ \A s \in Server :
                          at'[s] = "apply" => AppliedSoFar(todo[s][1], Len(todo[s][2]))'
  BY DEF ShapesAreKnown
<1> USE DEF StartTypes, Goto, Resolved, processVars, databaseVars
<1> DEFINE Fits(t) == at[t] = "apply" => AppliedSoFar(todo[t][1], Len(todo[t][2]))
<1>0. ~met /\ ~swallowed => ShapeFits /\ \A s \in Server : Fits(s)
  BY DEF ShapesAreKnown
<1>1. CASE UNCHANGED startVars
  BY <1>0, <1>1 DEF startVars, ShapeFits, AppliedSoFar
<1>2. ASSUME NEW s \in Server,
             \/ Launch(s) \/ Resolving(s) \/ Die(s)
             \/ StoreCredential(s) \/ DeleteCredential(s) \/ Login(s)
      PROVE  ShapeFits' /\ \A t \in Server : Fits(t)'
  <2>1. /\ UNCHANGED <<shape, recorded>> /\ ~met /\ ~swallowed
        /\ \A t \in Server : at'[t] = "apply" => at[t] = "apply" /\ todo'[t] = todo[t]
    BY <1>2 DEF Launch, Resolving, Load, CreateFile, WriteFile, Secret, Die, StoreCredential,
                DeleteCredential, Login
  <2>2. ShapeFits'
    BY <1>0, <2>1 DEF ShapeFits
  <2>3. ASSUME NEW t \in Server PROVE Fits(t)'
    BY <1>0, <2>1 DEF AppliedSoFar
  <2> QED
    BY <2>2, <2>3
<1>3. ASSUME NEW k \in Secret, OperatorDeletesTornFile(k)
      PROVE  ShapeFits' /\ \A t \in Server : Fits(t)'
  BY <1>0, <1>3 DEF OperatorDeletesTornFile, ShapeFits, AppliedSoFar
<1>4. ASSUME NEW s \in Server, Check(s)
      PROVE  ShapeFits' /\ \A t \in Server : Fits(t)'
  <2> DEFINE v == todo[s][1] + 1
  <2>1. /\ UNCHANGED <<shape, recorded>> /\ ~met /\ ~swallowed
        /\ \A t \in Server \ {s} : at'[t] = at[t] /\ todo'[t] = todo[t]
    BY <1>4 DEF Check
  <2>2. ShapeFits'
    BY <1>0, <2>1 DEF ShapeFits
  <2>3. at'[s] = "apply" => v \in Version /\ todo'[s] = <<v, Statements[v]>>
    BY <1>4 DEF Check
  <2>4. Fits(s)'
    BY <2>3, NothingApplied
  <2>5. ASSUME NEW t \in Server \ {s} PROVE Fits(t)'
    BY <1>0, <2>1 DEF AppliedSoFar
  <2> QED
    BY <2>2, <2>4, <2>5
<1>5. ASSUME NEW s \in Server, Apply(s)
      PROVE  ShapeFits' /\ \A t \in Server : Fits(t)'
  <2> DEFINE p == todo[s]
             st == Head(p[2])
  <2>1. /\ UNCHANGED recorded /\ ~met /\ ~swallowed /\ at[s] = "apply" /\ p \in Todos /\ p[2] # <<>>
        /\ \A t \in Server \ {s} : at'[t] = at[t] /\ todo'[t] = todo[t]
    BY <1>5 DEF Apply
  <2>2. PICK v \in Version, left \in 1 .. 3 :
            /\ v = p[1] /\ left = Len(p[2])
            /\ v = 3 => left < 3
            /\ v = 4 => left = 1
            /\ st = Due(v, left) /\ Len(Tail(p[2])) = left - 1
    BY <2>1, NextStatement
  <2>3. \A w \in Version : w \in recorded <=> w < v
    BY <2>1, <2>2, FirstMissing
  <2>4. ShapeFits /\ AppliedSoFar(v, left)
    BY <1>0, <2>1, <2>2
  <2>5. \A t \in Server \ {s} : at'[t] # "apply"
    BY <2>1 DEF OneAtATime
  <2>6. CASE UNCHANGED shape /\ at'[s] # "apply"
    <3>1. ShapeFits'
      BY <2>1, <2>4, <2>6 DEF ShapeFits
    <3> QED
      BY <2>5, <2>6, <3>1
  <2>7. CASE /\ \/ Accepts(st) /\ shape' = [shape EXCEPT ![st.table] = ShapedBy(st, v)]
                \/ ~Accepts(st) /\ Forgives(v) /\ UNCHANGED shape
             /\ todo'[s] = <<v, Tail(p[2])>>
    <3>1. todo'[s][1] = v /\ Len(todo'[s][2]) = left - 1
      BY <2>2, <2>7
    <3>2. \/ /\ Accepts(Due(v, left))
             /\ shape' = [shape EXCEPT ![Due(v, left).table] = ShapedBy(Due(v, left), v)]
          \/ ~Accepts(Due(v, left)) /\ Forgives(v) /\ UNCHANGED shape
      BY <2>2, <2>7
    <3>3. UNCHANGED recorded /\ StartTypes
      BY <2>1
    <3> HIDE DEF st, p
    <3>4. ShapeFits' /\ AppliedSoFar(v, left - 1)'
      BY <2>2, <2>3, <2>4, <3>2, <3>3, StatementFits
    <3>5. Fits(s)'
      BY <3>1, <3>4 DEF AppliedSoFar
    <3> QED
      BY <2>5, <3>4, <3>5
  <2>8. \/ UNCHANGED shape /\ at'[s] # "apply"
        \/ /\ \/ Accepts(st) /\ shape' = [shape EXCEPT ![st.table] = ShapedBy(st, v)]
              \/ ~Accepts(st) /\ Forgives(v) /\ UNCHANGED shape
           /\ todo'[s] = <<v, Tail(p[2])>>
    BY <1>5, <2>2 DEF Apply
  <2> QED
    BY <2>6, <2>7, <2>8
<1>6. ASSUME NEW s \in Server, Record(s)
      PROVE  ShapeFits' /\ \A t \in Server : Fits(t)'
  <2> DEFINE v == todo[s][1]
  <2>1. /\ UNCHANGED shape /\ recorded' = recorded \cup {v} /\ ~met /\ ~swallowed
        /\ at[s] = "apply" /\ todo[s][2] = <<>> /\ at'[s] # "apply"
        /\ \A t \in Server \ {s} : at'[t] = at[t]
    BY <1>6 DEF Record
  <2>2. v \in Version /\ \A w \in Version : w \in recorded <=> w < v
    BY <2>1, FirstMissing
  <2>3. ShapeFits /\ AppliedSoFar(v, 0)
    BY <1>0, <2>1
  <2>4. ShapeFits'
    BY <2>1, <2>2, <2>3, RecordFits
  <2>5. \A t \in Server : at'[t] # "apply"
    BY <2>1 DEF OneAtATime
  <2> QED
    BY <2>4, <2>5
<1> QED
  BY <1>1, <1>2, <1>3, <1>4, <1>5, <1>6 DEF StartNext, Migrating

----------------------------------------------------------------------------
(* The theorems.                                                             *)

\* The invariant of the servers' start holds at first.
LEMMA StartInvInit == StartInit => StartInv
<1> SUFFICES ASSUME StartInit PROVE StartInv
  OBVIOUS
<1> USE ServerStartAssumption
<1>1. StartTypes
  <2>1. "off" \in Places /\ <<0, <<>>>> \in Todos
    BY DEF Places, Todos
  <2>2. /\ backend \in {"sqlite", "postgres"} /\ env \subseteq Secret
        /\ met \in BOOLEAN /\ swallowed \in BOOLEAN
        /\ file = [k \in Secret |-> Missing] /\ keys = 0 /\ faults = 0
        /\ at = [s \in Server |-> "off"]
        /\ secret = [s \in Server |-> [k \in Secret |-> 0]]
        /\ todo = [s \in Server |-> <<0, <<>>>>]
        /\ shape = [t \in Table |-> 0] /\ recorded = {} /\ sealedBy = {} /\ signedBy = {}
    BY DEF StartInit
  <2>3. /\ 0 \in 0 .. MaxKeys /\ 0 \in 0 .. MaxFaults /\ 0 \in 0 .. 5
    OBVIOUS
  <2> QED
    BY <2>1, <2>2, <2>3, Zenon DEF StartTypes
<1>2. SecretsSettle
  BY DEF StartInit, SecretsSettle, Past, Migrated, Creates, Writes
<1>3. UsesAreSettled
  BY DEF StartInit, UsesAreSettled
<1>4. VersionsInOrder
  BY DEF StartInit, VersionsInOrder, InOrder
<1>5. OneAtATime
  BY DEF StartInit, OneAtATime
<1>6. ShapesAreKnown
  BY DEF StartInit, ShapesAreKnown, ShapeFits, Table
<1> QED
  BY <1>1, <1>2, <1>3, <1>4, <1>5, <1>6 DEF StartInv

\* Every step of a start keeps it.
LEMMA StartInvStep == StartInv /\ [StartNext]_startVars => StartInv'
BY TypesKept, SecretsKept, UsesKept, VersionsKept, OneAtATimeKept, ShapesKept DEF StartInv

(***************************************************************************)
(* The strengthening holds in every reachable state: secrets settle and are *)
(* used settled, versions are recorded in order, and the tables are what    *)
(* the migrations that ran make them.                                       *)
(***************************************************************************)
THEOREM StartInvariant == StartSpec => []StartInv
BY StartInvInit, StartInvStep, PTL DEF StartSpec

\* Its first part gives every variable its type.
LEMMA StartTypesAreRight ==
    ASSUME StartTypes
    PROVE  StartTypeOK
<1>1. MaxKeys \in Nat
  BY ServerStartAssumption
<1>2. file \in [Secret -> 0 .. Torn]
  <2>1. (1 .. MaxKeys) \cup {Missing, Torn} \subseteq 0 .. Torn
    BY <1>1 DEF Missing, Torn
  <2> QED
    BY <2>1 DEF StartTypes
<1>3. \A s \in Server : todo[s][1] \in 0 .. 6
  <2>1. \A d \in Todos : d[1] \in 0 .. 6
    BY DEF Todos
  <2> QED
    BY <2>1 DEF StartTypes
<1> QED
  BY <1>2, <1>3 DEF StartTypes, StartTypeOK

(***************************************************************************)
(* The types of the files, the processes and the tables, however many keys  *)
(* and processes there are.                                                 *)
(***************************************************************************)
THEOREM StartTypesHold == StartSpec => []StartTypeOK
BY StartTypesAreRight, StartInvariant, PTL DEF StartInv

(***************************************************************************)
(* A server is up only on the newest schema, after any number of crashes    *)
(* and failures and any number of starts.                                   *)
(***************************************************************************)
THEOREM ServesNewestSchema == StartSpec => []RecordedIsApplied
<1>1. StartInv => RecordedIsApplied
  <2> SUFFICES ASSUME StartInv, ~met, ~swallowed
               PROVE  /\ \A v \in recorded : 1 .. v \subseteq recorded
                      /\ (\E s \in Server : at[s] = "up") => recorded = Version /\ shape = Newest
    BY DEF RecordedIsApplied
  <2>1. /\ \A v \in recorded : 1 .. v \subseteq recorded
        /\ (\E s \in Server : at[s] = "up") => recorded = Version
    BY DEF StartInv, VersionsInOrder, InOrder
  <2>2. ASSUME recorded = Version PROVE shape = Newest
    <3>1. ShapeFits /\ shape \in [Table -> 0 .. 5]
      BY DEF StartInv, ShapesAreKnown, StartTypes
    <3>2. \A v \in {1, 2, 3, 4, 5} : v \in recorded
      BY <2>2 DEF Version
    <3>3. /\ shape["flows"] = 2 /\ shape["users"] = 2 /\ shape["connections"] = 2
          /\ shape["executions"] = 1 /\ shape["credentials"] = 3
          /\ shape["hook_routes"] = 5 /\ shape["flow_deployments"] = 5
      BY <3>1, <3>2 DEF ShapeFits
    <3>4. \A t \in Table : shape[t] = Newest[t]
      BY <3>3 DEF Newest, Table
    <3> QED
      BY <3>1, <3>4 DEF Newest
  <2> QED
    BY <2>1, <2>2
<1> QED
  BY <1>1, StartInvariant, PTL

(***************************************************************************)
(* No restart and no migration costs a user a secret: whatever processes    *)
(* start, die or fail at the same time, every server that is up holds the   *)
(* keys in use, and a stored credential goes only if its user deletes it or *)
(* a second process was started.                                            *)
(***************************************************************************)
THEOREM SecretsOutliveStarts == StartSpec => SecretsAreKept
<1>1. StartInv => SecretsSurvive
  <2>1. "vault" \in Secret /\ "jwt" \in Secret
    BY DEF Secret
  <2> QED
    BY <2>1 DEF StartInv, SecretsSettle, UsesAreSettled, SecretsSurvive, Past, Migrated
<1>2. StartInv /\ [StartNext]_startVars => CredentialsStay
  <2> SUFFICES ASSUME StartInv, [StartNext]_startVars, sealedBy # {}, sealedBy' = {}, ~met
               PROVE  \E s \in Server : DeleteCredential(s)
    BY DEF CredentialsStay
  <2>1. recorded = Version
    BY DEF StartInv, VersionsInOrder
  <2>2. ASSUME NEW s \in Server, Apply(s) PROVE FALSE
    <3>1. at[s] = "apply"
      BY <2>2 DEF Apply
    <3> QED
      BY <2>1, <3>1 DEF StartInv, VersionsInOrder, InOrder, OneAtATime
  <2>3. ASSUME NEW s \in Server,
               Launch(s) \/ Resolving(s) \/ Check(s) \/ Record(s) \/ Die(s) \/ Login(s)
        PROVE  UNCHANGED sealedBy
    BY <2>3 DEF Launch, Resolving, Load, CreateFile, WriteFile, Check, Record, Die, Login,
                databaseVars
  <2>4. ASSUME NEW s \in Server, StoreCredential(s) PROVE sealedBy' # {}
    BY <2>4 DEF StoreCredential
  <2>5. ASSUME NEW k \in Secret, OperatorDeletesTornFile(k) PROVE UNCHANGED sealedBy
    BY <2>5 DEF OperatorDeletesTornFile, databaseVars
  <2>6. ASSUME UNCHANGED startVars PROVE UNCHANGED sealedBy
    BY <2>6 DEF startVars
  <2> QED
    BY <2>2, <2>3, <2>4, <2>5, <2>6 DEF StartNext, Migrating
<1>3. StartInv /\ SecretsSurvive' /\ [StartNext]_startVars
        => [SecretsSurvive' /\ CredentialsStay]_startVars
  BY <1>2
<1> QED
  BY <1>1, <1>3, StartInvariant, PTL DEF StartSpec, SecretsAreKept

----------------------------------------------------------------------------
(* Both modules side by side.                                                *)

\* The part that goes on keeps its invariant, the other one is of its type.
DatabaseInv ==
    \/ part = "start" /\ StartInv /\ TypeOK
    \/ part = "flows" /\ StoreInv /\ StartTypes

\* The invariant of the whole database holds at first.
LEMMA DatabaseInit == MCInit => DatabaseInv
<1>1. ASSUME part = "start", StartInit, NoFlows PROVE DatabaseInv
  <2>1. TypeOK
    BY <1>1 DEF NoFlows, TypeOK
  <2> QED
    BY <1>1, <2>1, StartInvInit DEF DatabaseInv
<1>2. ASSUME part = "flows", AServerIsUp, Init PROVE DatabaseInv
  <2>1. MaxKeys \in Nat /\ MaxFaults \in Nat
    BY ServerStartAssumption
  <2>2. file \in [Secret -> (1 .. MaxKeys) \cup {Missing, Torn}] /\ keys \in 0 .. MaxKeys
    BY <1>2, <2>1 DEF AServerIsUp
  <2>3. at \in [Server -> Places] /\ secret \in [Server -> [Secret -> 0 .. MaxKeys]]
    BY <1>2, <2>1 DEF AServerIsUp, Places
  <2>4. todo \in [Server -> Todos]
    <3>1. <<0, <<>>>> \in Todos
      BY DEF Todos
    <3> QED
      BY <1>2, <3>1 DEF AServerIsUp
  <2>5. shape \in [Table -> 0 .. 5]
    <3>1. /\ Newest["executions"] = 1 /\ Newest["flows"] = 2 /\ Newest["users"] = 2 /\ Newest["connections"] = 2
          /\ Newest["credentials"] = 3 /\ Newest["hook_routes"] = 5 /\ Newest["flow_deployments"] = 5
      BY DEF Newest, Table
    <3>2. \A t \in Table : Newest[t] \in 0 .. 5
      BY <3>1 DEF Table
    <3>3. Newest \in [Table -> 0 .. 5]
      BY <3>2 DEF Newest
    <3> QED
      BY <1>2, <3>3 DEF AServerIsUp
  <2>6. backend \in {"sqlite", "postgres"} /\ env \subseteq Secret /\ recorded \subseteq Version
    BY <1>2 DEF AServerIsUp
  <2>7. faults \in 0 .. MaxFaults
    BY <1>2, <2>1 DEF AServerIsUp
  <2>8. /\ sealedBy \subseteq 0 .. MaxKeys /\ signedBy \subseteq 0 .. MaxKeys
        /\ met \in BOOLEAN /\ swallowed \in BOOLEAN
    BY <1>2 DEF AServerIsUp
  <2>9. StartTypes
    BY <2>2, <2>3, <2>4, <2>5, <2>6, <2>7, <2>8 DEF StartTypes
  <2> QED
    BY <1>2, <2>9, InitEstablishes DEF DatabaseInv
<1> QED
  BY <1>1, <1>2 DEF MCInit

\* Every step, of the stores or of a start, keeps it.
LEMMA DatabaseStep == DatabaseInv /\ [MCNext]_<<part, vars, startVars>> => DatabaseInv'
<1> SUFFICES ASSUME DatabaseInv, [MCNext]_<<part, vars, startVars>> PROVE DatabaseInv'
  OBVIOUS
<1>1. UNCHANGED vars => TypeOK = TypeOK'
  BY DEF vars, tables, TypeOK
<1>2. UNCHANGED startVars => StartTypes = StartTypes'
  BY DEF startVars, StartTypes
<1>3. CASE part = "start" /\ StartInv /\ TypeOK
  <2>1. part' = part /\ [StartNext]_startVars /\ UNCHANGED vars
    BY <1>3 DEF MCNext
  <2> QED
    BY <1>1, <1>3, <2>1, StartInvStep DEF DatabaseInv
<1>4. CASE part = "flows" /\ StoreInv /\ StartTypes
  <2>1. part' = part /\ [Next]_vars /\ UNCHANGED startVars
    BY <1>4 DEF MCNext
  <2> QED
    BY <1>2, <1>4, <2>1, StepKeeps DEF DatabaseInv
<1> QED
  BY <1>3, <1>4 DEF DatabaseInv

\* The tables, the handlers, the files and the processes are of their types,
\* whether servers start or calls are handled.
THEOREM DatabaseTypesHold == MCSpec => []DatabaseTypeOK
<1>1. DatabaseInv => DatabaseTypeOK
  <2>1. StartInv => StartTypes
    BY DEF StartInv
  <2> QED
    BY <2>1, StoreTypes, StartTypesAreRight DEF DatabaseInv, DatabaseTypeOK
<1> QED
  BY <1>1, DatabaseInit, DatabaseStep, PTL DEF MCSpec
=============================================================================
