------------------------ MODULE PlanExecutionProofs ------------------------
(***************************************************************************)
(* Proofs about PlanExecution, for any flows that compile, any buffer size  *)
(* and any number of messages.                                              *)
(***************************************************************************)
EXTENDS PlanExecution, FlowGraphProofs, SequenceTheorems, FunctionTheorems

----------------------------------------------------------------------------
(* The inductive invariant.                                                  *)

Running == {"arm", "look", "park"}

\* The state of the driver and what the tasks hold.
PlanTypes ==
    /\ flow \in Flows /\ plan = Compile(flow).steps
    /\ pc \in {"head", "ok", "err"} \cup Running
    /\ step \in 1 .. Len(plan) + 1
    /\ senders \subseteq {n \in flow.enabled : HasInput(n)}
    /\ task \in [Node -> {"none", "aborted"} \cup Live \cup Finished]
    /\ hold \in [Node -> SUBSET flow.edges]
    /\ \A n \in Node : hold[n] \subseteq OutgoingEdges(flow, n)
    /\ cancel \in {"no", "flag", "yes"} /\ woken \in BOOLEAN
    /\ woken => cancel # "no"

\* Where the driver is in the step.
StepProgress ==
    /\ pc \in Running => /\ step <= Len(plan)
                         /\ awaited \subseteq plan[step]
                         /\ on \subseteq plan[step]
                         /\ \A n \in awaited : task[n] \in {"done", "skipped"}
    /\ pc = "head" => on = {}
    /\ \A m, n \in on : m = n
    /\ pc = "ok" /\ cancel = "no" => step = Len(plan) + 1

\* Earlier steps are over, later ones have not begun.
StepsInOrder ==
    /\ \A i \in DOMAIN plan : i < step => \A n \in plan[i] : task[n] \in {"done", "skipped"}
    /\ \A i \in DOMAIN plan : i > step => \A n \in plan[i] : task[n] = "none"
    /\ pc = "head" => \A i \in DOMAIN plan : i = step => \A n \in plan[i] : task[n] = "none"
    /\ \A n \in Node \ Placed(plan) : task[n] = "none"

\* The targets of earlier steps have lost their original senders.
SendersDropped ==
    \A i \in DOMAIN plan : i < step =>
        \A e \in flow.edges : e.from \in plan[i] => e.to \notin senders

ErrorIsReal == pc = "err" => \E n \in flow.enabled : task[n] = "failed"

PlanInv == PlanTypes /\ StepProgress /\ StepsInOrder /\ SendersDropped /\ ErrorIsReal

----------------------------------------------------------------------------
(* The plan of the flow that runs.                                           *)

\* The flows the executor is given are well formed, and so are their plans.
LEMMA FlowsAreWellFormed ==
    ASSUME NEW f \in Flows
    PROVE  WellFormed(f) /\ PlanOf(f, Compile(f).steps)
<1>1. WellFormed(f)
  BY PlanExecutionAssumption, FS_Subset DEF WellFormed
<1>2. Compile(f).status = "ok"
  BY PlanExecutionAssumption
<1> QED
  BY <1>1, <1>2, CompileGivesPlan

\* Every enabled node is in one step, after the steps of all its sources.
LEMMA PlanFacts ==
    ASSUME PlanTypes
    PROVE  /\ plan \in Seq(SUBSET flow.enabled) /\ Placed(plan) = flow.enabled
           /\ DOMAIN plan = 1 .. Len(plan) /\ Len(plan) \in Nat
           /\ flow.enabled \subseteq Node /\ flow.nodes \subseteq Node /\ flow.enabled \subseteq flow.nodes
           /\ \A i, j \in DOMAIN plan : i # j => plan[i] \cap plan[j] = {}
           /\ \A i \in DOMAIN plan : \A e \in flow.edges :
                 e.to \in plan[i] => \E j \in 1 .. i - 1 : e.from \in plan[j]
<1>1. flow \in Flows /\ PlanOf(flow, plan)
  BY FlowsAreWellFormed DEF PlanTypes
<1>2. /\ plan \in Seq(SUBSET flow.enabled) /\ Placed(plan) = flow.enabled
      /\ Layered(EnabledEdges(flow), plan)
  BY <1>1 DEF PlanOf
<1>3. flow.enabled \subseteq Node /\ flow.nodes \subseteq Node /\ flow.enabled \subseteq flow.nodes
  BY <1>1, PlanExecutionAssumption
<1>4. ASSUME NEW i \in DOMAIN plan, NEW e \in flow.edges, e.to \in plan[i]
      PROVE  \E j \in 1 .. i - 1 : e.from \in plan[j]
  <2>1. e.to \in flow.enabled
    BY <1>2, <1>4
  <2>2. e \in EnabledEdges(flow)
    BY <1>1, <2>1, SourcesAreEnabled DEF EnabledEdges
  <2> QED
    BY <1>2, <1>4, <2>2 DEF Layered
<1> QED
  BY <1>2, <1>3, <1>4 DEF Layered

----------------------------------------------------------------------------
(* Every step keeps the invariant.                                           *)

\* The invariant of a plan's execution holds at first.
LEMMA PlanInvInit == Init => PlanInv
<1> SUFFICES ASSUME Init PROVE PlanInv
  OBVIOUS
<1>1. PlanTypes
  <2>1. flow \in Flows /\ plan = Compile(flow).steps
    BY DEF Init
  <2>2. Len(plan) \in Nat
    BY <2>1, FlowsAreWellFormed DEF PlanOf
  <2>3. /\ task \in [Node -> {"none", "aborted"} \cup Live \cup Finished]
        /\ hold \in [Node -> SUBSET flow.edges] /\ \A n \in Node : hold[n] \subseteq OutgoingEdges(flow, n)
    BY DEF Init
  <2>4. /\ pc = "head" /\ step \in 1 .. Len(plan) + 1 /\ cancel = "no" /\ woken = FALSE
        /\ senders \subseteq {n \in flow.enabled : HasInput(n)}
    BY <2>2 DEF Init
  <2> QED
    BY <2>1, <2>3, <2>4, Zenon DEF PlanTypes
<1>2. StepProgress
  BY DEF Init, StepProgress, Running
<1>3. StepsInOrder
  <2>1. \A n \in Node : task[n] = "none"
    BY DEF Init
  <2>2. DOMAIN plan \subseteq Nat \ {0} /\ step = 1 /\ \A i \in DOMAIN plan : plan[i] \subseteq Node
    BY <1>1, PlanFacts DEF Init
  <2> QED
    BY <2>1, <2>2 DEF StepsInOrder
<1>4. SendersDropped
  <2>1. DOMAIN plan \subseteq Nat \ {0} /\ step = 1
    BY <1>1, PlanFacts DEF Init
  <2> QED
    BY <2>1 DEF SendersDropped
<1>5. ErrorIsReal
  BY DEF Init, ErrorIsReal
<1> QED
  BY <1>1, <1>2, <1>3, <1>4, <1>5 DEF PlanInv

\* The step of a task: a live one goes on or ends, and nothing else moves.
TaskMoves(n) ==
    /\ UNCHANGED <<input, driverVars, hold, cancel>>
    /\ task[n] \in Live
    /\ \E to \in {"aborted"} \cup Live \cup Finished : task' = [task EXCEPT ![n] = to]

\* What a step of a node's task changes.
LEMMA TaskSteps ==
    ASSUME PlanTypes, NEW n \in Node, Work(n) \/ Abort(n)
    PROVE  TaskMoves(n)
<1> USE DEF TaskMoves, PlanTypes, Live, Finished
<1>1. CASE TakeTrigger(n) \/ Fail(n) \/ Hang(n) \/ Abort(n)
  BY <1>1 DEF TakeTrigger, Fail, Hang, Abort
<1>2. CASE Receive(n)
  BY <1>2 DEF Receive
<1>3. CASE ChannelClosed(n)
  BY <1>3 DEF ChannelClosed
<1>4. ASSUME NEW ports, Produce(n, ports) PROVE TaskMoves(n)
  BY <1>4 DEF Produce
<1>5. CASE Send(n)
  <2>1. task' = [task EXCEPT ![n] = "send"]
    BY <1>5 DEF Send
  <2> QED
    BY <1>5, <2>1 DEF Send
<1>6. CASE Sent(n)
  BY <1>6 DEF Sent
<1> QED
  BY <1>1, <1>2, <1>3, <1>4, <1>5, <1>6 DEF Work

\* Such a step keeps the invariant.
LEMMA TaskKeeps ==
    ASSUME PlanInv, NEW n \in Node, TaskMoves(n)
    PROVE  PlanInv'
<1>0. PlanTypes
  BY DEF PlanInv
<1>1. PICK to \in {"aborted"} \cup Live \cup Finished : task' = [task EXCEPT ![n] = to]
  BY DEF TaskMoves
<1>2. /\ UNCHANGED <<flow, plan, pc, step, awaited, on, woken, senders, hold, cancel>>
      /\ task[n] \in Live
  BY DEF TaskMoves, input, driverVars
<1>3. /\ task' \in [Node -> {"none", "aborted"} \cup Live \cup Finished]
      /\ \A m \in Node : task'[m] = task[m] \/ (m = n /\ task[m] \in Live)
  BY <1>0, <1>1, <1>2 DEF PlanTypes
<1>4. \A m \in Node : task[m] \in {"none", "done", "skipped", "failed"} => task'[m] = task[m]
  BY <1>3 DEF Live
<1>5. PlanTypes'
  BY <1>0, <1>2, <1>3 DEF PlanTypes, HasInput, IncomingEdges, OutgoingEdges
<1>6. StepProgress'
  <2>1. step <= Len(plan) => plan[step] \subseteq Node
    BY <1>0, PlanFacts DEF PlanTypes
  <2> QED
    BY <1>2, <1>4, <2>1 DEF PlanInv, StepProgress, Running
<1>7. StepsInOrder'
  <2>1. \A i \in DOMAIN plan : plan[i] \subseteq Node
    BY <1>0, PlanFacts
  <2> QED
    BY <1>2, <1>4, <2>1 DEF PlanInv, StepsInOrder
<1>8. SendersDropped'
  BY <1>2 DEF PlanInv, SendersDropped
<1>9. ErrorIsReal'
  <2>1. flow.enabled \subseteq Node
    BY <1>0, PlanFacts
  <2> QED
    BY <1>2, <1>4, <2>1 DEF PlanInv, ErrorIsReal
<1> QED
  BY <1>5, <1>6, <1>7, <1>8, <1>9 DEF PlanInv

\* The driver returns: its senders and receivers go.
LEMMA ReturnKeeps ==
    ASSUME PlanInv, NEW result \in {"ok", "err"}, Return(result),
           UNCHANGED <<flow, plan, step, woken, task, hold, cancel>>,
           result = "ok" => cancel # "no" \/ step = Len(plan) + 1,
           result = "err" => \E n \in flow.enabled : task[n] = "failed"
    PROVE  PlanInv'
<1>1. pc' = result /\ senders' = {} /\ on' = {}
  BY DEF Return
<1>2. PlanTypes'
  BY <1>1 DEF PlanInv, PlanTypes, HasInput, IncomingEdges, OutgoingEdges, Running
<1>3. StepProgress'
  BY <1>1 DEF StepProgress, Running
<1>4. StepsInOrder'
  BY <1>1 DEF PlanInv, StepsInOrder
<1>5. SendersDropped'
  BY <1>1 DEF SendersDropped
<1>6. ErrorIsReal'
  BY <1>1 DEF ErrorIsReal
<1> QED
  BY <1>2, <1>3, <1>4, <1>5, <1>6 DEF PlanInv

\* Every step of an execution keeps it.
LEMMA PlanInvStep == PlanInv /\ [Next]_vars => PlanInv'
<1> SUFFICES ASSUME PlanInv, [Next]_vars PROVE PlanInv'
  OBVIOUS
<1> USE DEF input, taskVars
<1>0. PlanTypes
  BY DEF PlanInv
<1>1. CASE UNCHANGED vars
  <2> USE DEF vars, driverVars
  <2>1. PlanTypes'
    BY <1>0, <1>1 DEF PlanTypes, HasInput, IncomingEdges, OutgoingEdges
  <2>2. StepProgress' /\ StepsInOrder' /\ SendersDropped' /\ ErrorIsReal'
    BY <1>1 DEF PlanInv, StepProgress, StepsInOrder, SendersDropped, ErrorIsReal
  <2> QED
    BY <2>1, <2>2 DEF PlanInv
<1>2. CASE StopScheduling
  BY <1>2, ReturnKeeps DEF StopScheduling
<1>3. CASE Complete
  <2>1. step = Len(plan) + 1
    BY <1>0, <1>3 DEF Complete, PlanTypes
  <2> QED
    BY <1>3, <2>1, ReturnKeeps DEF Complete
<1>4. CASE SpawnStep
  <2>1. /\ UNCHANGED <<flow, plan, step, on, woken, senders, cancel>>
        /\ pc = "head" /\ step <= Len(plan) /\ pc' = "arm" /\ awaited' = {} /\ cancel = "no"
    BY <1>4 DEF SpawnStep
  <2>2. /\ \A n \in Node : task'[n] = IF n \in plan[step] THEN "ready" ELSE task[n]
        /\ \A n \in Node : hold'[n] = IF n \in plan[step] THEN HeldBy(n) ELSE hold[n]
    BY <1>4 DEF SpawnStep
  <2>3. task' \in [Node -> {"none", "aborted"} \cup Live \cup Finished]
    BY <1>0, <1>4 DEF SpawnStep, PlanTypes, Live
  <2>4. \A n \in Node : HeldBy(n) \subseteq OutgoingEdges(flow, n) /\ HeldBy(n) \subseteq flow.edges
    BY DEF HeldBy, OutgoingEdges
  <2>5. hold' \in [Node -> SUBSET flow.edges]
    BY <1>0, <1>4, <2>4 DEF SpawnStep, PlanTypes
  <2>6. PlanTypes'
    <3>1. \A n \in Node : hold'[n] \subseteq OutgoingEdges(flow, n)
      BY <1>0, <2>2, <2>4 DEF PlanTypes
    <3> QED
      BY <1>0, <2>1, <2>3, <2>5, <3>1 DEF PlanTypes, HasInput, IncomingEdges, OutgoingEdges, Running
  <2>7. step \in DOMAIN plan /\ \A i \in DOMAIN plan : plan[i] \subseteq Node
    BY <1>0, <2>1, PlanFacts DEF PlanTypes
  <2>8. \A i \in DOMAIN plan : i # step => \A n \in plan[i] : task'[n] = task[n]
    BY <1>0, <2>2, <2>7, PlanFacts
  <2>9. \A n \in Node \ Placed(plan) : task'[n] = task[n]
    BY <2>2, <2>7 DEF Placed
  <2>10. StepProgress'
    BY <1>0, <2>1 DEF PlanInv, StepProgress, Running
  <2>11. StepsInOrder'
    BY <2>1, <2>8, <2>9, PlanFacts, <1>0 DEF PlanInv, StepsInOrder, PlanTypes
  <2>12. SendersDropped'
    BY <2>1 DEF PlanInv, SendersDropped
  <2>13. ErrorIsReal'
    BY <2>1 DEF ErrorIsReal
  <2> QED
    BY <2>6, <2>10, <2>11, <2>12, <2>13 DEF PlanInv
<1>5. CASE Arm
  <2>1. /\ UNCHANGED <<flow, plan, step, awaited, senders, task, hold, cancel>>
        /\ pc = "arm" /\ pc' = "look" /\ woken' = FALSE /\ on' \subseteq plan[step]
        /\ \A m, n \in on' : m = n
    BY <1>5 DEF Arm
  <2>2. PlanTypes'
    BY <1>0, <2>1 DEF PlanTypes, HasInput, IncomingEdges, OutgoingEdges, Running
  <2>3. StepProgress' /\ StepsInOrder' /\ SendersDropped' /\ ErrorIsReal'
    BY <2>1 DEF PlanInv, StepProgress, StepsInOrder, SendersDropped, ErrorIsReal, Running
  <2> QED
    BY <2>2, <2>3 DEF PlanInv
<1>6. CASE Look /\ cancel = "no"
  <2>1. /\ UNCHANGED <<flow, plan, step, awaited, on, woken, senders, task, hold, cancel>>
        /\ pc = "look" /\ pc' = "park"
    BY <1>6 DEF Look
  <2>2. PlanTypes'
    BY <1>0, <2>1 DEF PlanTypes, HasInput, IncomingEdges, OutgoingEdges, Running
  <2>3. StepProgress' /\ StepsInOrder' /\ SendersDropped' /\ ErrorIsReal'
    BY <2>1 DEF PlanInv, StepProgress, StepsInOrder, SendersDropped, ErrorIsReal, Running
  <2> QED
    BY <2>2, <2>3 DEF PlanInv
<1>7. CASE CancelStep /\ cancel # "no"
  BY <1>7, ReturnKeeps DEF CancelStep
<1>8. CASE JoinErr
  <2>1. \E n \in flow.enabled : task[n] = "failed"
    <3>1. PICK n \in on : task[n] = "failed"
      BY <1>8 DEF JoinErr
    <3>2. on \subseteq plan[step] /\ step \in DOMAIN plan
      BY <1>0, <1>8, PlanFacts DEF JoinErr, PlanInv, StepProgress, Running, PlanTypes
    <3>3. plan[step] \subseteq flow.enabled
      BY <1>0, <3>2, PlanFacts
    <3> QED
      BY <3>1, <3>2, <3>3
  <2> QED
    BY <1>8, <2>1, ReturnKeeps DEF JoinErr
<1>9. CASE JoinOk
  <2>1. /\ UNCHANGED <<flow, plan, woken, task, hold, cancel>>
        /\ pc = "park" /\ on' = {} /\ awaited' = awaited \cup on
        /\ \E n \in on : task[n] \in {"done", "skipped"}
    BY <1>9 DEF JoinOk
  <2>2. step \in DOMAIN plan /\ awaited \subseteq plan[step] /\ on \subseteq plan[step]
    BY <1>0, <2>1, PlanFacts DEF PlanInv, StepProgress, Running, PlanTypes
  <2>3. \A n \in awaited' : task[n] \in {"done", "skipped"}
    BY <2>1 DEF PlanInv, StepProgress, Running
  <2>4. CASE awaited' # plan[step]
    <3>1. pc' = "arm" /\ UNCHANGED <<step, senders>>
      BY <1>9, <2>4 DEF JoinOk, StepJoined
    <3>2. PlanTypes'
      BY <1>0, <2>1, <3>1 DEF PlanTypes, HasInput, IncomingEdges, OutgoingEdges, Running
    <3>3. StepProgress'
      BY <2>1, <2>2, <2>3, <3>1 DEF PlanInv, StepProgress, Running
    <3>4. StepsInOrder' /\ SendersDropped' /\ ErrorIsReal'
      BY <2>1, <3>1 DEF PlanInv, StepsInOrder, SendersDropped, ErrorIsReal
    <3> QED
      BY <3>2, <3>3, <3>4 DEF PlanInv
  <2>5. CASE awaited' = plan[step]
    <3>1. pc' = "head" /\ step' = step + 1 /\ DropSenders
      BY <1>9, <2>5 DEF JoinOk, StepJoined
    <3>2. DOMAIN plan = 1 .. Len(plan) /\ Len(plan) \in Nat
      BY <1>0, PlanFacts
    <3>3. PlanTypes'
      <4>1. step' \in 1 .. Len(plan) + 1
        BY <2>2, <3>1, <3>2
      <4>2. senders' \subseteq {n \in flow.enabled : HasInput(n)}
        BY <1>0, <3>1 DEF DropSenders, PlanTypes
      <4> QED
        BY <1>0, <2>1, <3>1, <4>1, <4>2 DEF PlanTypes, HasInput, IncomingEdges, OutgoingEdges, Running
    <3>4. StepProgress'
      BY <2>1, <3>1 DEF StepProgress, Running
    <3>5. StepsInOrder'
      <4>1. ASSUME NEW i \in DOMAIN plan, i < step + 1, NEW n \in plan[i]
            PROVE  task[n] \in {"done", "skipped"}
        <5>1. i < step \/ i = step
          BY <2>2, <3>2, <4>1
        <5> QED
          BY <2>3, <2>5, <4>1, <5>1 DEF PlanInv, StepsInOrder
      <4>2. \A i \in DOMAIN plan : i >= step + 1 => \A n \in plan[i] : task[n] = "none"
        BY <2>2, <3>2 DEF PlanInv, StepsInOrder
      <4>3. \A n \in Node \ Placed(plan) : task[n] = "none"
        BY DEF PlanInv, StepsInOrder
      <4> QED
        BY <2>1, <2>2, <3>1, <3>2, <4>1, <4>2, <4>3 DEF StepsInOrder
    <3>6. SendersDropped'
      <4>1. ASSUME NEW i \in DOMAIN plan, i < step + 1, NEW e \in flow.edges, e.from \in plan[i]
            PROVE  e.to \notin senders'
        <5>1. CASE i < step
          BY <3>1, <4>1, <5>1 DEF PlanInv, SendersDropped, DropSenders
        <5>2. CASE i = step
          BY <3>1, <4>1, <5>2 DEF DropSenders
        <5> QED
          BY <2>2, <3>2, <4>1, <5>1, <5>2
      <4> QED
        BY <2>1, <3>1, <4>1 DEF SendersDropped
    <3>7. ErrorIsReal'
      BY <2>1, <3>1 DEF ErrorIsReal
    <3> QED
      BY <3>3, <3>4, <3>5, <3>6, <3>7 DEF PlanInv
  <2> QED
    BY <2>4, <2>5
<1>10. CASE StoreFlag \/ NotifyWaiters
  <2>1. /\ UNCHANGED <<flow, plan, pc, step, awaited, on, senders, task, hold>>
        /\ cancel' \in {"flag", "yes"} /\ woken' \in BOOLEAN
    BY <1>0, <1>10 DEF StoreFlag, NotifyWaiters, driverVars, PlanTypes
  <2>2. PlanTypes'
    BY <1>0, <2>1 DEF PlanTypes, HasInput, IncomingEdges, OutgoingEdges, Running
  <2>3. StepProgress' /\ StepsInOrder' /\ SendersDropped' /\ ErrorIsReal'
    BY <2>1 DEF PlanInv, StepProgress, StepsInOrder, SendersDropped, ErrorIsReal, Running
  <2> QED
    BY <2>2, <2>3 DEF PlanInv
<1>11. CASE WakeCancelled
  <2>1. CancelStep /\ cancel # "no"
    BY <1>0, <1>11 DEF WakeCancelled, PlanTypes
  <2> QED
    BY <1>7, <2>1
<1>12. ASSUME NEW n \in Node, Work(n) \/ Abort(n) PROVE PlanInv'
  BY <1>0, <1>12, TaskSteps, TaskKeeps
<1>13. CASE Look
  BY <1>6, <1>7, <1>13 DEF Look
<1> QED
  BY <1>1, <1>2, <1>3, <1>4, <1>5, <1>8, <1>9, <1>10, <1>11, <1>12, <1>13 DEF Next, Driver

----------------------------------------------------------------------------
(* The theorems.                                                             *)

(***************************************************************************)
(* The strengthening: where the driver is in the plan tells what every task *)
(* has done, and whose senders are left.                                    *)
(***************************************************************************)
THEOREM PlanInvariant == Spec => []PlanInv
BY PlanInvInit, PlanInvStep, PTL DEF Spec

\* It makes the steps of a plan barriers.
LEMMA Barriers == PlanInv => StepsAreBarriers
<1> SUFFICES ASSUME PlanInv, NEW e \in flow.edges, task[e.to] # "none"
             PROVE  task[e.from] \in {"done", "skipped"}
  BY DEF StepsAreBarriers
<1>1. PlanTypes
  BY DEF PlanInv
<1>2. e.to \in Node
  BY <1>1, PlanExecutionAssumption DEF PlanTypes
<1>3. PICK i \in DOMAIN plan : e.to \in plan[i]
  BY <1>2 DEF PlanInv, StepsInOrder, Placed
<1>4. DOMAIN plan = 1 .. Len(plan) /\ Len(plan) \in Nat /\ step \in Nat
  BY <1>1, PlanFacts DEF PlanTypes
<1>5. i <= step
  BY <1>3, <1>4 DEF PlanInv, StepsInOrder
<1>6. PICK j \in 1 .. i - 1 : e.from \in plan[j]
  BY <1>1, <1>3, PlanFacts
<1>7. j \in DOMAIN plan /\ j < step
  BY <1>3, <1>4, <1>5
<1> QED
  BY <1>6, <1>7 DEF PlanInv, StepsInOrder

(***************************************************************************)
(* By the time a task runs, every node its node depends on has finished     *)
(* without error and every sender of its channel is gone.                   *)
(***************************************************************************)
THEOREM StepsSequential == Spec => []StepsAreSequential
<1>1. PlanInv => ChannelClosedBehindTask
  <2> SUFFICES ASSUME PlanInv, NEW n \in flow.nodes, task[n] \in Live
               PROVE  ~TxOpen(n)
    BY DEF ChannelClosedBehindTask
  <2>1. PlanTypes /\ flow.nodes \subseteq Node
    BY PlanFacts DEF PlanInv
  <2>2. task[n] # "none"
    BY DEF Live
  <2>3. ASSUME NEW m \in flow.nodes, task[m] \in Live, NEW e \in hold[m], e.to = n
        PROVE  FALSE
    <3>1. e \in flow.edges /\ e.from = m
      BY <2>1 DEF PlanTypes, OutgoingEdges
    <3>2. task[m] \in {"done", "skipped"}
      BY <2>2, <2>3, <3>1, Barriers DEF StepsAreBarriers
    <3> QED
      BY <2>3, <3>2 DEF Live
  <2>4. ASSUME n \in senders PROVE FALSE
    <3>1. PICK e \in flow.edges : e.to = n
      BY <2>1, <2>4 DEF PlanTypes, HasInput, IncomingEdges
    <3>2. PICK i \in DOMAIN plan : n \in plan[i]
      BY <2>1, <2>2 DEF PlanInv, StepsInOrder, Placed
    <3>3. DOMAIN plan = 1 .. Len(plan) /\ Len(plan) \in Nat /\ step \in Nat
      BY <2>1, PlanFacts DEF PlanTypes
    <3>4. i <= step
      BY <2>2, <3>2, <3>3 DEF PlanInv, StepsInOrder
    <3>5. PICK j \in 1 .. i - 1 : e.from \in plan[j]
      BY <2>1, <3>1, <3>2, PlanFacts
    <3>6. j \in DOMAIN plan /\ j < step
      BY <3>2, <3>3, <3>4
    <3> QED
      BY <2>4, <3>1, <3>5, <3>6 DEF PlanInv, SendersDropped
  <2> QED
    BY <2>3, <2>4 DEF TxOpen
<1>2. PlanInv => StepsAreSequential
  BY <1>1, Barriers DEF StepsAreSequential
<1> QED
  BY <1>2, PlanInvariant, PTL

(***************************************************************************)
(* An execution that nobody cancelled and that returned Ok has run or       *)
(* skipped every node, and one that returned an error has a failed node.    *)
(***************************************************************************)
THEOREM ResultsAreHonest == Spec => []ResultIsHonest
<1>1. PlanInv => ResultIsHonest
  <2> SUFFICES ASSUME PlanInv PROVE ResultIsHonest
    OBVIOUS
  <2>1. PlanTypes
    BY DEF PlanInv
  <2>2. ASSUME pc = "ok", cancel = "no", NEW n \in flow.enabled
        PROVE  task[n] \in {"done", "skipped"}
    <3>1. step = Len(plan) + 1
      BY <2>2 DEF PlanInv, StepProgress
    <3>2. PICK i \in DOMAIN plan : n \in plan[i]
      BY <2>1, PlanFacts DEF Placed
    <3>3. i < step
      BY <2>1, <3>1, <3>2, PlanFacts
    <3> QED
      BY <3>2, <3>3 DEF PlanInv, StepsInOrder
  <2>3. ErrorIsReal
    BY DEF PlanInv
  <2> QED
    BY <2>2, <2>3 DEF ResultIsHonest, ErrorIsReal
<1> QED
  BY <1>1, PlanInvariant, PTL

----------------------------------------------------------------------------
(* How often an edge occurs in a list of deliveries.                         *)

Positions(s, e) == {i \in DOMAIN s : s[i] = e}
Occurs(s, e) == Cardinality(Positions(s, e))

Moved(A, k) == {i + k : i \in A}

\* Moving a set of numbers along keeps its size.
LEMMA MovedCard ==
    ASSUME NEW A \in SUBSET Int, IsFiniteSet(A), NEW k \in Int
    PROVE  IsFiniteSet(Moved(A, k)) /\ Cardinality(Moved(A, k)) = Cardinality(A)
<1> DEFINE f == [i \in A |-> i + k]
<1>1. f \in [A -> Moved(A, k)]
  BY DEF Moved
<1>2. \A i, j \in A : f[i] = f[j] => i = j
  OBVIOUS
<1>3. \A y \in Moved(A, k) : \E i \in A : f[i] = y
  BY DEF Moved
<1>4. ExistsBijection(A, Moved(A, k))
  <2> HIDE DEF f
  <2>1. f \in Bijection(A, Moved(A, k))
    BY <1>1, <1>2, <1>3 DEF Bijection, Injection, Surjection, IsInjective
  <2> QED
    BY <2>1 DEF ExistsBijection
<1> QED
  BY <1>4, FS_Bijection

\* A sequence holds an element at finitely many places.
LEMMA PositionsFinite ==
    ASSUME NEW S, NEW s \in Seq(S), NEW e
    PROVE  /\ Positions(s, e) \in SUBSET (1 .. Len(s)) /\ IsFiniteSet(Positions(s, e))
           /\ Occurs(s, e) \in Nat /\ Len(s) \in Nat
<1>1. Len(s) \in Nat /\ Positions(s, e) \in SUBSET (1 .. Len(s))
  BY DEF Positions
<1>2. IsFiniteSet(1 .. Len(s))
  BY <1>1, FS_Interval
<1> QED
  BY <1>1, <1>2, FS_Subset, FS_CardinalityType DEF Occurs

\* Nothing occurs in the empty sequence.
LEMMA OccursInNothing ==
    ASSUME NEW e
    PROVE  Occurs(<< >>, e) = 0
<1>1. Positions(<< >>, e) = {}
  BY DEF Positions
<1> QED
  BY <1>1, FS_EmptySet DEF Occurs

\* Occurrences count the first element and then the rest.
LEMMA OccursInTail ==
    ASSUME NEW S, NEW s \in Seq(S), s # << >>, NEW e
    PROVE  Occurs(s, e) = Occurs(Tail(s), e) + IF Head(s) = e THEN 1 ELSE 0
<1> DEFINE rest == Moved(Positions(Tail(s), e), 1)
<1>1. /\ Tail(s) \in Seq(S) /\ Len(Tail(s)) = Len(s) - 1 /\ Len(s) \in Nat /\ Len(s) > 0
      /\ \A i \in 1 .. Len(Tail(s)) : Tail(s)[i] = s[i + 1]
      /\ Head(s) = s[1] /\ DOMAIN s = 1 .. Len(s) /\ DOMAIN Tail(s) = 1 .. Len(Tail(s))
  <2>1. Len(s) \in Nat /\ Len(s) # 0
    BY EmptySeq
  <2> QED
    BY <2>1, HeadTailProperties
<1>2. /\ Positions(Tail(s), e) \in SUBSET (1 .. Len(Tail(s))) /\ IsFiniteSet(Positions(Tail(s), e))
      /\ Occurs(Tail(s), e) \in Nat
  BY <1>1, PositionsFinite
<1>3. IsFiniteSet(rest) /\ Cardinality(rest) = Occurs(Tail(s), e)
  <2>1. Positions(Tail(s), e) \in SUBSET Int
    BY <1>1, <1>2
  <2> QED
    BY <1>2, <2>1, MovedCard DEF Occurs
<1>4. 1 \notin rest
  BY <1>1, <1>2 DEF Moved
<1>5. Positions(s, e) = IF Head(s) = e THEN rest \cup {1} ELSE rest
  <2>1. ASSUME NEW i \in 1 .. Len(s), i # 1 PROVE s[i] = e <=> i \in rest
    <3>1. i - 1 \in 1 .. Len(Tail(s)) /\ (i - 1) + 1 = i
      BY <1>1, <2>1
    <3>2. Tail(s)[i - 1] = s[i]
      BY <1>1, <3>1
    <3>3. s[i] = e => i \in rest
      <4>1. s[i] = e => i - 1 \in Positions(Tail(s), e)
        BY <1>1, <3>1, <3>2 DEF Positions
      <4> QED
        BY <3>1, <4>1 DEF Moved
    <3>4. i \in rest => s[i] = e
      <4>1. i \in rest => i - 1 \in Positions(Tail(s), e)
        BY <1>1, <1>2 DEF Moved
      <4> QED
        BY <3>2, <4>1 DEF Positions
    <3> QED
      BY <3>3, <3>4
  <2>2. rest \subseteq 1 .. Len(s)
    BY <1>1, <1>2 DEF Moved
  <2>3. 1 \in 1 .. Len(s)
    BY <1>1
  <2> HIDE DEF rest
  <2>4. \A i : i \in Positions(s, e) <=> i \in 1 .. Len(s) /\ s[i] = e
    BY <1>1 DEF Positions
  <2> QED
    BY <1>1, <1>4, <2>1, <2>2, <2>3, <2>4
<1> HIDE DEF rest
<1>6. CASE Head(s) = e
  <2>1. Cardinality(rest \cup {1}) = Cardinality(rest) + 1
    BY <1>3, <1>4, FS_AddElement
  <2> QED
    BY <1>3, <1>5, <1>6, <2>1 DEF Occurs
<1>7. CASE Head(s) # e
  BY <1>2, <1>3, <1>5, <1>7 DEF Occurs
<1> QED
  BY <1>6, <1>7

\* They add up over two sequences.
LEMMA OccursInBoth ==
    ASSUME NEW S, NEW s \in Seq(S), NEW t \in Seq(S), NEW e
    PROVE  Occurs(s \o t, e) = Occurs(s, e) + Occurs(t, e)
<1> DEFINE later == Moved(Positions(t, e), Len(s))
           both == s \o t
<1>1. /\ both \in Seq(S) /\ Len(both) = Len(s) + Len(t)
      /\ \A i \in 1 .. Len(s) + Len(t) : both[i] = IF i <= Len(s) THEN s[i] ELSE t[i - Len(s)]
      /\ DOMAIN both = 1 .. Len(both) /\ DOMAIN s = 1 .. Len(s) /\ DOMAIN t = 1 .. Len(t)
  BY ConcatProperties
<1>2. /\ Positions(s, e) \in SUBSET (1 .. Len(s)) /\ IsFiniteSet(Positions(s, e))
      /\ Positions(t, e) \in SUBSET (1 .. Len(t)) /\ IsFiniteSet(Positions(t, e))
      /\ Len(s) \in Nat /\ Len(t) \in Nat /\ Occurs(s, e) \in Nat /\ Occurs(t, e) \in Nat
  BY PositionsFinite
<1>3. IsFiniteSet(later) /\ Cardinality(later) = Occurs(t, e)
  <2>1. Positions(t, e) \in SUBSET Int /\ Len(s) \in Int
    BY <1>2
  <2> QED
    BY <1>2, <2>1, MovedCard DEF Occurs
<1>4. later \subseteq (Len(s) + 1) .. (Len(s) + Len(t))
  BY <1>2 DEF Moved
<1>5. Positions(s, e) \cap later = {}
  BY <1>2, <1>4
<1>6. \A i \in 1 .. Len(t) : t[i] = e <=> i + Len(s) \in later
  <2> SUFFICES ASSUME NEW i \in 1 .. Len(t) PROVE t[i] = e <=> i + Len(s) \in later
    OBVIOUS
  <2>1. t[i] = e <=> i \in Positions(t, e)
    BY <1>1 DEF Positions
  <2>2. i \in Positions(t, e) <=> i + Len(s) \in later
    BY <1>2 DEF Moved
  <2> QED
    BY <2>1, <2>2
<1> HIDE DEF later, both
<1>7. Positions(both, e) = Positions(s, e) \cup later
  <2>1. ASSUME NEW i \in 1 .. Len(s) PROVE i \in Positions(both, e) <=> i \in Positions(s, e) \cup later
    <3>1. i \in 1 .. Len(s) + Len(t) /\ both[i] = s[i] /\ i \notin later
      BY <1>1, <1>2, <1>4
    <3> QED
      BY <1>1, <3>1 DEF Positions
  <2>2. ASSUME NEW i \in (Len(s) + 1) .. (Len(s) + Len(t))
        PROVE  i \in Positions(both, e) <=> i \in Positions(s, e) \cup later
    <3>1. /\ i \in 1 .. Len(s) + Len(t) /\ both[i] = t[i - Len(s)] /\ i \notin Positions(s, e)
          /\ i - Len(s) \in 1 .. Len(t) /\ (i - Len(s)) + Len(s) = i
      BY <1>1, <1>2
    <3>2. both[i] = e <=> i \in later
      BY <1>6, <3>1
    <3> QED
      BY <1>1, <3>1, <3>2 DEF Positions
  <2>3. Positions(both, e) \subseteq 1 .. Len(s) + Len(t)
    BY <1>1 DEF Positions
  <2>4. 1 .. Len(s) + Len(t) = (1 .. Len(s)) \cup ((Len(s) + 1) .. (Len(s) + Len(t)))
    BY <1>2
  <2>5. Positions(s, e) \cup later \subseteq 1 .. Len(s) + Len(t)
    <3>1. 1 .. Len(s) \subseteq 1 .. Len(s) + Len(t) /\ (Len(s) + 1) .. (Len(s) + Len(t)) \subseteq 1 .. Len(s) + Len(t)
      BY <1>2
    <3> QED
      BY <1>2, <1>4, <3>1
  <2> QED
    BY <2>1, <2>2, <2>3, <2>4, <2>5
<1>8. Cardinality(Positions(s, e) \cup later) = Cardinality(Positions(s, e)) + Cardinality(later)
  <2>1. PICK P : P = Positions(s, e)
    OBVIOUS
  <2>2. IsFiniteSet(P) /\ P \cap later = {} /\ Cardinality(P) \in Nat /\ Cardinality(later) \in Nat
    BY <1>2, <1>3, <1>5, <2>1, FS_CardinalityType
  <2>3. Cardinality(P \cup later) = Cardinality(P) + Cardinality(later) - Cardinality(P \cap later)
    BY <1>3, <2>2, FS_Union
  <2>4. Cardinality(P \cap later) = 0
    BY <2>2, FS_EmptySet
  <2> QED
    BY <2>1, <2>2, <2>3, <2>4
<1> QED
  BY <1>3, <1>7, <1>8 DEF Occurs, both

----------------------------------------------------------------------------
(* The order of the edge list holds each edge once.                          *)

\* Edges that their ids tell apart.
Numbered(edges) == (\A e \in edges : e.id \in Nat) /\ \A d, e \in edges : d.id = e.id => d = e

Before(edges, e) == {d \in edges : d.id < e.id}
Rank(edges, e) == Cardinality(Before(edges, e))

\* An edge with a larger number ranks higher.
LEMMA RankGrows ==
    ASSUME NEW edges, IsFiniteSet(edges), Numbered(edges), NEW d \in edges, NEW e \in edges, d.id < e.id
    PROVE  Rank(edges, d) < Rank(edges, e)
<1>1. d.id \in Nat /\ e.id \in Nat /\ \A c \in edges : c.id \in Nat
  BY DEF Numbered
<1>2. Before(edges, d) \in SUBSET Before(edges, e) /\ d \in Before(edges, e) /\ d \notin Before(edges, d)
  BY <1>1 DEF Before
<1>3. IsFiniteSet(Before(edges, e)) /\ IsFiniteSet(Before(edges, d))
  BY FS_Subset DEF Before
<1>4. /\ Cardinality(Before(edges, d)) <= Cardinality(Before(edges, e))
      /\ Cardinality(Before(edges, d)) # Cardinality(Before(edges, e))
  BY <1>2, <1>3, FS_Subset
<1> QED
  BY <1>3, <1>4, FS_CardinalityType DEF Rank

\* Ranks number the edges from 0 without a gap.
LEMMA RankIsPlace ==
    ASSUME NEW edges, IsFiniteSet(edges), Numbered(edges)
    PROVE  /\ Cardinality(edges) \in Nat
           /\ \A e \in edges : Rank(edges, e) \in 0 .. Cardinality(edges) - 1
           /\ \A d, e \in edges : Rank(edges, d) = Rank(edges, e) => d = e
           /\ \A i \in 0 .. Cardinality(edges) - 1 : \E e \in edges : Rank(edges, e) = i
<1> DEFINE N == Cardinality(edges)
           places == 0 .. N - 1
           rank == [e \in edges |-> Rank(edges, e)]
<1>1. N \in Nat
  BY FS_CardinalityType
<1>2. ASSUME NEW e \in edges PROVE Rank(edges, e) \in places
  <2>1. Before(edges, e) \in SUBSET (edges \ {e})
    BY DEF Before, Numbered
  <2>2. IsFiniteSet(edges \ {e}) /\ Cardinality(edges \ {e}) = N - 1
    BY FS_RemoveElement
  <2>3. IsFiniteSet(Before(edges, e)) /\ Cardinality(Before(edges, e)) <= N - 1
    BY <2>1, <2>2, FS_Subset
  <2>4. Cardinality(Before(edges, e)) \in Nat
    BY <2>3, FS_CardinalityType
  <2> QED
    BY <1>1, <2>3, <2>4 DEF Rank
<1>3. ASSUME NEW d \in edges, NEW e \in edges, Rank(edges, d) = Rank(edges, e) PROVE d = e
  <2>1. d.id \in Nat /\ e.id \in Nat /\ (d.id = e.id => d = e)
    BY DEF Numbered
  <2>2. Rank(edges, d) \in Nat /\ Rank(edges, e) \in Nat
    BY <1>1, <1>2
  <2>3. ~(d.id < e.id) /\ ~(e.id < d.id)
    BY <1>3, <2>2, RankGrows
  <2> QED
    BY <2>1, <2>3
<1>4. IsFiniteSet(places) /\ Cardinality(places) = N
  <2>1. 0 \in Int /\ N - 1 \in Int
    BY <1>1
  <2>2. IsFiniteSet(places) /\ Cardinality(places) = IF 0 > N - 1 THEN 0 ELSE (N - 1) - 0 + 1
    BY <2>1, FS_Interval
  <2> QED
    BY <1>1, <2>2
<1>5. rank \in Injection(edges, places)
  <2>1. rank \in [edges -> places] /\ \A d, e \in edges : rank[d] = rank[e] => d = e
    BY <1>2, <1>3
  <2> HIDE DEF rank, places
  <2> QED
    BY <2>1 DEF Injection, IsInjective
<1>6. rank \in Surjection(edges, places)
  <2> HIDE DEF rank, places
  <2> QED
    BY <1>4, <1>5, FS_Injection
<1>7. \A i \in places : \E e \in edges : rank[e] = i
  <2> HIDE DEF rank, places
  <2> QED
    BY <1>6 DEF Surjection
<1> QED
  BY <1>1, <1>2, <1>3, <1>7

\* InOrder lists every edge once.
LEMMA InOrderOnce ==
    ASSUME NEW edges, IsFiniteSet(edges), Numbered(edges)
    PROVE  /\ InOrder(edges) \in Seq(edges)
           /\ \A e : Occurs(InOrder(edges), e) = IF e \in edges THEN 1 ELSE 0
<1> DEFINE N == Cardinality(edges)
           s == InOrder(edges)
<1>1. /\ N \in Nat
      /\ \A e \in edges : Rank(edges, e) \in 0 .. N - 1
      /\ \A d, e \in edges : Rank(edges, d) = Rank(edges, e) => d = e
      /\ \A i \in 0 .. N - 1 : \E e \in edges : Rank(edges, e) = i
  BY RankIsPlace
<1>2. s = [i \in 1 .. N |-> CHOOSE e \in edges : Rank(edges, e) = i - 1]
  BY DEF InOrder, Rank, Before
<1>3. ASSUME NEW i \in 1 .. N PROVE s[i] \in edges /\ Rank(edges, s[i]) = i - 1
  <2>1. \E e \in edges : Rank(edges, e) = i - 1
    BY <1>1
  <2>2. s[i] = CHOOSE e \in edges : Rank(edges, e) = i - 1
    BY <1>2
  <2> HIDE DEF s
  <2> QED
    BY <2>1, <2>2
<1> HIDE DEF s
<1>4. s \in [1 .. N -> edges]
  BY <1>2, <1>3
<1>5. s \in Seq(edges) /\ DOMAIN s = 1 .. N
  BY <1>1, <1>4
<1>6. ASSUME NEW e PROVE Occurs(s, e) = IF e \in edges THEN 1 ELSE 0
  <2>1. CASE e \in edges
    <3>1. PICK k \in 1 .. N : k = Rank(edges, e) + 1
      BY <1>1, <2>1
    <3>2. \A i \in 1 .. N : s[i] = e <=> i = k
      <4> SUFFICES ASSUME NEW i \in 1 .. N PROVE s[i] = e <=> i = k
        OBVIOUS
      <4>1. s[i] \in edges /\ Rank(edges, s[i]) = i - 1 /\ Rank(edges, e) = k - 1
        BY <1>1, <1>3, <2>1, <3>1
      <4>2. s[i] = e => i = k
        BY <4>1
      <4>3. i = k => s[i] = e
        BY <1>1, <2>1, <4>1
      <4> QED
        BY <4>2, <4>3
    <3>3. Positions(s, e) = {k}
      BY <1>5, <3>2 DEF Positions
    <3> QED
      BY <2>1, <3>3, FS_Singleton DEF Occurs
  <2>2. CASE e \notin edges
    <3>1. Positions(s, e) = {}
      BY <1>3, <1>5, <2>2 DEF Positions
    <3> QED
      BY <2>2, <3>1, FS_EmptySet DEF Occurs
  <2> QED
    BY <2>1, <2>2
<1> QED
  BY <1>5, <1>6 DEF s

----------------------------------------------------------------------------
(* What a call's messages are delivered as.                                  *)

Joins(g, S, ss, n) ==
    g \in [1 .. n -> Seq(S)] /\ \A i \in 1 .. n : g[i] = IF i = 1 THEN ss[i] ELSE g[i - 1] \o ss[i]

\* Joining sequences one after the other has a result at every stage.
LEMMA JoinsExist ==
    ASSUME NEW S, NEW ss \in Seq(Seq(S)), NEW N \in Nat, N <= Len(ss)
    PROVE  \E g : Joins(g, S, ss, N)
<1> DEFINE T == {n \in Nat : n <= N => \E g : Joins(g, S, ss, n)}
<1>0. Len(ss) \in Nat /\ \A i \in 1 .. Len(ss) : ss[i] \in Seq(S)
  BY ElementOfSeq
<1>1. 0 \in T
  <2> DEFINE g == [i \in 1 .. 0 |-> ss[i]]
  <2>1. g \in [1 .. 0 -> Seq(S)] /\ \A i \in 1 .. 0 : g[i] = IF i = 1 THEN ss[i] ELSE g[i - 1] \o ss[i]
    OBVIOUS
  <2>2. Joins(g, S, ss, 0)
    BY <2>1 DEF Joins
  <2> QED
    BY <2>2
<1>2. ASSUME NEW n \in Nat, n \in T PROVE n + 1 \in T
  <2> SUFFICES ASSUME n + 1 <= N PROVE \E g : Joins(g, S, ss, n + 1)
    OBVIOUS
  <2>1. PICK g : Joins(g, S, ss, n)
    BY <1>2
  <2>2. g \in [1 .. n -> Seq(S)] /\ \A i \in 1 .. n : g[i] = IF i = 1 THEN ss[i] ELSE g[i - 1] \o ss[i]
    BY <2>1 DEF Joins
  <2> DEFINE last == IF n = 0 THEN ss[1] ELSE g[n] \o ss[n + 1]
             h == [i \in 1 .. n + 1 |-> IF i = n + 1 THEN last ELSE g[i]]
  <2>3. last \in Seq(S)
    <3>1. n + 1 \in 1 .. Len(ss)
      BY <1>0
    <3>2. CASE n = 0
      BY <1>0, <3>1, <3>2
    <3>3. CASE n # 0
      <4>1. g[n] \in Seq(S) /\ ss[n + 1] \in Seq(S)
        BY <1>0, <2>2, <3>1, <3>3
      <4> QED
        BY <3>3, <4>1, ConcatProperties
    <3> QED
      BY <3>2, <3>3
  <2>4. h \in [1 .. n + 1 -> Seq(S)]
    <3> HIDE DEF last
    <3> QED
      BY <2>2, <2>3
  <2>5. ASSUME NEW i \in 1 .. n + 1 PROVE h[i] = IF i = 1 THEN ss[i] ELSE h[i - 1] \o ss[i]
    <3>1. CASE i = n + 1 /\ n = 0
      BY <3>1
    <3>2. CASE i = n + 1 /\ n # 0
      <4>1. i # 1 /\ i - 1 \in 1 .. n /\ i - 1 = n /\ i - 1 # n + 1 /\ i - 1 \in 1 .. n + 1
        BY <3>2
      <4> QED
        BY <3>2, <4>1
    <3>3. CASE i # n + 1
      <4>1. i \in 1 .. n /\ (i # 1 => i - 1 \in 1 .. n + 1 /\ i - 1 # n + 1)
        BY <2>5, <3>3
      <4>2. h[i] = g[i] /\ (i # 1 => h[i - 1] = g[i - 1])
        BY <3>3, <4>1
      <4> HIDE DEF h
      <4> QED
        BY <2>2, <4>1, <4>2
    <3> QED
      BY <3>1, <3>2, <3>3
  <2> HIDE DEF h
  <2> QED
    BY <2>4, <2>5 DEF Joins
<1>3. Nat \subseteq T
  <2> HIDE DEF T
  <2> QED
    BY <1>1, <1>2, NumberInduction
<1> QED
  BY <1>3

\* FlattenSeq joins the lists one by one.
LEMMA FlattenJoins ==
    ASSUME NEW S, NEW ss \in Seq(Seq(S)), Len(ss) # 0
    PROVE  \E g : Joins(g, S, ss, Len(ss)) /\ FlattenSeq(ss) = g[Len(ss)]
<1> DEFINE N == Len(ss)
           Step(g) == [i \in 1 .. N |-> IF i = 1 THEN ss[i] ELSE g[i - 1] \o ss[i]]
<1>1. N \in Nat
  OBVIOUS
<1>2. PICK g : Joins(g, S, ss, N)
  BY <1>1, JoinsExist
<1>3. g = Step(g)
  BY <1>2 DEF Joins
<1>4. PICK s : s = CHOOSE flatten : flatten = Step(flatten)
  OBVIOUS
<1>5. FlattenSeq(ss) = s[N]
  BY <1>4 DEF FlattenSeq
<1>6. s = Step(s)
  <2> HIDE DEF Step
  <2> QED
    BY <1>3, <1>4
<1> DEFINE T == {n \in Nat : n + 1 <= N => s[n + 1] = g[n + 1]}
<1>7. 0 \in T
  <2> SUFFICES ASSUME 1 <= N PROVE s[1] = g[1]
    OBVIOUS
  <2>1. 1 \in 1 .. N
    BY <1>1
  <2> QED
    BY <1>2, <1>6, <2>1 DEF Joins
<1>8. ASSUME NEW n \in Nat, n \in T PROVE n + 1 \in T
  <2> SUFFICES ASSUME n + 2 <= N PROVE s[n + 2] = g[n + 2]
    OBVIOUS
  <2>1. n + 2 \in 1 .. N /\ (n + 2) - 1 = n + 1 /\ n + 2 # 1 /\ s[n + 1] = g[n + 1]
    BY <1>1, <1>8
  <2>2. g[n + 2] = g[n + 1] \o ss[n + 2]
    BY <1>2, <2>1 DEF Joins
  <2>3. s[n + 2] = s[n + 1] \o ss[n + 2]
    <3>1. s = [i \in 1 .. N |-> IF i = 1 THEN ss[i] ELSE s[i - 1] \o ss[i]]
      BY <1>6
    <3> QED
      BY <2>1, <3>1
  <2> QED
    BY <2>1, <2>2, <2>3
<1>9. Nat \subseteq T
  <2> HIDE DEF T
  <2> QED
    BY <1>7, <1>8, NumberInduction
<1>10. PICK m \in Nat : m + 1 = N
  <2>1. N - 1 \in Nat /\ (N - 1) + 1 = N
    BY <1>1
  <2> QED
    BY <2>1
<1>11. s[m + 1] = g[m + 1]
  <2>1. m \in T /\ m + 1 <= N
    BY <1>1, <1>9, <1>10
  <2> QED
    BY <2>1
<1> QED
  BY <1>2, <1>5, <1>10, <1>11

\* An edge occurs in the joined lists once for each list it is in.
LEMMA FlattenOccurs ==
    ASSUME NEW S, NEW ss \in Seq(Seq(S)), NEW e, \A i \in DOMAIN ss : Occurs(ss[i], e) \in {0, 1}
    PROVE  /\ FlattenSeq(ss) \in Seq(S)
           /\ Occurs(FlattenSeq(ss), e) = Cardinality({i \in DOMAIN ss : Occurs(ss[i], e) = 1})
<1> DEFINE N == Len(ss)
           In(n) == {i \in 1 .. n : Occurs(ss[i], e) = 1}
<1>1. N \in Nat /\ DOMAIN ss = 1 .. N /\ \A i \in 1 .. N : ss[i] \in Seq(S)
  BY ElementOfSeq
<1>2. CASE N = 0
  <2>1. ss = << >>
    BY <1>2, EmptySeq
  <2>2. FlattenSeq(ss) = << >>
    BY <1>2, <2>1 DEF FlattenSeq
  <2>3. {i \in DOMAIN ss : Occurs(ss[i], e) = 1} = {}
    BY <1>1, <1>2
  <2>4. << >> \in Seq(S) /\ Occurs(<< >>, e) = 0
    BY OccursInNothing
  <2> QED
    BY <2>2, <2>3, <2>4, FS_EmptySet
<1>3. CASE N # 0
  <2>1. PICK g : Joins(g, S, ss, N) /\ FlattenSeq(ss) = g[N]
    BY <1>3, FlattenJoins
  <2>2. /\ \A i \in 1 .. N : g[i] \in Seq(S)
        /\ \A i \in 1 .. N : g[i] = IF i = 1 THEN ss[i] ELSE g[i - 1] \o ss[i]
    BY <2>1 DEF Joins
  <2> DEFINE T == {n \in Nat : n + 1 <= N =>
                        IsFiniteSet(In(n + 1)) /\ Occurs(g[n + 1], e) = Cardinality(In(n + 1))}
  <2>3. ASSUME NEW n \in Nat, n <= N, IsFiniteSet(In(n)), n + 1 <= N
        PROVE  /\ IsFiniteSet(In(n + 1))
               /\ Cardinality(In(n + 1)) = Cardinality(In(n)) + Occurs(ss[n + 1], e)
    <3>1. n + 1 \in 1 .. N
      BY <1>1, <2>3
    <3>2. 1 .. n + 1 = (1 .. n) \cup {n + 1} /\ n + 1 \notin In(n)
      OBVIOUS
    <3>3. CASE Occurs(ss[n + 1], e) = 1
      <4>1. In(n + 1) = In(n) \cup {n + 1}
        BY <3>2, <3>3
      <4> HIDE DEF In
      <4>2. Cardinality(In(n) \cup {n + 1}) = Cardinality(In(n)) + 1 /\ IsFiniteSet(In(n) \cup {n + 1})
        BY <2>3, <3>2, FS_AddElement
      <4> QED
        BY <3>3, <4>1, <4>2
    <3>4. CASE Occurs(ss[n + 1], e) = 0
      <4>1. In(n + 1) = In(n)
        BY <3>2, <3>4
      <4>2. Cardinality(In(n)) \in Nat
        BY <2>3, FS_CardinalityType
      <4> HIDE DEF In
      <4> QED
        BY <2>3, <3>4, <4>1, <4>2
    <3> QED
      BY <1>1, <3>1, <3>3, <3>4
  <2>4. IsFiniteSet(In(0)) /\ Cardinality(In(0)) = 0
    <3>1. In(0) = {}
      OBVIOUS
    <3> QED
      BY <3>1, FS_EmptySet
  <2> HIDE DEF In
  <2>5. 0 \in T
    <3> SUFFICES ASSUME 1 <= N PROVE IsFiniteSet(In(1)) /\ Occurs(g[1], e) = Cardinality(In(1))
      OBVIOUS
    <3>1. 1 \in 1 .. N /\ 0 + 1 = 1 /\ 0 \in Nat
      BY <1>1
    <3>2. IsFiniteSet(In(1)) /\ Cardinality(In(1)) = 0 + Occurs(ss[1], e)
      BY <1>1, <2>3, <2>4, <3>1
    <3>3. Occurs(ss[1], e) \in Nat
      BY <1>1, <3>1
    <3> QED
      BY <2>2, <3>1, <3>2, <3>3
  <2>6. ASSUME NEW n \in Nat, n \in T PROVE n + 1 \in T
    <3> SUFFICES ASSUME n + 2 <= N PROVE IsFiniteSet(In(n + 2)) /\ Occurs(g[n + 2], e) = Cardinality(In(n + 2))
      OBVIOUS
    <3>1. /\ n + 2 \in 1 .. N /\ n + 1 \in 1 .. N /\ (n + 2) - 1 = n + 1 /\ n + 2 # 1
          /\ (n + 1) + 1 = n + 2 /\ n + 1 \in Nat /\ n + 1 <= N
      BY <1>1
    <3>2. IsFiniteSet(In(n + 1)) /\ Occurs(g[n + 1], e) = Cardinality(In(n + 1))
      BY <2>6, <3>1
    <3>3. IsFiniteSet(In(n + 2)) /\ Cardinality(In(n + 2)) = Cardinality(In(n + 1)) + Occurs(ss[n + 2], e)
      BY <2>3, <3>1, <3>2
    <3>4. g[n + 2] = g[n + 1] \o ss[n + 2]
      BY <2>2, <3>1
    <3>5. Occurs(g[n + 2], e) = Occurs(g[n + 1], e) + Occurs(ss[n + 2], e)
      BY <1>1, <2>2, <3>1, <3>4, OccursInBoth
    <3> QED
      BY <3>2, <3>3, <3>5
  <2>7. Nat \subseteq T
    <3> HIDE DEF T
    <3> QED
      BY <2>5, <2>6, NumberInduction
  <2>8. PICK m \in Nat : m + 1 = N
    <3>1. N - 1 \in Nat /\ (N - 1) + 1 = N
      BY <1>1, <1>3
    <3> QED
      BY <3>1
  <2>9. Occurs(g[N], e) = Cardinality(In(N))
    <3>1. m \in T /\ m + 1 <= N
      BY <1>1, <2>7, <2>8
    <3>2. Occurs(g[m + 1], e) = Cardinality(In(m + 1))
      BY <3>1
    <3> QED
      BY <2>8, <3>2
  <2>10. g[N] \in Seq(S)
    BY <1>1, <1>3, <2>2
  <2> QED
    BY <1>1, <2>1, <2>9, <2>10 DEF In
<1> QED
  BY <1>2, <1>3

\* Each message is delivered once along each edge it is routed to.
LEMMA DeliveriesAreDue ==
    ASSUME NEW held, IsFiniteSet(held), Numbered(held), NEW ports \in Seq(Port)
    PROVE  /\ Deliveries(held, ports) \in Seq(held)
           /\ \A e : Occurs(Deliveries(held, ports), e)
                        = Cardinality({i \in DOMAIN ports : e \in Targets(held, ports[i])})
<1> DEFINE ss == [i \in DOMAIN ports |-> InOrder(Targets(held, ports[i]))]
<1>1. ASSUME NEW p PROVE /\ InOrder(Targets(held, p)) \in Seq(held)
                         /\ \A e : Occurs(InOrder(Targets(held, p)), e) = IF e \in Targets(held, p) THEN 1 ELSE 0
  <2>1. Targets(held, p) \in SUBSET held
    BY DEF Targets
  <2>2. IsFiniteSet(Targets(held, p)) /\ Numbered(Targets(held, p))
    BY <2>1, FS_Subset DEF Numbered
  <2>3. PICK t : t = Targets(held, p)
    OBVIOUS
  <2>4. InOrder(t) \in Seq(t) /\ \A e : Occurs(InOrder(t), e) = IF e \in t THEN 1 ELSE 0
    BY <2>2, <2>3, InOrderOnce
  <2>5. Seq(t) \subseteq Seq(held)
    BY <2>1, <2>3
  <2> QED
    BY <2>3, <2>4, <2>5
<1>2. ss \in Seq(Seq(held)) /\ DOMAIN ss = DOMAIN ports
  <2>1. Len(ports) \in Nat /\ DOMAIN ports = 1 .. Len(ports)
    OBVIOUS
  <2>2. ss \in [1 .. Len(ports) -> Seq(held)]
    BY <1>1, <2>1
  <2> HIDE DEF ss
  <2> QED
    BY <2>1, <2>2
<1>3. Deliveries(held, ports) = FlattenSeq(ss)
  BY DEF Deliveries
<1>4. \A i \in DOMAIN ports : \A e : Occurs(ss[i], e) = IF e \in Targets(held, ports[i]) THEN 1 ELSE 0
  BY <1>1
<1> HIDE DEF ss
<1>5. ASSUME NEW e PROVE Occurs(FlattenSeq(ss), e) = Cardinality({i \in DOMAIN ports : e \in Targets(held, ports[i])})
  <2>1. \A i \in DOMAIN ss : Occurs(ss[i], e) \in {0, 1}
    BY <1>2, <1>4
  <2>2. {i \in DOMAIN ss : Occurs(ss[i], e) = 1} = {i \in DOMAIN ports : e \in Targets(held, ports[i])}
    BY <1>2, <1>4
  <2> QED
    BY <1>2, <2>1, <2>2, FlattenOccurs
<1>6. FlattenSeq(ss) \in Seq(held)
  <2>1. \A i \in DOMAIN ss : Occurs(ss[i], 0) \in {0, 1}
    BY <1>2, <1>4
  <2> QED
    BY <1>2, <2>1, FlattenOccurs
<1> QED
  BY <1>3, <1>5, <1>6

----------------------------------------------------------------------------
(* Adding up over a set of edges.                                            *)

Total(f, S) == FoldSet(LAMBDA e, sum : sum + f[e], 0, S)

First(s) == CHOOSE x \in s : TRUE
Rest(s) == s \ {First(s)}

\* t[s] is the sum of f over s.
AreTotals(t, f, S) ==
    /\ t \in [SUBSET S -> Nat]
    /\ t[{}] = 0
    /\ \A s \in SUBSET S : s # {} => t[s] = t[Rest(s)] + f[First(s)]

\* What taking one element out of a finite set leaves.
LEMMA FirstAndRest ==
    ASSUME NEW S, IsFiniteSet(S), NEW s \in SUBSET S, NEW n \in Nat
    PROVE  /\ s # {} => First(s) \in s /\ First(s) \in S /\ Rest(s) \in SUBSET S /\ Rest(s) # s
           /\ IsFiniteSet(s) /\ Cardinality(s) \in Nat
           /\ Cardinality(s) = 0 <=> s = {}
           /\ Cardinality(s) = n + 1 => s # {} /\ Cardinality(Rest(s)) = n
<1>1. s # {} => First(s) \in s
  BY DEF First
<1>2. IsFiniteSet(s)
  BY FS_Subset
<1>3. Cardinality(s) \in Nat /\ (Cardinality(s) = 0 <=> s = {})
  BY <1>2, FS_CardinalityType, FS_EmptySet
<1>4. Cardinality(s) = n + 1 => s # {} /\ Cardinality(Rest(s)) = n
  <2> SUFFICES ASSUME Cardinality(s) = n + 1 PROVE s # {} /\ Cardinality(Rest(s)) = n
    OBVIOUS
  <2>1. s # {}
    BY <1>3
  <2>2. Cardinality(s \ {First(s)}) = Cardinality(s) - 1
    BY <1>1, <1>2, <2>1, FS_RemoveElement
  <2> QED
    BY <2>1, <2>2 DEF Rest
<1> QED
  BY <1>1, <1>2, <1>3, <1>4 DEF Rest

\* A set has as many elements as a number.
LEMMA SetsByCardinality ==
    ASSUME NEW S, IsFiniteSet(S), NEW P,
           {} \in P,
           \A s \in SUBSET S : s # {} /\ Rest(s) \in P => s \in P
    PROVE  SUBSET S \subseteq P
<1> DEFINE T == {n \in Nat : \A s \in SUBSET S : Cardinality(s) = n => s \in P}
<1>1. 0 \in T
  BY FirstAndRest
<1>2. ASSUME NEW n \in Nat, n \in T PROVE n + 1 \in T
  <2> SUFFICES ASSUME NEW s \in SUBSET S, Cardinality(s) = n + 1 PROVE s \in P
    OBVIOUS
  <2>1. s # {} /\ Cardinality(Rest(s)) = n /\ Rest(s) \in SUBSET S
    BY FirstAndRest
  <2>2. Rest(s) \in P
    BY <1>2, <2>1
  <2> QED
    BY <2>1, <2>2
<1>3. Nat \subseteq T
  <2> HIDE DEF T
  <2> QED
    BY <1>1, <1>2, NumberInduction
<1> SUFFICES ASSUME NEW s \in SUBSET S PROVE s \in P
  OBVIOUS
<1>4. Cardinality(s) \in Nat
  BY FirstAndRest
<1> QED
  BY <1>3, <1>4

\* Adding up over a finite set has a result at every stage.
LEMMA TotalsExist ==
    ASSUME NEW S, IsFiniteSet(S), NEW f, \A e \in S : f[e] \in Nat
    PROVE  \E t : AreTotals(t, f, S)
<1> DEFINE Small(n) == {s \in SUBSET S : Cardinality(s) <= n}
           Good(t, n) == /\ t \in [Small(n) -> Nat] /\ t[{}] = 0
                         /\ \A s \in Small(n) : s # {} => t[s] = t[Rest(s)] + f[First(s)]
           T == {n \in Nat : \E t : Good(t, n)}
<1>0. /\ \A n \in Nat : {} \in Small(n)
      /\ \A n \in Nat : \A s \in Small(n) :
            s # {} => Rest(s) \in Small(n) /\ First(s) \in S
      /\ \A n \in Nat : \A s \in Small(n + 1) : Cardinality(s) = n + 1 => s # {} /\ Rest(s) \in Small(n)
      /\ \A n \in Nat : \A s \in Small(n + 1) : Cardinality(s) # n + 1 => s \in Small(n)
      /\ \A n \in Nat : Small(n) \subseteq Small(n + 1)
  <2>1. ASSUME NEW n \in Nat, NEW s \in Small(n), s # {} PROVE Rest(s) \in Small(n) /\ First(s) \in S
    <3>1. Cardinality(s) \in Nat /\ Cardinality(s) # 0 /\ Cardinality(s) <= n
      BY <2>1, FirstAndRest
    <3>2. PICK m \in Nat : Cardinality(s) = m + 1
      <4>1. Cardinality(s) - 1 \in Nat /\ Cardinality(s) = (Cardinality(s) - 1) + 1
        BY <3>1
      <4> QED
        BY <4>1
    <3>3. Cardinality(Rest(s)) = m /\ Rest(s) \in SUBSET S /\ First(s) \in S
      BY <2>1, <3>2, FirstAndRest
    <3> QED
      BY <3>1, <3>2, <3>3
  <2>2. \A n \in Nat : {} \in Small(n)
    BY FS_EmptySet
  <2>3. ASSUME NEW n \in Nat, NEW s \in Small(n + 1), Cardinality(s) = n + 1 PROVE s # {} /\ Rest(s) \in Small(n)
    <3>1. s # {} /\ Cardinality(Rest(s)) = n /\ Rest(s) \in SUBSET S
      BY <2>3, FirstAndRest
    <3> QED
      BY <3>1
  <2>4. ASSUME NEW n \in Nat, NEW s \in Small(n + 1), Cardinality(s) # n + 1 PROVE s \in Small(n)
    <3>1. Cardinality(s) \in Nat
      BY FirstAndRest
    <3> QED
      BY <2>4, <3>1
  <2>5. ASSUME NEW n \in Nat, NEW s \in Small(n) PROVE s \in Small(n + 1)
    <3>1. Cardinality(s) \in Nat
      BY FirstAndRest
    <3> QED
      BY <2>5, <3>1
  <2> HIDE DEF Small
  <2> QED
    BY <2>1, <2>2, <2>3, <2>4, <2>5
<1>1. 0 \in T
  <2> DEFINE t == [s \in Small(0) |-> 0]
  <2>1. \A s \in Small(0) : s = {}
    BY FirstAndRest
  <2>2. Good(t, 0)
    <3> HIDE DEF Small
    <3> QED
      BY <1>0, <2>1
  <2> QED
    BY <2>2
<1> HIDE DEF Small
<1>2. ASSUME NEW n \in Nat, n \in T PROVE n + 1 \in T
  <2>1. PICK t : Good(t, n)
    BY <1>2
  <2> DEFINE u == [s \in Small(n + 1) |-> IF Cardinality(s) = n + 1 THEN t[Rest(s)] + f[First(s)] ELSE t[s]]
  <2>2. u \in [Small(n + 1) -> Nat]
    <3> SUFFICES ASSUME NEW s \in Small(n + 1)
                 PROVE  (IF Cardinality(s) = n + 1 THEN t[Rest(s)] + f[First(s)] ELSE t[s]) \in Nat
      OBVIOUS
    <3>1. CASE Cardinality(s) = n + 1
      <4>1. s # {} /\ Rest(s) \in Small(n) /\ First(s) \in S
        BY <1>0, <3>1
      <4> QED
        BY <2>1, <3>1, <4>1
    <3>2. CASE Cardinality(s) # n + 1
      <4>1. s \in Small(n)
        BY <1>0, <3>2
      <4> QED
        BY <2>1, <3>2, <4>1
    <3> QED
      BY <3>1, <3>2
  <2>3. \A s \in Small(n) : u[s] = t[s]
    <3> SUFFICES ASSUME NEW s \in Small(n) PROVE u[s] = t[s]
      OBVIOUS
    <3>1. s \in Small(n + 1)
      BY <1>0
    <3>2. Cardinality(s) # n + 1
      <4>1. Cardinality(s) <= n /\ Cardinality(s) \in Nat
        BY FirstAndRest DEF Small
      <4> QED
        BY <4>1
    <3> QED
      BY <3>1, <3>2
  <2>4. u[{}] = 0
    BY <1>0, <2>1, <2>3
  <2>5. ASSUME NEW s \in Small(n + 1), s # {} PROVE u[s] = u[Rest(s)] + f[First(s)]
    <3>1. CASE Cardinality(s) = n + 1
      <4>1. Rest(s) \in Small(n)
        BY <1>0, <3>1
      <4>2. u[Rest(s)] = t[Rest(s)]
        BY <2>3, <4>1
      <4>3. u[s] = t[Rest(s)] + f[First(s)]
        BY <3>1
      <4> QED
        BY <4>2, <4>3
    <3>2. CASE Cardinality(s) # n + 1
      <4>1. s \in Small(n)
        BY <1>0, <3>2
      <4>2. Rest(s) \in Small(n)
        BY <1>0, <2>5, <4>1
      <4>3. t[s] = t[Rest(s)] + f[First(s)]
        BY <2>1, <2>5, <4>1
      <4> HIDE DEF u
      <4> QED
        BY <2>3, <4>1, <4>2, <4>3
    <3> QED
      BY <3>1, <3>2
  <2> HIDE DEF u
  <2>6. Good(u, n + 1)
    BY <2>2, <2>4, <2>5
  <2> QED
    BY <2>6
<1>3. Nat \subseteq T
  <2> HIDE DEF T
  <2> QED
    BY <1>1, <1>2, NumberInduction
<1>4. Cardinality(S) \in Nat
  BY FS_CardinalityType
<1>5. PICK t : Good(t, Cardinality(S))
  BY <1>3, <1>4
<1>6. Small(Cardinality(S)) = SUBSET S
  BY FS_Subset DEF Small
<1> QED
  BY <1>5, <1>6 DEF AreTotals

\* The fold computes them.
LEMMA TotalIs ==
    ASSUME NEW S, IsFiniteSet(S), NEW f, \A e \in S : f[e] \in Nat
    PROVE  \E t : AreTotals(t, f, S) /\ Total(f, S) = t[S]
<1> DEFINE Step(t) == [s \in SUBSET S |-> IF s = {} THEN 0 ELSE t[Rest(s)] + f[First(s)]]
<1>1. PICK t : AreTotals(t, f, S)
  BY TotalsExist
<1>2. t = Step(t)
  <2>1. t \in [SUBSET S -> Nat]
    BY <1>1 DEF AreTotals
  <2>2. \A s \in SUBSET S : t[s] = IF s = {} THEN 0 ELSE t[Rest(s)] + f[First(s)]
    BY <1>1 DEF AreTotals
  <2> QED
    BY <2>1, <2>2
<1>3. PICK r : r = CHOOSE iter : iter = Step(iter)
  OBVIOUS
<1>4. Total(f, S) = r[S]
  BY <1>3 DEF Total, FoldSet, MapThenFoldSet, First, Rest
<1>5. r = Step(r)
  <2> HIDE DEF Step
  <2> QED
    BY <1>2, <1>3
<1> DEFINE P == {s \in SUBSET S : r[s] = t[s]}
<1>6. r = [s \in SUBSET S |-> IF s = {} THEN 0 ELSE r[Rest(s)] + f[First(s)]]
  BY <1>5
<1>7. {} \in P
  BY <1>1, <1>6 DEF AreTotals
<1>8. ASSUME NEW s \in SUBSET S, s # {}, Rest(s) \in P PROVE s \in P
  <2>1. r[s] = r[Rest(s)] + f[First(s)]
    BY <1>6, <1>8
  <2>2. t[s] = t[Rest(s)] + f[First(s)]
    BY <1>1, <1>8 DEF AreTotals
  <2> QED
    BY <1>8, <2>1, <2>2
<1>9. SUBSET S \subseteq P
  <2> HIDE DEF P
  <2> QED
    BY <1>7, <1>8, SetsByCardinality
<1>10. r[S] = t[S]
  BY <1>9
<1> QED
  BY <1>1, <1>4, <1>10

\* Zeroes add up to zero.
LEMMA TotalOfNothing ==
    ASSUME NEW S, IsFiniteSet(S), NEW f, \A e \in S : f[e] \in Nat, \A e \in S : f[e] = 0
    PROVE  Total(f, S) = 0
<1>1. PICK t : AreTotals(t, f, S) /\ Total(f, S) = t[S]
  BY TotalIs
<1> DEFINE P == {s \in SUBSET S : t[s] = 0}
<1>2. {} \in P
  BY <1>1 DEF AreTotals
<1>3. ASSUME NEW s \in SUBSET S, s # {}, Rest(s) \in P PROVE s \in P
  <2>1. t[s] = t[Rest(s)] + f[First(s)]
    BY <1>1, <1>3 DEF AreTotals
  <2>2. First(s) \in S
    BY <1>3 DEF First
  <2> QED
    BY <1>3, <2>1, <2>2
<1>4. SUBSET S \subseteq P
  <2> HIDE DEF P
  <2> QED
    BY <1>2, <1>3, SetsByCardinality
<1> QED
  BY <1>1, <1>4

\* A total depends on its terms only, and grows with one of them.
LEMMA TotalOfSame ==
    ASSUME NEW S, IsFiniteSet(S), NEW f, \A e \in S : f[e] \in Nat, NEW g, NEW one,
           \A e \in S : g[e] = IF e = one THEN f[e] + 1 ELSE f[e]
    PROVE  Total(g, S) = IF one \in S THEN Total(f, S) + 1 ELSE Total(f, S)
<1>1. PICK t : AreTotals(t, f, S) /\ Total(f, S) = t[S]
  BY TotalIs
<1>0. \A e \in S : g[e] \in Nat
  OBVIOUS
<1>2. PICK u : AreTotals(u, g, S) /\ Total(g, S) = u[S]
  BY <1>0, TotalIs
<1> DEFINE P == {s \in SUBSET S : u[s] = IF one \in s THEN t[s] + 1 ELSE t[s]}
<1>3. {} \in P
  BY <1>1, <1>2 DEF AreTotals
<1>4. ASSUME NEW s \in SUBSET S, s # {}, Rest(s) \in P PROVE s \in P
  <2>1. t[s] = t[Rest(s)] + f[First(s)] /\ u[s] = u[Rest(s)] + g[First(s)]
    BY <1>1, <1>2, <1>4 DEF AreTotals
  <2>2. First(s) \in S /\ First(s) \in s /\ Rest(s) \in SUBSET S /\ (one \in Rest(s) <=> one \in s /\ one # First(s))
    BY <1>4 DEF First, Rest
  <2>3. t[Rest(s)] \in Nat /\ f[First(s)] \in Nat
    BY <1>1, <2>2 DEF AreTotals
  <2>4. u[Rest(s)] = IF one \in Rest(s) THEN t[Rest(s)] + 1 ELSE t[Rest(s)]
    BY <1>4
  <2>5. g[First(s)] = IF First(s) = one THEN f[First(s)] + 1 ELSE f[First(s)]
    BY <2>2
  <2>6. u[s] = IF one \in s THEN t[s] + 1 ELSE t[s]
    BY <2>1, <2>2, <2>3, <2>4, <2>5
  <2> QED
    BY <2>6
<1>5. SUBSET S \subseteq P
  <2> HIDE DEF P
  <2> QED
    BY <1>3, <1>4, SetsByCardinality
<1> QED
  BY <1>1, <1>2, <1>5

\* Natural numbers add up to one.
LEMMA TotalIsNumber ==
    ASSUME NEW S, IsFiniteSet(S), NEW f, \A e \in S : f[e] \in Nat
    PROVE  Total(f, S) \in Nat
<1>1. PICK t : AreTotals(t, f, S) /\ Total(f, S) = t[S]
  BY TotalIs
<1> QED
  BY <1>1 DEF AreTotals

----------------------------------------------------------------------------
(* Where every message is.                                                   *)

MessageTypes ==
    /\ queue \in [Node -> 0 .. BufferSize]
    /\ owed \in [Edges -> Nat] /\ carried \in [Edges -> Nat] /\ handled \in [Node -> Nat]
    /\ out = [n \in Node |-> out[n]]
    /\ \A n \in Node : out[n] \in Seq(hold[n])
    /\ aborting \subseteq flow.enabled /\ awaited \subseteq Node /\ on \subseteq Node

\* A task has something to send only while it sends.
OutIsForSending == \A n \in Node : task[n] \notin {"send", "aborted"} => out[n] = << >>

\* What is carried to a node is handled or waits, and the state of its task
\* tells whether there was something.
InputsCounted ==
    \A n \in flow.nodes : HasInput(n) =>
        /\ CarriedTo(n) = handled[n] + queue[n]
        /\ task[n] \in {"busy", "hung", "send", "next", "done", "failed"} => handled[n] > 0
        /\ task[n] \in {"none", "ready", "skipped"} => handled[n] = 0
        /\ task[n] \in {"done", "skipped"} => queue[n] = 0

\* A node keeps its sender until the first step that feeds it is over.
SendersKept ==
    ~Returned =>
        \A m \in flow.enabled :
            /\ HasInput(m)
            /\ \A d \in IncomingEdges(flow, m) : \A i \in DOMAIN plan : i < step => d.from \notin plan[i]
            => m \in senders

\* What a task owes to an edge is carried or still to be sent.
OutputsCounted ==
    \A n \in flow.enabled :
        /\ task[n] = "none" => \A e \in OutgoingEdges(flow, n) : owed[e] = 0 /\ carried[e] = 0
        /\ task[n] \in Live \cup {"done"} /\ FullyWired(n) /\ ~Returned =>
                /\ hold[n] = OutgoingEdges(flow, n)
                /\ \A e \in OutgoingEdges(flow, n) : owed[e] = carried[e] + Occurs(out[n], e)

MessageInv == MessageTypes /\ OutIsForSending /\ InputsCounted /\ SendersKept /\ OutputsCounted

\* What a flow's edges are like.
LEMMA EdgeFacts ==
    ASSUME flow \in Flows
    PROVE  /\ flow.edges \subseteq Edges /\ IsFiniteSet(flow.edges) /\ Numbered(flow.edges)
           /\ \A e \in flow.edges : e.from \in flow.nodes /\ e.to \in flow.nodes
           /\ flow.nodes \subseteq Node /\ flow.enabled \subseteq flow.nodes
           /\ \A n : OutgoingEdges(flow, n) \in SUBSET flow.edges /\ IncomingEdges(flow, n) \in SUBSET flow.edges
           /\ \A n : IsFiniteSet(OutgoingEdges(flow, n)) /\ IsFiniteSet(IncomingEdges(flow, n))
           /\ \A n : Numbered(OutgoingEdges(flow, n))
<1>1. /\ flow.edges \subseteq Edges /\ IsFiniteSet(flow.edges) /\ Numbered(flow.edges)
      /\ \A e \in flow.edges : e.from \in flow.nodes /\ e.to \in flow.nodes
      /\ flow.nodes \subseteq Node /\ flow.enabled \subseteq flow.nodes
  BY PlanExecutionAssumption DEF Edges, Numbered
<1>2. \A n : OutgoingEdges(flow, n) \in SUBSET flow.edges /\ IncomingEdges(flow, n) \in SUBSET flow.edges
  BY DEF OutgoingEdges, IncomingEdges
<1>3. \A n : IsFiniteSet(OutgoingEdges(flow, n)) /\ IsFiniteSet(IncomingEdges(flow, n))
  BY <1>1, <1>2, FS_Subset
<1>4. \A n : Numbered(OutgoingEdges(flow, n))
  BY <1>1, <1>2 DEF Numbered
<1> QED
  BY <1>1, <1>2, <1>3, <1>4

\* What was carried to a node is the total over its incoming edges.
LEMMA CarriedIsTotal ==
    \A n : /\ CarriedTo(n) = Total(carried, IncomingEdges(flow, n))
           /\ (CarriedTo(n))' = Total(carried', IncomingEdges(flow', n))
<1>1. \A n : CarriedTo(n) = Total(carried, IncomingEdges(flow, n))
  BY DEF CarriedTo, Total
<1>2. (\A n : CarriedTo(n) = Total(carried, IncomingEdges(flow, n)))'
  BY <1>1, PTL
<1> QED
  BY <1>1, <1>2

\* A step that leaves flow and plan alone leaves the wiring alone.
LEMMA FlowIsFixed ==
    ASSUME UNCHANGED <<flow, plan>>
    PROVE  /\ \A n : (HasInput(n))' <=> HasInput(n)
           /\ \A n : (FullyWired(n))' <=> FullyWired(n)
           /\ \A n : OutgoingEdges(flow', n) = OutgoingEdges(flow, n) /\ IncomingEdges(flow', n) = IncomingEdges(flow, n)
BY DEF HasInput, FullyWired, StepOf, OutgoingEdges, IncomingEdges

\* The invariant of the messages holds at first.
LEMMA MessageInit == Init => MessageInv
<1> SUFFICES ASSUME Init PROVE MessageInv
  OBVIOUS
<1>0. flow \in Flows /\ BufferSize \in Nat
  BY PlanExecutionAssumption DEF Init
<1>1. MessageTypes
  BY <1>0 DEF Init, MessageTypes
<1>2. OutIsForSending
  BY DEF Init, OutIsForSending
<1>3. InputsCounted
  <2> SUFFICES ASSUME NEW n \in flow.nodes
               PROVE  /\ CarriedTo(n) = handled[n] + queue[n] /\ task[n] = "none" /\ handled[n] = 0
    BY DEF InputsCounted
  <2>1. n \in Node
    BY <1>0, EdgeFacts
  <2>2. task[n] = "none" /\ handled[n] = 0 /\ queue[n] = 0
    BY <2>1 DEF Init
  <2>3. PICK S : S = IncomingEdges(flow, n)
    OBVIOUS
  <2>4. IsFiniteSet(S) /\ S \subseteq Edges
    BY <1>0, <2>3, EdgeFacts
  <2>5. \A e \in S : carried[e] = 0
    BY <2>4 DEF Init
  <2>6. Total(carried, S) = 0
    BY <2>4, <2>5, TotalOfNothing
  <2> QED
    BY <2>2, <2>3, <2>6, CarriedIsTotal
<1>4. SendersKept
  BY DEF Init, SendersKept
<1>5. OutputsCounted
  <2> SUFFICES ASSUME NEW n \in flow.enabled
               PROVE  task[n] = "none" /\ \A e \in OutgoingEdges(flow, n) : owed[e] = 0 /\ carried[e] = 0
    BY DEF OutputsCounted, Live
  <2>1. n \in Node /\ OutgoingEdges(flow, n) \subseteq Edges
    BY <1>0, EdgeFacts
  <2> QED
    BY <2>1 DEF Init
<1> QED
  BY <1>1, <1>2, <1>3, <1>4, <1>5 DEF MessageInv

\* The driver and the canceller leave messages and tasks alone.
LEMMA MessagesUntouched ==
    ASSUME MessageInv, UNCHANGED <<flow, plan, queue, task, hold, out, owed, carried, handled>>,
           aborting' \subseteq flow.enabled, awaited' \subseteq Node, on' \subseteq Node,
           SendersKept', Returned => Returned'
    PROVE  MessageInv'
<1>0. /\ \A n : (HasInput(n))' <=> HasInput(n)
      /\ \A n : (FullyWired(n))' <=> FullyWired(n)
      /\ \A n : OutgoingEdges(flow', n) = OutgoingEdges(flow, n) /\ IncomingEdges(flow', n) = IncomingEdges(flow, n)
  BY FlowIsFixed
<1>1. MessageTypes' /\ OutIsForSending'
  BY DEF MessageInv, MessageTypes, OutIsForSending
<1>2. InputsCounted'
  <2>1. \A n : (CarriedTo(n))' = CarriedTo(n)
    <3>1. carried' = carried
      OBVIOUS
    <3> QED
      BY <1>0, <3>1, CarriedIsTotal, Zenon
  <2> QED
    BY <1>0, <2>1 DEF MessageInv, InputsCounted
<1>3. OutputsCounted'
  BY <1>0 DEF MessageInv, OutputsCounted
<1> QED
  BY <1>1, <1>2, <1>3 DEF MessageInv

\* The driver is in a step only while there is one.
LEMMA CurrentStep ==
    ASSUME PlanInv
    PROVE  /\ flow \in Flows /\ step \in Nat /\ step \in 1 .. Len(plan) + 1
           /\ pc \in Running => step \in DOMAIN plan
           /\ step \in DOMAIN plan => plan[step] \subseteq flow.enabled /\ plan[step] \subseteq Node
<1>1. PlanTypes
  BY DEF PlanInv
<1>2. flow \in Flows /\ step \in Nat /\ step \in 1 .. Len(plan) + 1
  BY <1>1, PlanFacts DEF PlanTypes
<1>3. pc \in Running => step \in DOMAIN plan
  BY <1>1, <1>2, PlanFacts DEF PlanInv, StepProgress
<1>4. step \in DOMAIN plan => plan[step] \subseteq flow.enabled /\ plan[step] \subseteq Node
  BY <1>1, PlanFacts
<1> QED
  BY <1>2, <1>3, <1>4

\* Returning from a plan keeps it.
LEMMA ReturnLeavesMessages ==
    ASSUME PlanInv, MessageInv, NEW result \in {"ok", "err"}, Return(result),
           UNCHANGED <<flow, plan, awaited, queue, task, hold, out, owed, carried, handled>>,
           aborting' \subseteq flow.enabled
    PROVE  MessageInv'
<1>1. pc' = result /\ on' = {} /\ Returned'
  BY DEF Return, Returned
<1>2. SendersKept'
  BY <1>1 DEF SendersKept
<1>3. awaited' \subseteq Node /\ on' \subseteq Node
  BY <1>1 DEF MessageInv, MessageTypes
<1> QED
  BY <1>1, <1>2, <1>3, MessagesUntouched

\* So does every step of the driver that starts no task.
LEMMA DriverKeepsMessages ==
    ASSUME PlanInv, MessageInv,
           \/ StopScheduling \/ Complete \/ Arm \/ Look \/ WakeCancelled \/ JoinOk \/ JoinErr
           \/ StoreFlag \/ NotifyWaiters
    PROVE  MessageInv'
<1> USE DEF input, taskVars, driverVars
<1>0. /\ flow \in Flows /\ step \in Nat /\ step \in 1 .. Len(plan) + 1
      /\ pc \in Running => step \in DOMAIN plan
      /\ step \in DOMAIN plan => plan[step] \subseteq flow.enabled /\ plan[step] \subseteq Node
  BY CurrentStep
<1>1. /\ aborting \subseteq flow.enabled /\ awaited \subseteq Node /\ on \subseteq Node /\ SendersKept
  BY DEF MessageInv, MessageTypes
<1>2. CASE StopScheduling \/ Complete
  <2>1. /\ Return("ok") /\ UNCHANGED <<flow, plan, awaited, queue, task, hold, out, owed, carried, handled>>
        /\ aborting' = aborting
    BY <1>2 DEF StopScheduling, Complete
  <2> QED
    BY <1>1, <2>1, ReturnLeavesMessages
<1>3. CASE JoinErr
  <2>1. /\ Return("err") /\ UNCHANGED <<flow, plan, awaited, queue, task, hold, out, owed, carried, handled>>
        /\ aborting' = aborting
    BY <1>3 DEF JoinErr
  <2> QED
    BY <1>1, <2>1, ReturnLeavesMessages
<1>4. CASE CancelStep /\ pc \in Running
  <2>1. /\ Return("ok") /\ UNCHANGED <<flow, plan, awaited, queue, task, hold, out, owed, carried, handled>>
        /\ aborting' = plan[step]
    BY <1>4 DEF CancelStep
  <2> QED
    BY <1>0, <1>4, <2>1, ReturnLeavesMessages
<1>5. ASSUME UNCHANGED <<flow, plan, step, senders, awaited, queue, task, hold, out, aborting, owed, carried, handled>>,
             on' \subseteq Node, Returned' <=> Returned
      PROVE  MessageInv'
  <2>1. SendersKept'
    <3>1. \A n : /\ (HasInput(n))' <=> HasInput(n)
                 /\ IncomingEdges(flow', n) = IncomingEdges(flow, n)
      BY <1>5, FlowIsFixed
    <3> QED
      BY <1>1, <1>5, <3>1 DEF SendersKept
  <2> QED
    BY <1>1, <1>5, <2>1, MessagesUntouched
<1>6. CASE Arm
  <2>1. /\ UNCHANGED <<flow, plan, step, senders, awaited, queue, task, hold, out, aborting, owed, carried, handled>>
        /\ pc = "arm" /\ pc' = "look" /\ on' \subseteq plan[step]
    BY <1>6 DEF Arm
  <2>2. on' \subseteq Node
    BY <1>0, <2>1 DEF Running
  <2> QED
    BY <1>5, <2>1, <2>2 DEF Returned
<1>7. CASE Look /\ cancel = "no"
  <2>1. /\ UNCHANGED <<flow, plan, step, senders, awaited, on, queue, task, hold, out, aborting, owed, carried, handled>>
        /\ pc = "look" /\ pc' = "park"
    BY <1>7 DEF Look
  <2> QED
    BY <1>1, <1>5, <2>1 DEF Returned
<1>8. CASE Look /\ cancel # "no"
  BY <1>4, <1>8 DEF Look, Running
<1>9. CASE WakeCancelled
  BY <1>4, <1>9 DEF WakeCancelled, Running
<1>10. CASE StoreFlag \/ NotifyWaiters
  <2>1. /\ UNCHANGED <<flow, plan, pc, step, senders, awaited, on, queue, task, hold, out, aborting, owed, carried, handled>>
    BY <1>10 DEF StoreFlag, NotifyWaiters
  <2> QED
    BY <1>1, <1>5, <2>1 DEF Returned
<1>11. CASE JoinOk
  <2>1. /\ UNCHANGED <<flow, plan, queue, task, hold, out, aborting, owed, carried, handled>>
        /\ pc = "park" /\ on' = {} /\ awaited' = awaited \cup on
        /\ \/ pc' = "head" /\ step' = step + 1 /\ senders' = senders \ {e.to : e \in {d \in flow.edges : d.from \in plan[step]}}
           \/ pc' = "arm" /\ step' = step /\ senders' = senders
    BY <1>11 DEF JoinOk, DropSenders
  <2>2. \A n : /\ (HasInput(n))' <=> HasInput(n)
               /\ IncomingEdges(flow', n) = IncomingEdges(flow, n)
    BY <2>1, FlowIsFixed
  <2>3. ~Returned /\ ~Returned' /\ step \in DOMAIN plan
    BY <1>0, <2>1 DEF Returned, Running
  <2>4. SendersKept'
    <3>1. ASSUME NEW m \in flow.enabled, HasInput(m),
                 \A d \in IncomingEdges(flow, m) : \A i \in DOMAIN plan : i < step' => d.from \notin plan[i]
          PROVE  m \in senders'
      <4>1. \A i \in DOMAIN plan : i \in Nat
        BY PlanFacts DEF PlanInv
      <4>2. \A d \in IncomingEdges(flow, m) : \A i \in DOMAIN plan : i < step => d.from \notin plan[i]
        BY <1>0, <2>1, <3>1, <4>1
      <4>3. m \in senders
        BY <1>1, <2>3, <3>1, <4>2 DEF SendersKept
      <4>4. CASE step' = step + 1 /\ senders' = senders \ {e.to : e \in {d \in flow.edges : d.from \in plan[step]}}
        <5>1. \A d \in IncomingEdges(flow, m) : d.from \notin plan[step]
          BY <1>0, <2>3, <3>1, <4>4
        <5> QED
          BY <4>3, <4>4, <5>1 DEF IncomingEdges
      <4> QED
        BY <2>1, <4>3, <4>4
    <3> QED
      BY <2>1, <2>2, <3>1 DEF SendersKept
  <2> QED
    BY <1>1, <2>1, <2>3, <2>4, MessagesUntouched
<1> QED
  BY <1>2, <1>3, <1>6, <1>7, <1>8, <1>9, <1>10, <1>11

\* The step a node is placed in is the only one.
LEMMA StepOfIs ==
    ASSUME PlanTypes, NEW i \in DOMAIN plan, NEW n \in plan[i]
    PROVE  StepOf(n) = i
<1>1. \A j \in DOMAIN plan : j # i => n \notin plan[j]
  BY PlanFacts
<1> QED
  BY <1>1 DEF StepOf

\* A node whose targets nobody fed before it gets a sender to each of them.
LEMMA WiredHoldsAll ==
    ASSUME PlanInv, SendersKept, ~Returned, step \in DOMAIN plan,
           NEW n \in plan[step], FullyWired(n)
    PROVE  HeldBy(n) = OutgoingEdges(flow, n)
<1>0. PlanTypes /\ flow \in Flows /\ step \in Nat
  BY CurrentStep DEF PlanInv
<1>1. DOMAIN plan = 1 .. Len(plan) /\ Len(plan) \in Nat
  BY <1>0, PlanFacts
<1> SUFFICES ASSUME NEW e \in OutgoingEdges(flow, n)
             PROVE  e.to \in senders
  BY DEF HeldBy
<1>2. e.to \in flow.enabled /\ e \in flow.edges /\ HasInput(e.to)
  BY DEF FullyWired, OutgoingEdges, HasInput, IncomingEdges
<1>3. ASSUME NEW d \in IncomingEdges(flow, e.to), NEW i \in DOMAIN plan, i < step, d.from \in plan[i]
      PROVE  FALSE
  <2>1. StepOf(d.from) = i /\ StepOf(n) = step
    BY <1>0, <1>3, StepOfIs
  <2> QED
    BY <1>0, <1>1, <1>3, <2>1 DEF FullyWired
<1> QED
  BY <1>2, <1>3 DEF SendersKept

\* So does starting the tasks of a step.
LEMMA SpawnKeepsMessages ==
    ASSUME PlanInv, MessageInv, SpawnStep
    PROVE  MessageInv'
<1>0. /\ PlanTypes /\ flow \in Flows /\ step \in Nat /\ step \in DOMAIN plan
      /\ plan[step] \subseteq flow.enabled /\ plan[step] \subseteq Node
  BY CurrentStep, PlanFacts DEF PlanInv, SpawnStep, PlanTypes
<1>1. /\ UNCHANGED <<flow, plan, step, senders, on, queue, out, aborting, owed, carried, handled>>
      /\ pc = "head" /\ pc' = "arm" /\ awaited' = {}
      /\ \A n \in Node : task'[n] = IF n \in plan[step] THEN "ready" ELSE task[n]
      /\ \A n \in Node : hold'[n] = IF n \in plan[step] THEN HeldBy(n) ELSE hold[n]
  BY DEF SpawnStep, input
<1>2. /\ \A n : (HasInput(n))' <=> HasInput(n)
      /\ \A n : (FullyWired(n))' <=> FullyWired(n)
      /\ \A n : OutgoingEdges(flow', n) = OutgoingEdges(flow, n) /\ IncomingEdges(flow', n) = IncomingEdges(flow, n)
      /\ ~Returned /\ ~Returned'
  BY <1>1, FlowIsFixed DEF Returned
<1>3. \A n \in plan[step] : task[n] = "none" /\ out[n] = << >>
  <2>1. \A n \in plan[step] : task[n] = "none"
    BY <1>0, <1>1 DEF PlanInv, StepsInOrder
  <2> QED
    BY <1>0, <2>1 DEF MessageInv, OutIsForSending
<1>4. MessageTypes'
  <2>1. ASSUME NEW n \in Node PROVE out[n] \in Seq(hold'[n])
    <3>1. CASE n \in plan[step]
      <4>1. << >> \in Seq(hold'[n])
        OBVIOUS
      <4> QED
        BY <1>3, <3>1, <4>1
    <3>2. CASE n \notin plan[step]
      BY <1>1, <3>2 DEF MessageInv, MessageTypes
    <3> QED
      BY <3>1, <3>2
  <2> QED
    BY <1>1, <2>1 DEF MessageInv, MessageTypes
<1>5. OutIsForSending'
  BY <1>1, <1>3 DEF MessageInv, OutIsForSending
<1>6. InputsCounted'
  <2>1. \A n : (CarriedTo(n))' = CarriedTo(n)
    <3>1. carried' = carried
      BY <1>1
    <3> QED
      BY <1>2, <3>1, CarriedIsTotal, Zenon
  <2>2. flow.nodes \subseteq Node /\ flow' = flow
    BY <1>0, <1>1, EdgeFacts
  <2> SUFFICES ASSUME NEW n \in flow.nodes, HasInput(n)
               PROVE  /\ CarriedTo(n) = handled[n] + queue[n]
                      /\ task'[n] \in {"busy", "hung", "send", "next", "done", "failed"} => handled[n] > 0
                      /\ task'[n] \in {"none", "ready", "skipped"} => handled[n] = 0
                      /\ task'[n] \in {"done", "skipped"} => queue[n] = 0
    BY <1>1, <1>2, <2>1, <2>2 DEF InputsCounted
  <2> QED
    BY <1>1, <1>3, <2>2 DEF MessageInv, InputsCounted
<1>7. SendersKept'
  BY <1>1, <1>2 DEF MessageInv, SendersKept
<1>8. OutputsCounted'
  <2>1. flow.enabled \subseteq Node /\ flow' = flow
    BY <1>0, <1>1, PlanFacts
  <2> SUFFICES ASSUME NEW n \in flow.enabled
               PROVE  /\ task'[n] = "none" => \A e \in OutgoingEdges(flow, n) : owed[e] = 0 /\ carried[e] = 0
                      /\ task'[n] \in Live \cup {"done"} /\ FullyWired(n) =>
                            /\ hold'[n] = OutgoingEdges(flow, n)
                            /\ \A e \in OutgoingEdges(flow, n) : owed[e] = carried[e] + Occurs(out[n], e)
    BY <1>1, <1>2, <2>1 DEF OutputsCounted
  <2>2. CASE n \in plan[step]
    <3>1. task'[n] = "ready" /\ hold'[n] = HeldBy(n) /\ task[n] = "none" /\ out[n] = << >>
      BY <1>1, <1>3, <2>1, <2>2
    <3>2. \A e \in OutgoingEdges(flow, n) : owed[e] = 0 /\ carried[e] = 0
      BY <3>1 DEF MessageInv, OutputsCounted
    <3>3. \A e : Occurs(out[n], e) = 0
      BY <3>1, OccursInNothing
    <3>4. FullyWired(n) => hold'[n] = OutgoingEdges(flow, n)
      BY <1>0, <1>2, <2>2, <3>1, WiredHoldsAll DEF MessageInv
    <3> QED
      BY <3>1, <3>2, <3>3, <3>4
  <2>3. CASE n \notin plan[step]
    BY <1>1, <1>2, <2>1, <2>3 DEF MessageInv, OutputsCounted
  <2> QED
    BY <2>2, <2>3
<1> QED
  BY <1>4, <1>5, <1>6, <1>7, <1>8 DEF MessageInv

\* A task that neither takes nor gives a message.
LEMMA TaskAloneMoves ==
    ASSUME PlanTypes, MessageInv, NEW n \in Node, NEW to,
           UNCHANGED <<flow, plan, pc, step, senders, awaited, on, queue, hold, out, aborting, owed, carried, handled>>,
           task' = [task EXCEPT ![n] = to],
           to \notin {"send", "aborted"} => out[n] = << >>,
           n \in flow.nodes /\ HasInput(n) =>
               /\ to \in {"busy", "hung", "send", "next", "done", "failed"} => handled[n] > 0
               /\ to \in {"none", "ready", "skipped"} => handled[n] = 0
               /\ to \in {"done", "skipped"} => queue[n] = 0,
           to # "none",
           to \in Live \cup {"done"} => task[n] \in Live \cup {"done"}
    PROVE  MessageInv'
<1>0. /\ \A m \in Node : task'[m] = IF m = n THEN to ELSE task[m]
      /\ flow.nodes \subseteq Node /\ flow.enabled \subseteq Node
  BY PlanFacts DEF PlanTypes
<1>1. /\ \A m : (HasInput(m))' <=> HasInput(m)
      /\ \A m : (FullyWired(m))' <=> FullyWired(m)
      /\ \A m : OutgoingEdges(flow', m) = OutgoingEdges(flow, m) /\ IncomingEdges(flow', m) = IncomingEdges(flow, m)
      /\ Returned' <=> Returned
  BY FlowIsFixed DEF Returned
<1>2. MessageTypes'
  BY DEF MessageInv, MessageTypes
<1>3. OutIsForSending'
  BY <1>0 DEF MessageInv, OutIsForSending
<1>4. InputsCounted'
  <2>1. \A m : (CarriedTo(m))' = CarriedTo(m)
    <3>1. carried' = carried
      OBVIOUS
    <3> QED
      BY <1>1, <3>1, CarriedIsTotal, Zenon
  <2>2. flow' = flow /\ handled' = handled /\ queue' = queue
    OBVIOUS
  <2> SUFFICES ASSUME NEW m \in flow.nodes, HasInput(m)
               PROVE  /\ CarriedTo(m) = handled[m] + queue[m]
                      /\ task'[m] \in {"busy", "hung", "send", "next", "done", "failed"} => handled[m] > 0
                      /\ task'[m] \in {"none", "ready", "skipped"} => handled[m] = 0
                      /\ task'[m] \in {"done", "skipped"} => queue[m] = 0
    BY <1>1, <2>1, <2>2 DEF InputsCounted
  <2>3. CarriedTo(m) = handled[m] + queue[m]
    BY DEF MessageInv, InputsCounted
  <2>4. CASE m = n
    BY <1>0, <2>3, <2>4
  <2>5. CASE m # n
    BY <1>0, <2>3, <2>5 DEF MessageInv, InputsCounted
  <2> QED
    BY <2>4, <2>5
<1>5. SendersKept'
  BY <1>1 DEF MessageInv, SendersKept
<1>6. OutputsCounted'
  <2> SUFFICES ASSUME NEW m \in flow.enabled
               PROVE  /\ task'[m] = "none" => \A e \in OutgoingEdges(flow, m) : owed[e] = 0 /\ carried[e] = 0
                      /\ task'[m] \in Live \cup {"done"} /\ FullyWired(m) /\ ~Returned =>
                            /\ hold[m] = OutgoingEdges(flow, m)
                            /\ \A e \in OutgoingEdges(flow, m) : owed[e] = carried[e] + Occurs(out[m], e)
    BY <1>1 DEF OutputsCounted
  <2>1. /\ task[m] = "none" => \A e \in OutgoingEdges(flow, m) : owed[e] = 0 /\ carried[e] = 0
        /\ task[m] \in Live \cup {"done"} /\ FullyWired(m) /\ ~Returned =>
              /\ hold[m] = OutgoingEdges(flow, m)
              /\ \A e \in OutgoingEdges(flow, m) : owed[e] = carried[e] + Occurs(out[m], e)
    BY DEF MessageInv, OutputsCounted
  <2> QED
    BY <1>0, <2>1
<1> QED
  BY <1>2, <1>3, <1>4, <1>5, <1>6 DEF MessageInv

\* So does a step of a task that moves no message between nodes.
LEMMA QuietTaskKeepsMessages ==
    ASSUME PlanInv, MessageInv, NEW n \in Node,
           TakeTrigger(n) \/ ChannelClosed(n) \/ Fail(n) \/ Hang(n) \/ Sent(n) \/ Abort(n)
    PROVE  MessageInv'
<1> USE DEF input, driverVars
<1>0. PlanTypes
  BY DEF PlanInv
<1>1. /\ task[n] \notin {"send", "aborted"} => out[n] = << >>
      /\ n \in flow.nodes /\ HasInput(n) =>
            /\ task[n] \in {"busy", "hung", "send", "next", "done", "failed"} => handled[n] > 0
            /\ task[n] \in {"none", "ready", "skipped"} => handled[n] = 0
  BY DEF MessageInv, OutIsForSending, InputsCounted
<1>2. CASE TakeTrigger(n)
  <2>1. /\ UNCHANGED <<flow, plan, pc, step, senders, awaited, on, queue, hold, out, aborting, owed, carried, handled>>
        /\ task' = [task EXCEPT ![n] = "busy"] /\ task[n] = "ready" /\ ~HasInput(n)
    BY <1>2 DEF TakeTrigger
  <2> QED
    BY <1>0, <1>1, <2>1, TaskAloneMoves DEF Live
<1>3. CASE Fail(n)
  <2>1. /\ UNCHANGED <<flow, plan, pc, step, senders, awaited, on, queue, hold, out, aborting, owed, carried, handled>>
        /\ task' = [task EXCEPT ![n] = "failed"] /\ task[n] = "busy"
    BY <1>3 DEF Fail
  <2> QED
    BY <1>0, <1>1, <2>1, TaskAloneMoves DEF Live
<1>4. CASE Hang(n)
  <2>1. /\ UNCHANGED <<flow, plan, pc, step, senders, awaited, on, queue, hold, out, aborting, owed, carried, handled>>
        /\ task' = [task EXCEPT ![n] = "hung"] /\ task[n] = "busy"
    BY <1>4 DEF Hang
  <2> QED
    BY <1>0, <1>1, <2>1, TaskAloneMoves DEF Live
<1>5. CASE Abort(n)
  <2>1. /\ UNCHANGED <<flow, plan, pc, step, senders, awaited, on, queue, hold, out, aborting, owed, carried, handled>>
        /\ task' = [task EXCEPT ![n] = "aborted"]
    BY <1>5 DEF Abort
  <2> QED
    BY <1>0, <2>1, TaskAloneMoves DEF Live
<1>6. CASE Sent(n) /\ HasInput(n)
  <2>1. /\ UNCHANGED <<flow, plan, pc, step, senders, awaited, on, queue, hold, out, aborting, owed, carried, handled>>
        /\ task' = [task EXCEPT ![n] = "next"] /\ task[n] = "send" /\ out[n] = << >>
    BY <1>6 DEF Sent
  <2> QED
    BY <1>0, <1>1, <2>1, TaskAloneMoves DEF Live
<1>7. CASE Sent(n) /\ ~HasInput(n)
  <2>1. /\ UNCHANGED <<flow, plan, pc, step, senders, awaited, on, queue, hold, out, aborting, owed, carried, handled>>
        /\ task' = [task EXCEPT ![n] = "done"] /\ task[n] = "send" /\ out[n] = << >>
    BY <1>7 DEF Sent
  <2> QED
    BY <1>0, <1>1, <1>7, <2>1, TaskAloneMoves DEF Live
<1>8. CASE ChannelClosed(n)
  <2>1. /\ UNCHANGED <<flow, plan, pc, step, senders, awaited, on, queue, hold, out, aborting, owed, carried, handled>>
        /\ queue[n] = 0 /\ HasInput(n)
        /\ \/ task[n] = "ready" /\ task' = [task EXCEPT ![n] = "skipped"]
           \/ task[n] = "next" /\ task' = [task EXCEPT ![n] = "done"]
    BY <1>8 DEF ChannelClosed
  <2>2. CASE task[n] = "ready" /\ task' = [task EXCEPT ![n] = "skipped"]
    BY <1>0, <1>1, <2>1, <2>2, TaskAloneMoves DEF Live
  <2>3. CASE task[n] = "next" /\ task' = [task EXCEPT ![n] = "done"]
    BY <1>0, <1>1, <2>1, <2>3, TaskAloneMoves DEF Live
  <2> QED
    BY <2>1, <2>2, <2>3
<1> QED
  BY <1>2, <1>3, <1>4, <1>5, <1>6, <1>7, <1>8

\* So does a task that receives a message.
LEMMA ReceiveKeepsMessages ==
    ASSUME PlanInv, MessageInv, NEW n \in Node, Receive(n)
    PROVE  MessageInv'
<1>0. /\ PlanTypes /\ flow.nodes \subseteq Node /\ flow.enabled \subseteq Node
      /\ queue \in [Node -> 0 .. BufferSize] /\ handled \in [Node -> Nat] /\ BufferSize \in Nat
  BY PlanFacts, PlanExecutionAssumption DEF PlanInv, MessageInv, MessageTypes
<1>1. /\ UNCHANGED <<flow, plan, pc, step, senders, awaited, on, hold, out, aborting, owed, carried>>
      /\ \A m \in Node : task'[m] = IF m = n THEN "busy" ELSE task[m]
      /\ \A m \in Node : queue'[m] = IF m = n THEN queue[m] - 1 ELSE queue[m]
      /\ \A m \in Node : handled'[m] = IF m = n THEN handled[m] + 1 ELSE handled[m]
      /\ task[n] \in {"ready", "next"} /\ HasInput(n) /\ queue[n] > 0
      /\ queue' \in [Node -> 0 .. BufferSize] /\ handled' \in [Node -> Nat]
  <2>1. queue[n] - 1 \in 0 .. BufferSize /\ handled[n] + 1 \in Nat
    BY <1>0 DEF Receive
  <2> QED
    BY <1>0, <2>1 DEF Receive, input, driverVars, PlanTypes
<1>2. /\ \A m : (HasInput(m))' <=> HasInput(m)
      /\ \A m : (FullyWired(m))' <=> FullyWired(m)
      /\ \A m : OutgoingEdges(flow', m) = OutgoingEdges(flow, m) /\ IncomingEdges(flow', m) = IncomingEdges(flow, m)
      /\ Returned' <=> Returned
  BY <1>1, FlowIsFixed DEF Returned
<1>3. MessageTypes'
  BY <1>1 DEF MessageInv, MessageTypes
<1>4. OutIsForSending'
  BY <1>1 DEF MessageInv, OutIsForSending
<1>5. InputsCounted'
  <2>1. \A m : (CarriedTo(m))' = CarriedTo(m)
    <3>1. carried' = carried
      BY <1>1
    <3> QED
      BY <1>2, <3>1, CarriedIsTotal, Zenon
  <2>2. flow' = flow
    BY <1>1
  <2> SUFFICES ASSUME NEW m \in flow.nodes, HasInput(m)
               PROVE  /\ CarriedTo(m) = handled'[m] + queue'[m]
                      /\ task'[m] \in {"busy", "hung", "send", "next", "done", "failed"} => handled'[m] > 0
                      /\ task'[m] \in {"none", "ready", "skipped"} => handled'[m] = 0
                      /\ task'[m] \in {"done", "skipped"} => queue'[m] = 0
    BY <1>2, <2>1, <2>2 DEF InputsCounted
  <2>3. /\ CarriedTo(m) = handled[m] + queue[m]
        /\ task[m] \in {"busy", "hung", "send", "next", "done", "failed"} => handled[m] > 0
        /\ task[m] \in {"none", "ready", "skipped"} => handled[m] = 0
        /\ task[m] \in {"done", "skipped"} => queue[m] = 0
    BY DEF MessageInv, InputsCounted
  <2>4. m \in Node /\ handled[m] \in Nat /\ queue[m] \in Nat
    BY <1>0
  <2> QED
    BY <1>1, <2>3, <2>4
<1>6. SendersKept'
  BY <1>1, <1>2 DEF MessageInv, SendersKept
<1>7. OutputsCounted'
  <2> SUFFICES ASSUME NEW m \in flow.enabled
               PROVE  /\ task'[m] = "none" => \A e \in OutgoingEdges(flow, m) : owed[e] = 0 /\ carried[e] = 0
                      /\ task'[m] \in Live \cup {"done"} /\ FullyWired(m) /\ ~Returned =>
                            /\ hold[m] = OutgoingEdges(flow, m)
                            /\ \A e \in OutgoingEdges(flow, m) : owed[e] = carried[e] + Occurs(out[m], e)
    BY <1>1, <1>2 DEF OutputsCounted
  <2>1. /\ task[m] = "none" => \A e \in OutgoingEdges(flow, m) : owed[e] = 0 /\ carried[e] = 0
        /\ task[m] \in Live \cup {"done"} /\ FullyWired(m) /\ ~Returned =>
              /\ hold[m] = OutgoingEdges(flow, m)
              /\ \A e \in OutgoingEdges(flow, m) : owed[e] = carried[e] + Occurs(out[m], e)
    BY DEF MessageInv, OutputsCounted
  <2> QED
    BY <1>0, <1>1, <2>1 DEF Live
<1> QED
  BY <1>3, <1>4, <1>5, <1>6, <1>7 DEF MessageInv

\* What is due on an edge is a number, and 0 on an edge of another node.
LEMMA DueIsNumber ==
    ASSUME NEW n, NEW e, NEW ports \in Seq(Port)
    PROVE  /\ Due(n, e, ports) \in Nat
           /\ e \notin OutgoingEdges(flow, n) => Due(n, e, ports) = 0
<1>1. Len(ports) \in Nat /\ DOMAIN ports = 1 .. Len(ports)
  OBVIOUS
<1>2. PICK due : due = {i \in DOMAIN ports : e \in Targets(OutgoingEdges(flow, n), ports[i])}
  OBVIOUS
<1>3. IsFiniteSet(due)
  <2>1. IsFiniteSet(DOMAIN ports)
    BY <1>1, FS_Interval
  <2> QED
    BY <1>2, <2>1, FS_Subset
<1>4. e \notin OutgoingEdges(flow, n) => due = {}
  BY <1>2 DEF Targets
<1> QED
  BY <1>2, <1>3, <1>4, FS_CardinalityType, FS_EmptySet DEF Due

\* A task that produces messages owes them and keeps the invariant.
LEMMA ProduceKeepsMessages ==
    ASSUME PlanInv, MessageInv, NEW n \in Node, NEW ports \in BoundedSeq(Port, MaxOut), Produce(n, ports)
    PROVE  MessageInv'
<1>0. /\ PlanTypes /\ flow \in Flows /\ flow.nodes \subseteq Node /\ flow.enabled \subseteq Node
      /\ owed \in [Edges -> Nat]
  BY PlanFacts DEF PlanInv, PlanTypes, MessageInv, MessageTypes
<1>1. ports \in Seq(Port)
  BY DEF BoundedSeq, SeqOf
<1>2. PICK sent : sent = Deliveries(hold[n], ports)
  OBVIOUS
<1>3. /\ UNCHANGED <<flow, plan, pc, step, senders, awaited, on, queue, hold, aborting, carried, handled>>
      /\ task[n] = "busy"
      /\ \A m \in Node : task'[m] = IF m = n THEN "send" ELSE task[m]
      /\ out' = [m \in Node |-> IF m = n THEN sent ELSE out[m]]
      /\ owed' = [e \in Edges |-> owed[e] + Due(n, e, ports)]
  <2>1. out = [m \in Node |-> out[m]]
    BY DEF MessageInv, MessageTypes
  <2>2. out' = [out EXCEPT ![n] = sent]
    BY <1>2 DEF Produce
  <2>3. out' = [m \in Node |-> IF m = n THEN sent ELSE out[m]]
    BY <2>1, <2>2
  <2> QED
    BY <1>0, <2>3 DEF Produce, input, driverVars, PlanTypes
<1>4. /\ \A m : (HasInput(m))' <=> HasInput(m)
      /\ \A m : (FullyWired(m))' <=> FullyWired(m)
      /\ \A m : OutgoingEdges(flow', m) = OutgoingEdges(flow, m) /\ IncomingEdges(flow', m) = IncomingEdges(flow, m)
      /\ Returned' <=> Returned
  BY <1>3, FlowIsFixed DEF Returned
<1>5. PICK held : held = hold[n] /\ held \subseteq OutgoingEdges(flow, n)
  BY <1>0 DEF PlanTypes
<1>6. IsFiniteSet(held) /\ Numbered(held)
  <2>1. IsFiniteSet(OutgoingEdges(flow, n)) /\ Numbered(OutgoingEdges(flow, n))
    BY <1>0, EdgeFacts
  <2> QED
    BY <1>5, <2>1, FS_Subset DEF Numbered
<1>7. /\ sent \in Seq(held)
      /\ \A e : Occurs(sent, e) = Cardinality({i \in DOMAIN ports : e \in Targets(held, ports[i])})
  BY <1>1, <1>2, <1>5, <1>6, DeliveriesAreDue
<1>8. \A e \in Edges : Due(n, e, ports) \in Nat
  BY <1>1, DueIsNumber
<1>9. MessageTypes'
  <2>1. owed' \in [Edges -> Nat]
    BY <1>0, <1>3, <1>8
  <2>2. \A m \in Node : out'[m] \in Seq(hold[m])
    BY <1>3, <1>5, <1>7 DEF MessageInv, MessageTypes
  <2>3. out' = [m \in Node |-> out'[m]]
    BY <1>3
  <2> QED
    BY <1>3, <2>1, <2>2, <2>3 DEF MessageInv, MessageTypes
<1>10. OutIsForSending'
  BY <1>3 DEF MessageInv, OutIsForSending
<1>11. InputsCounted'
  <2>1. \A m : (CarriedTo(m))' = CarriedTo(m)
    <3>1. carried' = carried
      BY <1>3
    <3> QED
      BY <1>4, <3>1, CarriedIsTotal, Zenon
  <2>2. flow' = flow /\ handled' = handled /\ queue' = queue
    BY <1>3
  <2> SUFFICES ASSUME NEW m \in flow.nodes, HasInput(m)
               PROVE  /\ CarriedTo(m) = handled[m] + queue[m]
                      /\ task'[m] \in {"busy", "hung", "send", "next", "done", "failed"} => handled[m] > 0
                      /\ task'[m] \in {"none", "ready", "skipped"} => handled[m] = 0
                      /\ task'[m] \in {"done", "skipped"} => queue[m] = 0
    BY <1>4, <2>1, <2>2 DEF InputsCounted
  <2> QED
    BY <1>0, <1>3 DEF MessageInv, InputsCounted
<1>12. SendersKept'
  BY <1>3, <1>4 DEF MessageInv, SendersKept
<1>13. OutputsCounted'
  <2> SUFFICES ASSUME NEW m \in flow.enabled
               PROVE  /\ task'[m] = "none" => \A e \in OutgoingEdges(flow, m) : owed'[e] = 0 /\ carried[e] = 0
                      /\ task'[m] \in Live \cup {"done"} /\ FullyWired(m) /\ ~Returned =>
                            /\ hold[m] = OutgoingEdges(flow, m)
                            /\ \A e \in OutgoingEdges(flow, m) : owed'[e] = carried[e] + Occurs(out'[m], e)
    BY <1>3, <1>4 DEF OutputsCounted
  <2>1. /\ task[m] = "none" => \A e \in OutgoingEdges(flow, m) : owed[e] = 0 /\ carried[e] = 0
        /\ task[m] \in Live \cup {"done"} /\ FullyWired(m) /\ ~Returned =>
              /\ hold[m] = OutgoingEdges(flow, m)
              /\ \A e \in OutgoingEdges(flow, m) : owed[e] = carried[e] + Occurs(out[m], e)
    BY DEF MessageInv, OutputsCounted
  <2>2. m \in Node /\ OutgoingEdges(flow, m) \subseteq Edges
    BY <1>0, EdgeFacts
  <2>3. CASE m # n
    <3>1. \A e \in OutgoingEdges(flow, m) : owed'[e] = owed[e]
      <4> SUFFICES ASSUME NEW e \in OutgoingEdges(flow, m) PROVE owed'[e] = owed[e]
        OBVIOUS
      <4>1. e \notin OutgoingEdges(flow, n)
        BY <2>3 DEF OutgoingEdges
      <4>2. Due(n, e, ports) = 0
        BY <1>1, <4>1, DueIsNumber
      <4> QED
        BY <1>0, <1>3, <2>2, <4>2
    <3> QED
      BY <1>3, <2>1, <2>2, <2>3, <3>1
  <2>4. CASE m = n
    <3>1. task'[m] = "send" /\ task[m] \in Live
      BY <1>3, <2>2, <2>4 DEF Live
    <3> SUFFICES ASSUME FullyWired(m), ~Returned, NEW e \in OutgoingEdges(flow, m)
                 PROVE  hold[m] = OutgoingEdges(flow, m) /\ owed'[e] = carried[e] + Occurs(out'[m], e)
      BY <2>1, <3>1
    <3>2. hold[m] = OutgoingEdges(flow, m) /\ owed[e] = carried[e] + Occurs(out[m], e)
      BY <2>1, <3>1
    <3>3. out[m] = << >> /\ Occurs(out[m], e) = 0
      <4>1. out[m] = << >>
        BY <1>3, <2>2, <2>4 DEF MessageInv, OutIsForSending
      <4> QED
        BY <4>1, OccursInNothing
    <3>4. Occurs(out'[m], e) = Due(n, e, ports)
      <4>1. held = OutgoingEdges(flow, n) /\ out'[m] = sent
        BY <1>3, <1>5, <2>2, <2>4, <3>2
      <4> QED
        BY <1>7, <4>1 DEF Due
    <3>5. owed'[e] = owed[e] + Due(n, e, ports) /\ owed[e] \in Nat /\ carried[e] \in Nat /\ Due(n, e, ports) \in Nat
      BY <1>0, <1>3, <1>8, <2>2 DEF MessageInv, MessageTypes
    <3> QED
      BY <3>2, <3>3, <3>4, <3>5
  <2> QED
    BY <2>3, <2>4
<1> QED
  BY <1>9, <1>10, <1>11, <1>12, <1>13 DEF MessageInv

\* While a task sends, the tasks of its targets do not exist yet.
LEMMA TargetsWait ==
    ASSUME PlanInv, NEW e \in flow.edges, task[e.from] \in Live, ~Returned
    PROVE  RxAlive(e.to)
<1>1. task[e.to] = "none"
  BY Barriers DEF StepsAreBarriers, Live
<1> QED
  BY <1>1 DEF RxAlive

\* A task that sends one of them keeps it.
LEMMA SendKeepsMessages ==
    ASSUME PlanInv, MessageInv, NEW n \in Node, Send(n)
    PROVE  MessageInv'
<1>0. /\ PlanTypes /\ flow \in Flows /\ flow.nodes \subseteq Node /\ flow.enabled \subseteq Node
      /\ queue \in [Node -> 0 .. BufferSize] /\ carried \in [Edges -> Nat] /\ BufferSize \in Nat
      /\ out[n] \in Seq(hold[n])
  BY PlanFacts, PlanExecutionAssumption DEF PlanInv, PlanTypes, MessageInv, MessageTypes
<1>1. PICK e : e = Head(out[n])
  OBVIOUS
<1>2. out[n] # << >> /\ task[n] = "send"
  BY DEF Send
<1>3. e \in hold[n] /\ Tail(out[n]) \in Seq(hold[n])
  <2>1. Len(out[n]) # 0
    BY <1>0, <1>2, EmptySeq
  <2> QED
    BY <1>0, <1>1, <1>2, <2>1, HeadTailProperties
<1>4. e \in flow.edges /\ e \in Edges /\ e.from = n /\ e.to \in Node
  <2>1. e \in OutgoingEdges(flow, n)
    BY <1>0, <1>3 DEF PlanTypes
  <2> QED
    BY <1>0, <2>1, EdgeFacts DEF OutgoingEdges
<1>5. /\ UNCHANGED <<flow, plan, pc, step, senders, awaited, on, task, hold, aborting, owed, handled>>
      /\ out' = [m \in Node |-> IF m = n THEN Tail(out[n]) ELSE out[m]]
  <2>1. out = [m \in Node |-> out[m]]
    BY DEF MessageInv, MessageTypes
  <2>2. out' = [out EXCEPT ![n] = Tail(out[n])]
    BY DEF Send
  <2>3. out' = [m \in Node |-> IF m = n THEN Tail(out[n]) ELSE out[m]]
    BY <2>1, <2>2
  <2> QED
    BY <2>3 DEF Send, input, driverVars
<1>6. /\ ~RxAlive(e.to) => queue' = queue /\ carried' = carried
      /\ RxAlive(e.to) =>
            /\ queue[e.to] < BufferSize
            /\ queue' = [queue EXCEPT ![e.to] = @ + 1]
            /\ carried' = [carried EXCEPT ![e] = @ + 1]
  BY <1>1 DEF Send
<1>7. /\ queue' \in [Node -> 0 .. BufferSize] /\ carried' \in [Edges -> Nat]
      /\ RxAlive(e.to) =>
            /\ \A m \in Node : queue'[m] = IF m = e.to THEN queue[m] + 1 ELSE queue[m]
            /\ \A d \in Edges : carried'[d] = IF d = e THEN carried[d] + 1 ELSE carried[d]
  <2>1. CASE RxAlive(e.to)
    <3>1. queue[e.to] + 1 \in 0 .. BufferSize /\ carried[e] + 1 \in Nat
      BY <1>0, <1>4, <1>6, <2>1
    <3> QED
      BY <1>0, <1>4, <1>6, <2>1, <3>1
  <2> QED
    BY <1>0, <1>6, <2>1
<1>8. /\ \A m : (HasInput(m))' <=> HasInput(m)
      /\ \A m : (FullyWired(m))' <=> FullyWired(m)
      /\ \A m : OutgoingEdges(flow', m) = OutgoingEdges(flow, m) /\ IncomingEdges(flow', m) = IncomingEdges(flow, m)
      /\ Returned' <=> Returned
  BY <1>5, FlowIsFixed DEF Returned
<1>9. MessageTypes'
  <2>1. \A m \in Node : out'[m] \in Seq(hold[m])
    BY <1>3, <1>5 DEF MessageInv, MessageTypes
  <2>2. out' = [m \in Node |-> out'[m]]
    BY <1>5
  <2> QED
    BY <1>5, <1>7, <2>1, <2>2 DEF MessageInv, MessageTypes
<1>10. OutIsForSending'
  BY <1>2, <1>5 DEF MessageInv, OutIsForSending
<1>11. InputsCounted'
  <2>1. flow' = flow /\ task' = task /\ handled' = handled
    BY <1>5
  <2> SUFFICES ASSUME NEW m \in flow.nodes, HasInput(m)
               PROVE  /\ (CarriedTo(m))' = handled[m] + queue'[m]
                      /\ task[m] \in {"busy", "hung", "send", "next", "done", "failed"} => handled[m] > 0
                      /\ task[m] \in {"none", "ready", "skipped"} => handled[m] = 0
                      /\ task[m] \in {"done", "skipped"} => queue'[m] = 0
    BY <1>8, <2>1 DEF InputsCounted
  <2>2. /\ CarriedTo(m) = handled[m] + queue[m]
        /\ task[m] \in {"busy", "hung", "send", "next", "done", "failed"} => handled[m] > 0
        /\ task[m] \in {"none", "ready", "skipped"} => handled[m] = 0
        /\ task[m] \in {"done", "skipped"} => queue[m] = 0
    BY DEF MessageInv, InputsCounted
  <2>3. m \in Node /\ handled[m] \in Nat /\ queue[m] \in Nat
    BY <1>0 DEF MessageInv, MessageTypes
  <2>4. PICK S : S = IncomingEdges(flow, m)
    OBVIOUS
  <2>5. CarriedTo(m) = Total(carried, S) /\ (CarriedTo(m))' = Total(carried', S)
    BY <1>8, <2>4, CarriedIsTotal
  <2>6. IsFiniteSet(S) /\ S \subseteq Edges /\ (e \in S <=> e.to = m)
    BY <1>0, <1>4, <2>4, EdgeFacts DEF IncomingEdges
  <2>7. CASE RxAlive(e.to)
    <3>1. \A d \in S : carried[d] \in Nat /\ carried'[d] = IF d = e THEN carried[d] + 1 ELSE carried[d]
      BY <1>0, <1>7, <2>6, <2>7
    <3>2. Total(carried', S) = IF e \in S THEN Total(carried, S) + 1 ELSE Total(carried, S)
      BY <2>6, <3>1, TotalOfSame
    <3>3. task[m] \in {"done", "skipped"} => e.to # m
      BY <2>7 DEF RxAlive, Live
    <3> QED
      BY <1>7, <2>2, <2>3, <2>5, <2>6, <2>7, <3>2, <3>3
  <2>8. CASE ~RxAlive(e.to)
    <3>1. queue' = queue /\ carried' = carried
      BY <1>6, <2>8
    <3>2. Total(carried', S) = Total(carried, S)
      BY <3>1
    <3> QED
      BY <2>2, <2>5, <3>1, <3>2
  <2> QED
    BY <2>7, <2>8
<1>12. SendersKept'
  BY <1>5, <1>8 DEF MessageInv, SendersKept
<1>13. OutputsCounted'
  <2>0. flow' = flow /\ task' = task /\ hold' = hold /\ owed' = owed
    BY <1>5
  <2> SUFFICES ASSUME NEW m \in flow.enabled
               PROVE  /\ task[m] = "none" => \A d \in OutgoingEdges(flow, m) : owed[d] = 0 /\ carried'[d] = 0
                      /\ task[m] \in Live \cup {"done"} /\ FullyWired(m) /\ ~Returned =>
                            /\ hold[m] = OutgoingEdges(flow, m)
                            /\ \A d \in OutgoingEdges(flow, m) : owed[d] = carried'[d] + Occurs(out'[m], d)
    BY <1>8, <2>0 DEF OutputsCounted
  <2>1. /\ task[m] = "none" => \A d \in OutgoingEdges(flow, m) : owed[d] = 0 /\ carried[d] = 0
        /\ task[m] \in Live \cup {"done"} /\ FullyWired(m) /\ ~Returned =>
              /\ hold[m] = OutgoingEdges(flow, m)
              /\ \A d \in OutgoingEdges(flow, m) : owed[d] = carried[d] + Occurs(out[m], d)
    BY DEF MessageInv, OutputsCounted
  <2>2. m \in Node /\ OutgoingEdges(flow, m) \subseteq Edges
    BY <1>0, EdgeFacts
  <2>3. CASE m # n
    <3>1. \A d \in OutgoingEdges(flow, m) : carried'[d] = carried[d]
      <4> SUFFICES ASSUME NEW d \in OutgoingEdges(flow, m) PROVE carried'[d] = carried[d]
        OBVIOUS
      <4>1. d # e /\ d \in Edges
        BY <1>4, <2>2, <2>3 DEF OutgoingEdges
      <4> QED
        BY <1>6, <1>7, <4>1
    <3>2. out'[m] = out[m]
      BY <1>5, <2>2, <2>3
    <3> QED
      BY <2>1, <3>1, <3>2
  <2>4. CASE m = n
    <3> SUFFICES ASSUME FullyWired(m), ~Returned, NEW d \in OutgoingEdges(flow, m)
                 PROVE  hold[m] = OutgoingEdges(flow, m) /\ owed[d] = carried'[d] + Occurs(out'[m], d)
      BY <1>2, <2>1, <2>4
    <3>1. hold[m] = OutgoingEdges(flow, m) /\ owed[d] = carried[d] + Occurs(out[m], d)
      BY <1>2, <2>1, <2>4 DEF Live
    <3>2. RxAlive(e.to)
      BY <1>2, <1>4, TargetsWait DEF Live
    <3>3. Occurs(out[n], d) = Occurs(Tail(out[n]), d) + IF Head(out[n]) = d THEN 1 ELSE 0
      BY <1>0, <1>2, OccursInTail
    <3>4. Occurs(Tail(out[n]), d) \in Nat
      BY <1>3, PositionsFinite
    <3>5. out'[m] = Tail(out[n]) /\ carried[d] \in Nat /\ carried'[d] = IF d = e THEN carried[d] + 1 ELSE carried[d]
      BY <1>0, <1>5, <1>7, <2>2, <2>4, <3>2
    <3> QED
      BY <1>1, <2>4, <3>1, <3>3, <3>4, <3>5
  <2> QED
    BY <2>3, <2>4
<1> QED
  BY <1>9, <1>10, <1>11, <1>12, <1>13 DEF MessageInv

\* Every step of an execution keeps the invariant of the messages.
LEMMA MessageInvStep == PlanInv /\ MessageInv /\ [Next]_vars => MessageInv'
<1> SUFFICES ASSUME PlanInv, MessageInv, [Next]_vars PROVE MessageInv'
  OBVIOUS
<1>1. CASE UNCHANGED vars
  <2>1. /\ UNCHANGED <<flow, plan, pc, step, senders, queue, task, hold, out, owed, carried, handled>>
        /\ aborting' = aborting /\ awaited' = awaited /\ on' = on
    BY <1>1 DEF vars, input, driverVars, taskVars
  <2>2. SendersKept'
    <3>1. \A n : /\ (HasInput(n))' <=> HasInput(n)
                 /\ IncomingEdges(flow', n) = IncomingEdges(flow, n)
      BY <2>1, FlowIsFixed
    <3> QED
      BY <2>1, <3>1 DEF MessageInv, SendersKept, Returned
  <2>3. aborting' \subseteq flow.enabled /\ awaited' \subseteq Node /\ on' \subseteq Node
    BY <2>1 DEF MessageInv, MessageTypes
  <2>4. Returned => Returned'
    BY <2>1 DEF Returned
  <2> QED
    BY <2>1, <2>2, <2>3, <2>4, MessagesUntouched
<1>2. CASE Driver \/ StoreFlag \/ NotifyWaiters
  BY <1>2, DriverKeepsMessages, SpawnKeepsMessages DEF Driver
<1>3. ASSUME NEW n \in Node, Work(n) \/ Abort(n) PROVE MessageInv'
  BY <1>3, QuietTaskKeepsMessages, ReceiveKeepsMessages, ProduceKeepsMessages, SendKeepsMessages DEF Work
<1> QED
  BY <1>1, <1>2, <1>3 DEF Next

(***************************************************************************)
(* The strengthening: where every message is, in a channel, in the hands of *)
(* a task or handled, for any number of them.                               *)
(***************************************************************************)
THEOREM MessageInvariant == Spec => [](PlanInv /\ MessageInv)
<1>1. Init => PlanInv /\ MessageInv
  BY PlanInvInit, MessageInit
<1>2. PlanInv /\ MessageInv /\ [Next]_vars => (PlanInv /\ MessageInv)'
  BY PlanInvStep, MessageInvStep
<1> QED
  BY <1>1, <1>2, PTL DEF Spec

(***************************************************************************)
(* The types of the execution: no channel ever holds more than its capacity *)
(* and no task sends over an edge it has no sender for.                     *)
(***************************************************************************)
THEOREM PlanTypesHold == Spec => []TypeOK
<1>1. PlanInv /\ MessageInv => TypeOK
  <2> SUFFICES ASSUME PlanInv, MessageInv PROVE TypeOK
    OBVIOUS
  <2>0. PlanTypes /\ MessageTypes /\ flow.enabled \subseteq Node /\ flow.nodes \subseteq Node
    BY PlanFacts DEF PlanInv, MessageInv
  <2>1. plan \in Seq(SUBSET Node)
    <3>1. plan \in Seq(SUBSET flow.enabled)
      BY <2>0, PlanFacts
    <3> QED
      BY <2>0, <3>1
  <2>2. Cardinality(on) <= 1
    <3>1. CASE on = {}
      BY <3>1, FS_EmptySet
    <3>2. CASE on # {}
      <4>1. PICK n : on = {n}
        BY <3>2 DEF PlanInv, StepProgress
      <4>2. Cardinality({n}) = 1
        BY FS_Singleton
      <4> QED
        BY <4>1, <4>2
    <3> QED
      BY <3>1, <3>2
  <2>3. \A n \in Node : ToSet(out[n]) \subseteq hold[n]
    <3> SUFFICES ASSUME NEW n \in Node PROVE ToSet(out[n]) \subseteq hold[n]
      OBVIOUS
    <3>1. out[n] \in Seq(hold[n])
      BY <2>0 DEF MessageTypes
    <3> QED
      BY <3>1, ElementOfSeq DEF ToSet
  <2>4. senders \subseteq flow.nodes /\ aborting \subseteq flow.nodes
    BY <2>0, PlanFacts DEF PlanTypes, MessageTypes
  <2>5. pc \in {"head", "arm", "look", "park", "ok", "err"} /\ flow \in Flows /\ step \in 1 .. Len(plan) + 1
    BY <2>0 DEF PlanTypes, Running
  <2> QED
    BY <2>0, <2>1, <2>2, <2>3, <2>4, <2>5 DEF TypeOK, PlanTypes, MessageTypes
<1> QED
  BY <1>1, MessageInvariant, PTL

(***************************************************************************)
(* Channels neither lose nor invent messages, a node that is done processed *)
(* all it was sent, one that was sent nothing is skipped, and what a node    *)
(* emitted is in the channels it is routed to.                              *)
(***************************************************************************)
THEOREM AllMessagesArrive == Spec => []MessagesArrive
<1>1. PlanInv /\ MessageInv => MessagesArrive
  <2> SUFFICES ASSUME PlanInv, MessageInv PROVE MessagesArrive
    OBVIOUS
  <2>0. /\ PlanTypes /\ flow \in Flows /\ flow.nodes \subseteq Node
        /\ carried \in [Edges -> Nat] /\ handled \in [Node -> Nat] /\ queue \in [Node -> 0 .. BufferSize]
        /\ BufferSize \in Nat
    BY PlanFacts, PlanExecutionAssumption DEF PlanInv, MessageInv, MessageTypes, PlanTypes
  <2>1. EveryMessageProcessed
    <3> SUFFICES ASSUME NEW n \in flow.nodes, HasInput(n)
                 PROVE  /\ CarriedTo(n) = handled[n] + queue[n]
                        /\ task[n] = "done" => CarriedTo(n) = handled[n] /\ handled[n] > 0
                        /\ task[n] = "skipped" => CarriedTo(n) = 0
      BY DEF EveryMessageProcessed
    <3>1. handled[n] \in Nat /\ queue[n] \in Nat
      BY <2>0
    <3> QED
      BY <3>1 DEF MessageInv, InputsCounted
  <2>2. RoutedInFull
    <3> SUFFICES ASSUME NEW n \in flow.nodes, task[n] = "done", FullyWired(n), ~Returned,
                        NEW e \in OutgoingEdges(flow, n)
                 PROVE  carried[e] = owed[e]
      BY DEF RoutedInFull
    <3>1. n \in Node /\ n \in flow.enabled
      BY <2>0, PlanFacts DEF PlanInv, StepsInOrder
    <3>2. owed[e] = carried[e] + Occurs(out[n], e)
      BY <3>1 DEF MessageInv, OutputsCounted
    <3>3. out[n] = << >> /\ Occurs(<< >>, e) = 0
      BY <3>1, OccursInNothing DEF MessageInv, OutIsForSending
    <3>4. carried[e] \in Nat
      BY <2>0, EdgeFacts
    <3> QED
      BY <3>2, <3>3, <3>4
  <2> QED
    BY <2>1, <2>2 DEF MessagesArrive
<1> QED
  BY <1>1, MessageInvariant, PTL
=============================================================================
