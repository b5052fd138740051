--------------------------- MODULE PlanExecution ---------------------------
(***************************************************************************)
(* One execution of a compiled flow: FlowEngine::execute_plan, the node     *)
(* tasks it spawns, the bounded channels between them, and the cancel       *)
(* handle through which stop() and cancel_execution() reach it.             *)
(*                                                                         *)
(* The driver runs the plan step by step.  For each step it spawns one      *)
(* task per node, awaits them one after the other while it listens for      *)
(* cancellation, and then drops its senders to the step's targets so that   *)
(* their channels can close.  The channel of a node is filled while the     *)
(* node's own task does not exist yet.                                      *)
(*                                                                         *)
(* Messages are counted, not told apart: what a node makes of a message is  *)
(* chosen freely, so all that matters is how many there are and which edge  *)
(* they took.                                                               *)
(***************************************************************************)
EXTENDS FlowGraph, SequencesExt

CONSTANTS
    Flows,       \* the flows that may be run (records of FlowGraph)
    Node,        \* their nodes
    Port,        \* output ports a node may name in a message
    BufferSize,  \* capacity of a channel: max(config.buffer_size, default)
    MaxOut       \* bound on the messages one call of process returns

ASSUME PlanExecutionAssumption ==
    /\ BufferSize \in Nat \ {0}
    /\ MaxOut \in Nat
    /\ IsFiniteSet(Node)
    /\ \A f \in Flows :
          /\ f.nodes \subseteq Node /\ f.enabled \subseteq f.nodes /\ IsFiniteSet(f.edges)
          /\ \A e \in f.edges : e.id \in Nat /\ e.from \in f.nodes /\ e.to \in f.nodes
          /\ \A d, e \in f.edges : d.id = e.id => d = e
          /\ Compile(f).status = "ok"

\* No edge leads from a disabled node to an enabled one: no code clears the
\* `enabled` flag of a node (node.rs:127).  The channel of such a target would
\* never close.
ASSUME SourcesAreEnabled ==
    \A f \in Flows : \A e \in f.edges : e.to \in f.enabled => e.from \in f.enabled

VARIABLES
    flow,      \* the flow this execution runs
    plan,      \* the steps it was compiled into
    pc,        \* driver: "head", "arm", "look", "park", or returned "ok" / "err"
    step,      \* index of the current step of the plan
    awaited,   \* nodes of the step whose handle has been joined
    on,        \* {n}: the handle the driver is polling, {} between handles
    woken,     \* the driver's Notified future has been signalled
    senders,   \* nodes whose original sender is still in `channels`
    queue,     \* messages waiting in each node's channel
    task,      \* state of each node's task
    hold,      \* edges a task holds a cloned sender for (out_channels)
    out,       \* edges a task has still to send on, one entry per delivery
    aborting,  \* tasks abort() was called on
    cancel,    \* "no", "flag" once the flag is stored, "yes" once notified
    owed,      \* history: messages each edge should have carried
    carried,   \* history: messages each edge put in its target's channel
    handled    \* history: messages each node took from its channel

driverVars == <<pc, step, awaited, on, woken, senders>>
taskVars   == <<queue, task, hold, out, aborting, owed, carried, handled>>
input      == <<flow, plan>>
vars       == <<input, driverVars, taskVars, cancel>>

----------------------------------------------------------------------------
Edges == UNION {f.edges : f \in Flows}

Returned == pc \in {"ok", "err"}

Live     == {"ready", "busy", "hung", "send", "next"}
Finished == {"done", "skipped", "failed"}

\* Only a node that some edge enters gets a channel.
HasInput(n) == IncomingEdges(flow, n) # {}

\* The channel of n is open while the driver or a live task has a sender.
TxOpen(n) ==
    \/ n \in senders
    \/ \E m \in flow.nodes : task[m] \in Live /\ \E e \in hold[m] : e.to = n

\* The receiver lives in `receivers` until the task takes it; both go when
\* their owner returns.
RxAlive(n) == IF task[n] = "none" THEN ~Returned ELSE task[n] \in Live

\* outgoing_edges keeps the order of the edge list.
InOrder(edges) ==
    [i \in 1 .. Cardinality(edges) |->
        CHOOSE e \in edges : Cardinality({d \in edges : d.id < e.id}) = i - 1]

\* dispatch_outputs: a message goes to every held channel whose port it
\* names, and wherever there is to go when only one channel is held.
Targets(held, port) ==
    {e \in held : e.port = port \/ Cardinality(held) = 1}

Deliveries(held, ports) ==
    FlattenSeq([i \in DOMAIN ports |-> InOrder(Targets(held, ports[i]))])

\* How many of the messages the same rule gives edge e when every outgoing
\* edge of n has its channel.
Due(n, e, ports) ==
    Cardinality({i \in DOMAIN ports : e \in Targets(OutgoingEdges(flow, n), ports[i])})

----------------------------------------------------------------------------
Init ==
    /\ flow \in Flows
    /\ plan = Compile(flow).steps
    /\ pc = "head"
    /\ step = 1
    /\ awaited = {}
    /\ on = {}
    /\ woken = FALSE
    /\ senders = {n \in flow.enabled : HasInput(n)}
    /\ queue = [n \in Node |-> 0]
    /\ task = [n \in Node |-> "none"]
    /\ hold = [n \in Node |-> {}]
    /\ out = [n \in Node |-> << >>]
    /\ aborting = {}
    /\ cancel = "no"
    /\ owed = [e \in Edges |-> 0]
    /\ carried = [e \in Edges |-> 0]
    /\ handled = [n \in Node |-> 0]

\* `channels` and `receivers` are locals of execute_plan.
Return(result) ==
    /\ pc' = result
    /\ senders' = {}
    /\ on' = {}

----------------------------------------------------------------------------
(* The driver.                                                             *)

\* Top of the loop: no further step once the flag is up.
StopScheduling ==
    /\ pc = "head"
    /\ step <= Len(plan)
    /\ cancel # "no"
    /\ Return("ok")
    /\ UNCHANGED <<input, step, awaited, woken, taskVars, cancel>>

\* Faulty: one sender per target node, as if edges were keyed by it.
HeldPerTarget(n) ==
    {e \in OutgoingEdges(flow, n) : /\ e.to \in senders
                                    /\ \A d \in OutgoingEdges(flow, n) :
                                           d.to = e.to => e.id <= d.id}

\* The senders a task gets are those still in `channels`.
HeldBy(n) == {e \in OutgoingEdges(flow, n) : e.to \in senders}

SpawnStep ==
    /\ pc = "head"
    /\ step <= Len(plan)
    /\ cancel = "no"
    /\ task' = [n \in Node |-> IF n \in plan[step] THEN "ready" ELSE task[n]]
    /\ hold' = [n \in Node |-> IF n \in plan[step] THEN HeldBy(n) ELSE hold[n]]
    /\ awaited' = {}
    /\ pc' = "arm"
    /\ UNCHANGED <<input, step, on, woken, senders, queue, out, aborting, cancel,
                   owed, carried, handled>>

Complete ==
    /\ pc = "head"
    /\ step > Len(plan)
    /\ Return("ok")
    /\ UNCHANGED <<input, step, awaited, woken, taskVars, cancel>>

\* One turn of the select: interest is registered first, then the flag read.
\* The order of `handles` is the arbitrary order of the batch.
Arm ==
    /\ pc = "arm"
    /\ \E n \in plan[step] \ awaited : on' = {n}
    /\ woken' = FALSE
    /\ pc' = "look"
    /\ UNCHANGED <<input, step, awaited, senders, taskVars, cancel>>

\* abort() on every handle of the step, joined or not.
CancelStep ==
    /\ aborting' = plan[step]
    /\ Return("ok")
    /\ UNCHANGED <<input, step, awaited, woken, queue, task, hold, out, cancel,
                   owed, carried, handled>>

\* Faulty: once registered, the driver waits without reading the flag again.
LookAway ==
    /\ pc = "look"
    /\ pc' = "park"
    /\ UNCHANGED <<input, step, awaited, on, woken, senders, taskVars, cancel>>

Look ==
    /\ pc = "look"
    /\ IF cancel # "no"
       THEN CancelStep
       ELSE /\ pc' = "park"
            /\ UNCHANGED <<input, step, awaited, on, woken, senders, taskVars, cancel>>

\* The select is biased: a signalled cancellation goes first.
WakeCancelled ==
    /\ pc = "park"
    /\ woken
    /\ CancelStep

\* Faulty: the original senders stay in `channels`.
KeepSenders == UNCHANGED senders

\* The step is over: its targets lose their original senders.
DropSenders == senders' = senders \ {e.to : e \in {d \in flow.edges : d.from \in plan[step]}}

\* Faulty: the step counts as done with its first node.
AnyJoined(joined) == joined # {}

StepJoined(joined) == joined = plan[step]

JoinOk ==
    /\ pc = "park"
    /\ ~woken
    /\ \E n \in on : task[n] \in {"done", "skipped"}
    /\ awaited' = awaited \cup on
    /\ on' = {}
    /\ IF StepJoined(awaited')
       THEN step' = step + 1 /\ pc' = "head" /\ DropSenders
       ELSE pc' = "arm" /\ UNCHANGED <<step, senders>>
    /\ UNCHANGED <<input, woken, taskVars, cancel>>

\* Faulty: the error of a node ends the plan as if it had completed.
JoinErrIgnored ==
    /\ pc = "park"
    /\ ~woken
    /\ \E n \in on : task[n] = "failed"
    /\ Return("ok")
    /\ UNCHANGED <<input, step, awaited, woken, taskVars, cancel>>

\* The other handles are dropped, which detaches their tasks.
JoinErr ==
    /\ pc = "park"
    /\ ~woken
    /\ \E n \in on : task[n] = "failed"
    /\ Return("err")
    /\ UNCHANGED <<input, step, awaited, woken, taskVars, cancel>>

Driver == \/ StopScheduling \/ SpawnStep \/ Complete \/ Arm \/ Look
          \/ WakeCancelled \/ JoinOk \/ JoinErr

----------------------------------------------------------------------------
(* The canceller: stop() or cancel_execution().                            *)

StoreFlag ==
    /\ cancel = "no"
    /\ cancel' = "flag"
    /\ UNCHANGED <<input, driverVars, taskVars>>

\* notify_waiters reaches the future that exists now and leaves no permit.
NotifyWaiters ==
    /\ cancel = "flag"
    /\ cancel' = "yes"
    /\ woken' = (woken \/ pc \in {"look", "park"})
    /\ UNCHANGED <<input, pc, step, awaited, on, senders, taskVars>>

----------------------------------------------------------------------------
(* The task of node n.                                                     *)

\* A root processes the trigger message, without any channel.
TakeTrigger(n) ==
    /\ task[n] = "ready"
    /\ ~HasInput(n)
    /\ task' = [task EXCEPT ![n] = "busy"]
    /\ UNCHANGED <<input, driverVars, queue, hold, out, aborting, cancel,
                   owed, carried, handled>>

\* recv() gives the first or the next message of the channel.
Receive(n) ==
    /\ task[n] \in {"ready", "next"}
    /\ HasInput(n)
    /\ queue[n] > 0
    /\ queue' = [queue EXCEPT ![n] = @ - 1]
    /\ handled' = [handled EXCEPT ![n] = @ + 1]
    /\ task' = [task EXCEPT ![n] = "busy"]
    /\ UNCHANGED <<input, driverVars, hold, out, aborting, cancel, owed, carried>>

\* recv() gives None: the node is skipped, or it has drained its channel.
ChannelClosed(n) ==
    /\ task[n] \in {"ready", "next"}
    /\ HasInput(n)
    /\ queue[n] = 0
    /\ ~TxOpen(n)
    /\ task' = [task EXCEPT ![n] = IF @ = "ready" THEN "skipped" ELSE "done"]
    /\ UNCHANGED <<input, driverVars, queue, hold, out, aborting, cancel,
                   owed, carried, handled>>

\* process() returns messages on these ports.
Produce(n, ports) ==
    /\ task[n] = "busy"
    /\ task' = [task EXCEPT ![n] = "send"]
    /\ out' = [out EXCEPT ![n] = Deliveries(hold[n], ports)]
    /\ owed' = [e \in Edges |-> owed[e] + Due(n, e, ports)]
    /\ UNCHANGED <<input, driverVars, queue, hold, aborting, cancel, carried, handled>>

\* No factory, a create or process error, or a panic.
Fail(n) ==
    /\ task[n] = "busy"
    /\ task' = [task EXCEPT ![n] = "failed"]
    /\ UNCHANGED <<input, driverVars, queue, hold, out, aborting, cancel,
                   owed, carried, handled>>

\* A call out of process() that never answers.
Hang(n) ==
    /\ task[n] = "busy"
    /\ task' = [task EXCEPT ![n] = "hung"]
    /\ UNCHANGED <<input, driverVars, queue, hold, out, aborting, cancel,
                   owed, carried, handled>>

\* Faulty: an unbounded channel.
SendUnbounded(n) ==
    /\ task[n] = "send"
    /\ out[n] # << >>
    /\ LET e == Head(out[n])
       IN  IF RxAlive(e.to)
           THEN /\ queue' = [queue EXCEPT ![e.to] = @ + 1]
                /\ carried' = [carried EXCEPT ![e] = @ + 1]
           ELSE UNCHANGED <<queue, carried>>
    /\ out' = [out EXCEPT ![n] = Tail(@)]
    /\ UNCHANGED <<input, driverVars, task, hold, aborting, cancel, owed, handled>>

\* send().await: waits for room, fails without harm when the receiver is gone.
Send(n) ==
    /\ task[n] = "send"
    /\ out[n] # << >>
    /\ LET e == Head(out[n])
       IN  IF RxAlive(e.to)
           THEN /\ queue[e.to] < BufferSize
                /\ queue' = [queue EXCEPT ![e.to] = @ + 1]
                /\ carried' = [carried EXCEPT ![e] = @ + 1]
           ELSE UNCHANGED <<queue, carried>>
    /\ out' = [out EXCEPT ![n] = Tail(@)]
    /\ UNCHANGED <<input, driverVars, task, hold, aborting, cancel, owed, handled>>

\* All outputs of this message are sent.
Sent(n) ==
    /\ task[n] = "send"
    /\ out[n] = << >>
    /\ task' = [task EXCEPT ![n] = IF HasInput(n) THEN "next" ELSE "done"]
    /\ UNCHANGED <<input, driverVars, queue, hold, out, aborting, cancel,
                   owed, carried, handled>>

\* abort() takes effect at the task's next await point; until then it runs on.
Abort(n) ==
    /\ n \in aborting
    /\ task[n] \in Live
    /\ task' = [task EXCEPT ![n] = "aborted"]
    /\ UNCHANGED <<input, driverVars, queue, hold, out, aborting, cancel,
                   owed, carried, handled>>

Work(n) ==
    \/ TakeTrigger(n) \/ Receive(n) \/ ChannelClosed(n)
    \/ \E ports \in BoundedSeq(Port, MaxOut) : Produce(n, ports)
    \/ Fail(n) \/ Hang(n) \/ Send(n) \/ Sent(n)

----------------------------------------------------------------------------
Next ==
    \/ Driver
    \/ StoreFlag \/ NotifyWaiters
    \/ \E n \in Node : Work(n) \/ Abort(n)

\* The runtime polls the driver and every task that can move.  A call that
\* never answers is the Hang step; nobody has to cancel, but cancel() does
\* both of its steps.
Fairness ==
    /\ WF_vars(Driver)
    /\ WF_vars(NotifyWaiters)
    /\ \A n \in Node : WF_vars(Work(n)) /\ WF_vars(Abort(n))

Spec == Init /\ [][Next]_vars /\ Fairness

----------------------------------------------------------------------------
\* What the tasks, channels and driver hold is of its type, and no channel
\* is fuller than its capacity.
TypeOK ==
    /\ flow \in Flows /\ plan \in Seq(SUBSET Node)
    /\ pc \in {"head", "arm", "look", "park", "ok", "err"}
    /\ step \in 1 .. Len(plan) + 1
    /\ awaited \subseteq Node /\ on \subseteq Node /\ Cardinality(on) <= 1
    /\ woken \in BOOLEAN
    /\ senders \subseteq flow.nodes
    /\ queue \in [Node -> 0 .. BufferSize]
    /\ task \in [Node -> {"none", "aborted"} \cup Live \cup Finished]
    /\ \A n \in Node : hold[n] \subseteq OutgoingEdges(flow, n)
    /\ \A n \in Node : ToSet(out[n]) \subseteq hold[n]
    /\ aborting \subseteq flow.nodes
    /\ cancel \in {"no", "flag", "yes"}
    /\ owed \in [Edges -> Nat] /\ carried \in [Edges -> Nat]
    /\ handled \in [Node -> Nat]

CarriedTo(n) ==
    FoldSet(LAMBDA e, sum : sum + carried[e], 0, IncomingEdges(flow, n))

\* By the time a node runs, every sender of its channel is gone, so recv()
\* never waits: the channel drains and closes (engine.rs:618-624).
ChannelClosedBehindTask ==
    \A n \in flow.nodes : task[n] \in Live => ~TxOpen(n)

\* A node is spawned only when all the nodes it depends on have finished
\* without error.
StepsAreBarriers ==
    \A e \in flow.edges :
        task[e.to] # "none" => task[e.from] \in {"done", "skipped"}

\* The tasks of one step have the outputs of all earlier ones, and only those.
StepsAreSequential == ChannelClosedBehindTask /\ StepsAreBarriers

\* Channels neither lose nor invent messages, a node that is done has
\* processed every message it was sent, and only a node that was sent
\* nothing is skipped.
EveryMessageProcessed ==
    \A n \in flow.nodes :
        HasInput(n) =>
            /\ CarriedTo(n) = handled[n] + queue[n]
            /\ task[n] = "done" => CarriedTo(n) = handled[n] /\ handled[n] > 0
            /\ task[n] = "skipped" => CarriedTo(n) = 0

StepOf(n) == CHOOSE i \in DOMAIN plan : n \in plan[i]

\* None of the targets of n is disabled, or also the target of a node of an
\* earlier step.
FullyWired(n) ==
    \A e \in OutgoingEdges(flow, n) :
        /\ e.to \in flow.enabled
        /\ \A d \in IncomingEdges(flow, e.to) : StepOf(d.from) >= StepOf(n)

\* The outputs of a node that is done are in the channels they are routed
\* to, all of them and nowhere else, unless the execution returned (its
\* receivers are gone) or a target is disabled or shared with an earlier step.
RoutedInFull ==
    \A n \in flow.nodes :
        (task[n] = "done" /\ FullyWired(n) /\ ~Returned) =>
            \A e \in OutgoingEdges(flow, n) : carried[e] = owed[e]

\* What a node emits is processed, and what it processes was emitted for it.
MessagesArrive == EveryMessageProcessed /\ RoutedInFull

\* What FUNC-007 promises of every flow (engine.rs:618): no message that a
\* node emitted for a downstream node is lost while the execution goes on.
NoMessageLost ==
    \A n \in flow.nodes :
        (task[n] = "done" /\ ~Returned) =>
            \A e \in OutgoingEdges(flow, n) : carried[e] = owed[e]

\* Ok without cancellation means every node ran or was skipped, an error
\* means that a node failed.
ResultIsHonest ==
    /\ (pc = "ok" /\ cancel = "no") =>
           \A n \in flow.enabled : task[n] \in {"done", "skipped"}
    /\ pc = "err" => \E n \in flow.enabled : task[n] = "failed"

\* Cancelling always ends the execution, whatever its nodes are doing: no
\* wake-up is lost between the check of the flag and the wait.
StopReturns == cancel = "flag" ~> Returned

\* And the tasks of the step that was cancelled end with it.
StopEndsTasks == pc = "ok" ~> \A n \in Node : task[n] \notin Live

\* A stop ends the execution and its tasks.
StopIsEffective == StopReturns /\ StopEndsTasks

Hung      == \E n \in flow.nodes : task[n] = "hung"
BufferFull == \E n \in flow.nodes :
                 /\ task[n] = "send" /\ out[n] # << >>
                 /\ queue[Head(out[n]).to] = BufferSize

\* Left alone, an execution returns, unless some node's call never answers
\* or a node has more to send than a channel holds.
ReturnsOrStuck == <>[](Returned \/ Hung \/ BufferFull)

\* Left alone, an execution whose nodes all answer returns: a node that
\* emits one message per element of an array (loop_node.rs:4) gets rid of
\* them however many there are.
ReturnsUnlessHung == <>(Returned \/ Hung)
============================================================================
