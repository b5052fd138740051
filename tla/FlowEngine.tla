----------------------------- MODULE FlowEngine -----------------------------
(***************************************************************************)
(* The engine around its executions (z8run-core/src/engine.rs): the map of  *)
(* active executions, the driver task of each, the broadcast of engine      *)
(* events, and stop() and cancel_execution(), which may come at any point.  *)
(*                                                                         *)
(* What goes on inside execute_plan is the subject of PlanExecution.  Here  *)
(* it returns Ok or Err at some time of its own choosing, and for certain   *)
(* once it is cancelled (PlanExecution's StopReturns).                      *)
(*                                                                         *)
(* Every access to active_flows is one critical section of its lock, and so *)
(* one action.  stop() flips several cancel flags inside one section; a     *)
(* driver that sees its flag early only commutes with the rest of it.       *)
(***************************************************************************)
EXTENDS Naturals, Sequences, FiniteSets

CONSTANTS
    Trace,          \* execution ids; each is used once (Uuid::now_v7)
    Flow,           \* flow ids
    MaxNodeEvents   \* bound on the node events, over all executions

ASSUME FlowEngineAssumption == MaxNodeEvents \in Nat

VARIABLES
    flowOf,    \* the flow each execution belongs to
    driver,    \* where the execution is, see Driver below
    result,    \* what execute_plan returned, "none" before; "cut" is the
               \* Ok(()) it returns when it sees the cancellation
    active,    \* keys of active_flows
    status,    \* FlowStatus of the entry, its last value once removed
    flag,      \* the cancel flag, shared by the entry and the driver
    verdict,   \* the branch the driver took after is_cancelled()
    emitted,   \* node events sent so far
    log        \* every event sent on the broadcast channel, in order

vars == <<flowOf, driver, result, active, status, flag, verdict, emitted, log>>

\* "listed"    in the map, FlowStarted not sent yet
\* "plan"      in execute_plan
\* "returned"  execute_plan has returned
\* "decided"   is_cancelled() has been read, the terminal event not sent
\* "sent"      the terminal event is out, the status not set
\* "closing"   about to remove the entry
DriverStates ==
    {"none", "listed", "plan", "returned", "decided", "sent", "closing", "gone"}

Verdicts == {"completed", "error", "stopped"}

Event == [kind : {"started", "node"} \cup Verdicts, trace : Trace]

Ev(k, t) == [kind |-> k, trace |-> t]

InMap == {"listed", "plan", "returned", "decided", "sent", "closing"}

\* What the map, the drivers and the event log hold is of its type.
TypeOK ==
    /\ flowOf \in [Trace -> Flow]
    /\ driver \in [Trace -> DriverStates]
    /\ result \in [Trace -> {"none", "ok", "err", "cut"}]
    /\ active \subseteq Trace
    /\ status \in [Trace -> {"idle", "running"} \cup Verdicts]
    /\ flag \in [Trace -> BOOLEAN]
    /\ verdict \in [Trace -> {"none"} \cup Verdicts]
    /\ emitted \in 0 .. MaxNodeEvents
    /\ log \in Seq(Event)

Init ==
    /\ flowOf \in [Trace -> Flow]
    /\ driver = [t \in Trace |-> "none"]
    /\ result = [t \in Trace |-> "none"]
    /\ active = {}
    /\ status = [t \in Trace |-> "idle"]
    /\ flag = [t \in Trace |-> FALSE]
    /\ verdict = [t \in Trace |-> "none"]
    /\ emitted = 0
    /\ log = << >>

----------------------------------------------------------------------------
(* execute_with_trigger, once the plan has compiled.                       *)

Insert(t) ==
    /\ driver[t] = "none"
    /\ driver' = [driver EXCEPT ![t] = "listed"]
    /\ active' = active \cup {t}
    /\ status' = [status EXCEPT ![t] = "running"]
    /\ UNCHANGED <<flowOf, result, flag, verdict, emitted, log>>

EmitStarted(t) ==
    /\ driver[t] = "listed"
    /\ driver' = [driver EXCEPT ![t] = "plan"]
    /\ log' = Append(log, Ev("started", t))
    /\ UNCHANGED <<flowOf, result, active, status, flag, verdict, emitted>>

----------------------------------------------------------------------------
(* The driver task.                                                        *)

\* A node task of the execution reports.  Tasks that were detached by a
\* failure, or abort late, still report after execute_plan has returned.
NodeEvent(t) ==
    /\ driver[t] = "plan" \/ result[t] \in {"err", "cut"}
    /\ emitted < MaxNodeEvents
    /\ emitted' = emitted + 1
    /\ log' = Append(log, Ev("node", t))
    /\ UNCHANGED <<flowOf, driver, result, active, status, flag, verdict>>

\* Faulty: the driver is spawned before FlowStarted is sent.
PlanReturnsUnstarted(t) ==
    /\ driver[t] \in {"listed", "plan"}
    /\ \E r \in {"ok", "err", "cut"} :
          /\ r = "cut" => flag[t]
          /\ result' = [result EXCEPT ![t] = r]
    /\ driver' = [driver EXCEPT ![t] = "returned"]
    /\ UNCHANGED <<flowOf, active, status, flag, verdict, emitted, log>>

PlanReturns(t) ==
    /\ driver[t] = "plan"
    /\ \E r \in {"ok", "err", "cut"} :
          /\ r = "cut" => flag[t]
          /\ result' = [result EXCEPT ![t] = r]
    /\ driver' = [driver EXCEPT ![t] = "returned"]
    /\ UNCHANGED <<flowOf, active, status, flag, verdict, emitted, log>>

\* Faulty: the plan's result goes to the subscribers as it is.
VerdictAsResult(t) == result[t]

\* Faulty: a plan that returned Ok completed, cancelled or not.
VerdictOfResult(t) ==
    IF result[t] # "err" THEN "completed" ELSE IF flag[t] THEN "stopped" ELSE "error"

\* is_cancelled() wins over whatever execute_plan returned.
VerdictOf(t) ==
    CASE flag[t]                         -> "stopped"
      [] ~flag[t] /\ result[t] = "ok"    -> "completed"
      [] OTHER                           -> "error"

\* Faulty: a cancelled execution goes without a terminal event.
DecideSilently(t) ==
    /\ driver[t] = "returned"
    /\ driver' = [driver EXCEPT ![t] = IF flag[t] THEN "closing" ELSE "decided"]
    /\ verdict' = [verdict EXCEPT ![t] = VerdictOf(t)]
    /\ UNCHANGED <<flowOf, result, active, status, flag, emitted, log>>

Decide(t) ==
    /\ driver[t] = "returned"
    /\ driver' = [driver EXCEPT ![t] = "decided"]
    /\ verdict' = [verdict EXCEPT ![t] = VerdictOf(t)]
    /\ UNCHANGED <<flowOf, result, active, status, flag, emitted, log>>

\* Faulty: the entry of a stopped execution is left in the map.
EmitTerminalAndForget(t) ==
    /\ driver[t] = "decided"
    /\ log' = Append(log, Ev(verdict[t], t))
    /\ driver' = [driver EXCEPT ![t] = IF verdict[t] = "stopped" THEN "gone" ELSE "sent"]
    /\ UNCHANGED <<flowOf, result, active, status, flag, verdict, emitted>>

\* FlowStopped, FlowCompleted or FlowError.  Only the last two set a status.
EmitTerminal(t) ==
    /\ driver[t] = "decided"
    /\ log' = Append(log, Ev(verdict[t], t))
    /\ driver' = [driver EXCEPT ![t] = IF verdict[t] = "stopped" THEN "closing" ELSE "sent"]
    /\ UNCHANGED <<flowOf, result, active, status, flag, verdict, emitted>>

SetExecutionStatus(t) ==
    /\ driver[t] = "sent"
    /\ driver' = [driver EXCEPT ![t] = "closing"]
    /\ status' = IF t \in active THEN [status EXCEPT ![t] = verdict[t]] ELSE status
    /\ UNCHANGED <<flowOf, result, active, flag, verdict, emitted, log>>

\* Faulty: the map is keyed by flow id.
RemoveFlow(t) ==
    /\ driver[t] = "closing"
    /\ driver' = [driver EXCEPT ![t] = "gone"]
    /\ active' = {u \in active : flowOf[u] # flowOf[t]}
    /\ UNCHANGED <<flowOf, result, status, flag, verdict, emitted, log>>

RemoveExecution(t) ==
    /\ driver[t] = "closing"
    /\ driver' = [driver EXCEPT ![t] = "gone"]
    /\ active' = active \ {t}
    /\ UNCHANGED <<flowOf, result, status, flag, verdict, emitted, log>>

----------------------------------------------------------------------------
(* The callers.                                                            *)

\* Cancels the entries in S, under the lock.
CancelAll(S) ==
    /\ flag' = [t \in Trace |-> flag[t] \/ t \in S]
    /\ status' = [t \in Trace |-> IF t \in S THEN "stopped" ELSE status[t]]
    /\ UNCHANGED <<flowOf, driver, result, active, verdict, emitted, log>>

Stop(f) == CancelAll({t \in active : flowOf[t] = f})

\* The result is TRUE exactly when the entry is there.
CancelExecution(t) == t \in active /\ CancelAll({t})

Next ==
    \/ \E t \in Trace :
          \/ Insert(t) \/ EmitStarted(t) \/ NodeEvent(t) \/ PlanReturns(t)
          \/ Decide(t) \/ EmitTerminal(t) \/ SetExecutionStatus(t) \/ RemoveExecution(t)
          \/ CancelExecution(t)
    \/ \E f \in Flow : Stop(f)

\* A driver task is polled whenever it can go on.  execute_plan may take for
\* ever, but not once the flag is up.
DriverStep(t) ==
    \/ EmitStarted(t) \/ Decide(t) \/ EmitTerminal(t)
    \/ SetExecutionStatus(t) \/ RemoveExecution(t)
    \/ flag[t] /\ PlanReturns(t)

Fairness == \A t \in Trace : WF_vars(DriverStep(t))

Spec == Init /\ [][Next]_vars /\ Fairness

----------------------------------------------------------------------------
IsTerminal(e) == e.kind \in Verdicts

\* The positions of the events of kind in K of execution t.
At(t, K) == {i \in DOMAIN log : log[i].trace = t /\ log[i].kind \in K}

\* Subscribers see one FlowStarted and at most one terminal event of an
\* execution, in this order: the history relies on it to close the row it
\* opened, once.
OneVerdictAfterStart ==
    \A t \in Trace :
        /\ \A i, j \in At(t, {"started"}) : i = j
        /\ \A i, j \in At(t, Verdicts) : i = j
        /\ \A j \in At(t, Verdicts) : \E i \in At(t, {"started"}) : i < j

\* An execution leaves the active map only when its terminal event is out
\* (engine.rs:521-525), and one that is not in the map has either not begun
\* or been announced: active_flow_ids() hides nothing that still has news.
GoneIsAnnounced ==
    \A t \in Trace :
        (t \notin active /\ driver[t] # "none") => At(t, Verdicts) # {}

\* A stop that lands while the plan is running decides the verdict, whatever
\* execute_plan returns: the history never shows it as completed or failed.
StopWins ==
    \A t \in Trace :
        [](driver[t] = "plan" /\ flag[t] => [](verdict[t] \in {"none", "stopped"}))

\* Stop and cancel always get the execution out of the map.
StoppedLeaves == \A t \in Trace : flag[t] ~> t \notin active

\* stop() has set the status to Stopped; the driver does not override it
\* with Completed or Error (engine.rs:482-484).
StoppedStatusKept ==
    [][\A t \in active : status[t] = "stopped" => status'[t] = "stopped"]_vars

\* The engine implements the lifecycle every observer may count on.
phase == [t \in Trace |->
    CASE driver[t] = "none"                 -> "new"
      [] driver[t] = "listed"               -> "listed"
      [] driver[t] \in {"plan", "returned"} -> "running"
      [] driver[t] = "decided"              -> "settled"
      [] driver[t] \in {"sent", "closing"}  -> "announced"
      [] driver[t] = "gone"                 -> "gone"]

Lifecycle == INSTANCE ExecutionLifecycle WITH asked <- flag

ImplementsLifecycle == Lifecycle!Spec
============================================================================
