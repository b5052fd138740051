------------------------- MODULE ExecutionLifecycle -------------------------
(***************************************************************************)
(* What the engine promises about each execution, whoever looks: its        *)
(* subscribers, the HTTP API and the history.  An execution is listed, then *)
(* announced as started; its verdict is settled once, announced once, and   *)
(* only then does it leave the set of executions in progress.  A stop that  *)
(* was asked for before the verdict is settled decides it; a later one      *)
(* changes nothing.                                                         *)
(***************************************************************************)
EXTENDS Sequences

CONSTANT Trace

VARIABLES phase,     \* "new", "listed", "running", "settled", "announced", "gone"
          asked,     \* somebody asked this execution to stop
          verdict,   \* "none", "completed", "error", "stopped"
          log        \* what was broadcast, in order

lifecycleVars == <<phase, asked, verdict, log>>

Verdicts == {"completed", "error", "stopped"}

Ev(k, t) == [kind |-> k, trace |-> t]

Init ==
    /\ phase = [t \in Trace |-> "new"]
    /\ asked = [t \in Trace |-> FALSE]
    /\ verdict = [t \in Trace |-> "none"]
    /\ log = << >>

List(t) ==
    /\ phase[t] = "new"
    /\ phase' = [phase EXCEPT ![t] = "listed"]
    /\ UNCHANGED <<asked, verdict, log>>

Begin(t) ==
    /\ phase[t] = "listed"
    /\ phase' = [phase EXCEPT ![t] = "running"]
    /\ log' = Append(log, Ev("started", t))
    /\ UNCHANGED <<asked, verdict>>

\* A stop reaches any set of executions that are still in progress.
Ask(S) ==
    /\ \A t \in S : phase[t] \notin {"new", "gone"}
    /\ asked' = [t \in Trace |-> asked[t] \/ t \in S]
    /\ UNCHANGED <<phase, verdict, log>>

Settle(t) ==
    /\ phase[t] = "running"
    /\ phase' = [phase EXCEPT ![t] = "settled"]
    /\ \E v \in Verdicts :
          /\ v = "stopped" <=> asked[t]
          /\ verdict' = [verdict EXCEPT ![t] = v]
    /\ UNCHANGED <<asked, log>>

Announce(t) ==
    /\ phase[t] = "settled"
    /\ phase' = [phase EXCEPT ![t] = "announced"]
    /\ log' = Append(log, Ev(verdict[t], t))
    /\ UNCHANGED <<asked, verdict>>

Leave(t) ==
    /\ phase[t] = "announced"
    /\ phase' = [phase EXCEPT ![t] = "gone"]
    /\ UNCHANGED <<asked, verdict, log>>

\* News of a node.  A node task may outlive the verdict, unless the
\* execution completed.
Report(t) ==
    /\ \/ phase[t] = "running"
       \/ phase[t] \notin {"new", "listed"} /\ verdict[t] # "completed"
    /\ log' = Append(log, Ev("node", t))
    /\ UNCHANGED <<phase, asked, verdict>>

Next ==
    \/ \E t \in Trace : List(t) \/ Begin(t) \/ Settle(t) \/ Announce(t) \/ Leave(t)
    \/ \E t \in Trace : Report(t)
    \/ \E S \in SUBSET Trace : Ask(S)

Spec == Init /\ [][Next]_lifecycleVars
============================================================================
