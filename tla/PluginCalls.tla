----------------------------- MODULE PluginCalls -----------------------------
(***************************************************************************)
(* Calls into WASM plugins.  A node holds at most one instance of its       *)
(* module; a call waits for one of the process's slots and then runs on a   *)
(* thread that nobody can stop: the caller may be gone before it ends.      *)
(***************************************************************************)
EXTENDS Integers, FiniteSets

CONSTANTS PluginNode, Slots     \* Z8_PLUGIN_MAX_CONCURRENCY

ASSUME SlotsAssumption == Slots \in Nat \ {0}

VARIABLES plugins,      \* by node
          permits       \* free slots
pluginVars == <<plugins, permits>>

\* phase is of the node's caller and its call, step of the blocking job.
NoPlugin == [phase |-> "new", op |-> "none", step |-> "none", caller |-> TRUE,
             given |-> FALSE, instance |-> "none", kept |-> FALSE]

PluginTypeOK ==
    /\ plugins \in [PluginNode ->
        [phase : {"new", "idle", "waiting", "running", "gone"},
         op : {"none", "instantiate", "configure", "validate", "process"},
         step : {"none", "start", "reconfigure", "call"}, caller : BOOLEAN,
         given : BOOLEAN,       \* whether the node has a configuration
         instance : {"none", "blank", "configured", "spoiled"},
         kept : BOOLEAN] ]      \* config_json is there
    /\ permits \in 0..Slots

PluginInit ==
    /\ plugins = [n \in PluginNode |-> NoPlugin] /\ permits = Slots

PhaseIs(n, phase) == plugins[n].phase = phase
Change(n, new) == plugins' = [plugins EXCEPT ![n] = new]

----------------------------------------------------------------------------
(* What the callers do.                                                      *)

\* factory.create: with a configuration it configures and validates, without
\* one it makes the instance now.
Create(n) ==
    /\ PhaseIs(n, "new")
    /\ \E given \in BOOLEAN :
        Change(n, [NoPlugin EXCEPT !.phase = "waiting", !.given = given,
                                   !.op = IF given THEN "configure" ELSE "instantiate"])
    /\ UNCHANGED permits

\* The engine ends a node at its first error; a caller of the executor may go on.
ProcessMessage(n) ==
    /\ PhaseIs(n, "idle")
    /\ Change(n, [plugins[n] EXCEPT !.phase = "waiting", !.op = "process"])
    /\ UNCHANGED permits

AcquireSlot(n) ==
    /\ PhaseIs(n, "waiting") /\ permits > 0
    /\ permits' = permits - 1
    /\ Change(n, [plugins[n] EXCEPT !.phase = "running", !.step = "start"])

\* A node whose creation fails is never there.
Failed(p) == [p EXCEPT !.phase = IF p.caller /\ p.op = "process" THEN "idle" ELSE "gone",
                       !.step = "none"]

AllSlotsBusy(n) ==
    /\ PhaseIs(n, "waiting") /\ permits = 0
    /\ Change(n, Failed(plugins[n]))
    /\ UNCHANGED permits

\* Faulty: a caller that is gone gives its slot back, though the call runs on.
CallerGoneReleasing(n) ==
    /\ plugins[n].caller /\ plugins[n].phase \in {"idle", "waiting", "running"}
    /\ Change(n, [plugins[n] EXCEPT !.caller = FALSE,
                                    !.phase = IF PhaseIs(n, "running") THEN "running" ELSE "gone"])
    /\ permits' = permits + (IF PhaseIs(n, "running") THEN 1 ELSE 0)

\* stop aborts the node's task: a call that waits is forgotten, one that runs
\* goes on.
CallerGone(n) ==
    /\ plugins[n].caller /\ plugins[n].phase \in {"idle", "waiting", "running"}
    /\ Change(n, [plugins[n] EXCEPT !.caller = FALSE,
                                    !.phase = IF PhaseIs(n, "running") THEN "running" ELSE "gone"])
    /\ UNCHANGED permits

\* The engine may build a node anew for another execution.
Another(n) ==
    /\ PhaseIs(n, "gone") /\ Change(n, NoPlugin) /\ UNCHANGED permits

----------------------------------------------------------------------------
(* with_instance, on the blocking thread.                                    *)

\* A trap, a limit, a failing memory or a non-zero status: the instance is
\* dropped, the slot is free again.
JobFails(n) ==
    Change(n, Failed([plugins[n] EXCEPT !.instance = "none"])) /\ permits' = permits + 1

Instantiate(n) ==
    /\ PhaseIs(n, "running") /\ plugins[n].step = "start"
    /\ \/ /\ plugins[n].instance # "none"
          /\ Change(n, [plugins[n] EXCEPT !.step = "call"]) /\ UNCHANGED permits
       \/ /\ plugins[n].instance = "none"
          /\ Change(n, [plugins[n] EXCEPT !.instance = "blank",
                                          !.step = IF plugins[n].kept THEN "reconfigure" ELSE "call"])
          /\ UNCHANGED permits
       \/ plugins[n].instance = "none" /\ JobFails(n)

Reconfigure(n) ==
    /\ PhaseIs(n, "running") /\ plugins[n].step = "reconfigure"
    /\ \/ /\ Change(n, [plugins[n] EXCEPT !.instance = "configured", !.step = "call"])
          /\ UNCHANGED permits
       \/ JobFails(n)

\* After a configuration comes the validation; then the node is ready.
CallReturns(n) ==
    /\ PhaseIs(n, "running") /\ plugins[n].step = "call"
    /\ LET p == plugins[n]
           configured == p.op = "configure"
       IN  Change(n, [p EXCEPT
            !.phase = IF ~p.caller THEN "gone" ELSE IF configured THEN "waiting" ELSE "idle",
            !.op = IF configured THEN "validate" ELSE p.op,
            !.step = "none",
            !.instance = IF configured THEN "configured" ELSE @,
            !.kept = p.kept \/ configured])
    /\ permits' = permits + 1

CallFails(n) ==
    /\ PhaseIs(n, "running") /\ plugins[n].step = "call" /\ plugins[n].op # "instantiate"
    /\ JobFails(n)

PluginNext == \E n \in PluginNode :
    \/ Create(n) \/ ProcessMessage(n) \/ AcquireSlot(n) \/ AllSlotsBusy(n) \/ CallerGone(n)
    \/ Another(n) \/ Instantiate(n) \/ Reconfigure(n) \/ CallReturns(n) \/ CallFails(n)

----------------------------------------------------------------------------
\* A message meets an instance that has the node's configuration, also after
\* a trap has cost the node its instance; and no call meets one that failed.
InstancesAreReady ==
    \A n \in PluginNode :
        PhaseIs(n, "running") /\ plugins[n].step = "call" =>
            /\ plugins[n].instance # "spoiled"
            /\ plugins[n].op \in {"validate", "process"} =>
                    (plugins[n].instance = "configured") = plugins[n].given

\* No more plugins run at a time than there are slots, the calls whose callers
\* are gone included, and a slot never leaks.
SlotsBoundPlugins ==
    Cardinality({n \in PluginNode : PhaseIs(n, "running")}) = Slots - permits

\* A plugin call meets a ready instance, and holds one of the slots until its
\* thread ends.
PluginCallsAreSound == InstancesAreReady /\ SlotsBoundPlugins
=============================================================================
