------------------------------ MODULE NodeProofs ------------------------------
(***************************************************************************)
(* Theorems about parts that nodes work with, each a component of its own:  *)
(* calls into plugins, the MQTT node, the nodes that call services, the     *)
(* nodes that remember, the egress policy, the event socket, the registry   *)
(* of tables, the directory of a plugin and the token buckets; and, with    *)
(* the nodes that only compute and the editor, that all of them, side by    *)
(* side, keep their types.                                                  *)
(***************************************************************************)
EXTENDS DataNodeProofs, Nodes

----------------------------------------------------------------------------
(* Calls into plugins, for any set of nodes and any number of slots.         *)

PluginSpec == PluginInit /\ [][PluginNext]_pluginVars

RunningCalls == {n \in PluginNode : PhaseIs(n, "running")}

\* The type of one node's record.
PluginRecord ==
    [phase : {"new", "idle", "waiting", "running", "gone"},
     op : {"none", "instantiate", "configure", "validate", "process"},
     step : {"none", "start", "reconfigure", "call"}, caller : BOOLEAN,
     given : BOOLEAN,
     instance : {"none", "blank", "configured", "spoiled"},
     kept : BOOLEAN]

\* What a node's instance, its kept configuration and its call have to do with
\* each other: InstancesAreReady alone says nothing of a call before it begins.
Ready(p) ==
    /\ p.instance # "spoiled"
    /\ p.op = "none" => p.phase \in {"new", "gone"}
    /\ p.kept => p.given
    /\ p.op = "configure" => p.given /\ ~p.kept
    /\ p.op = "instantiate" => ~p.given
    /\ p.op \in {"validate", "process"} \/ p.phase = "idle" => p.kept = p.given
    /\ p.instance = "configured" => p.kept
    /\ p.instance = "blank" /\ p.kept => p.step = "reconfigure"
    /\ p.step = "reconfigure" => p.phase = "running" /\ p.kept
    /\ p.step = "call" => p.phase = "running" /\ p.instance # "none"

\* The set of running calls is finite whatever the set of nodes is, because a
\* slot is taken for each.
SlotsCounted ==
    /\ IsFiniteSet(RunningCalls)
    /\ Cardinality(RunningCalls) = Slots - permits

PluginInv ==
    /\ PluginTypeOK
    /\ \A n \in PluginNode : Ready(plugins[n])
    /\ SlotsCounted

\* A call that takes a slot is one more running call.
LEMMA TakesSlot ==
    ASSUME PluginInv, NEW n \in PluginNode, ~PhaseIs(n, "running"),
           permits > 0, permits' = permits - 1,
           NEW STATE new, new.phase = "running", Change(n, new)
    PROVE  SlotsCounted' /\ permits' \in 0..Slots
<1>1. RunningCalls' = RunningCalls \cup {n}
  BY DEF PluginInv, PluginTypeOK, RunningCalls, PhaseIs, Change
<1>2. n \notin RunningCalls
  BY DEF RunningCalls
<1>3. IsFiniteSet(RunningCalls') /\ Cardinality(RunningCalls') = Cardinality(RunningCalls) + 1
  BY <1>1, <1>2, FS_AddElement DEF PluginInv, SlotsCounted
<1> QED
  BY <1>3, SlotsAssumption DEF PluginInv, SlotsCounted, PluginTypeOK

\* A call that ends gives its slot back; there was one to give back.
LEMMA FreesSlot ==
    ASSUME PluginInv, NEW n \in PluginNode, PhaseIs(n, "running"), permits' = permits + 1,
           NEW STATE new, new.phase # "running", Change(n, new)
    PROVE  SlotsCounted' /\ permits' \in 0..Slots
<1>1. RunningCalls' = RunningCalls \ {n}
  BY DEF PluginInv, PluginTypeOK, RunningCalls, PhaseIs, Change
<1>2. n \in RunningCalls
  BY DEF RunningCalls
<1>3. IsFiniteSet(RunningCalls') /\ Cardinality(RunningCalls') = Cardinality(RunningCalls) - 1
  BY <1>1, <1>2, FS_RemoveElement DEF PluginInv, SlotsCounted
<1>4. Cardinality(RunningCalls') \in Nat
  BY <1>3, FS_CardinalityType
<1> QED
  BY <1>3, <1>4, SlotsAssumption DEF PluginInv, SlotsCounted, PluginTypeOK

\* A step that leaves permits alone neither takes nor ends a running call.
LEMMA KeepsSlots ==
    ASSUME PluginInv, NEW n \in PluginNode, UNCHANGED permits,
           NEW STATE new, (new.phase = "running" <=> PhaseIs(n, "running")), Change(n, new)
    PROVE  SlotsCounted' /\ permits' \in 0..Slots
<1>1. RunningCalls' = RunningCalls
  BY DEF PluginInv, PluginTypeOK, RunningCalls, PhaseIs, Change
<1> QED
  BY <1>1 DEF PluginInv, SlotsCounted, PluginTypeOK

\* No instance, no slot taken: the first state has nothing to go wrong.
LEMMA PluginInitReady == PluginInit => PluginInv
<1> SUFFICES ASSUME PluginInit PROVE PluginInv
  OBVIOUS
<1>1. PluginTypeOK
  BY SlotsAssumption DEF PluginInit, PluginTypeOK, NoPlugin
<1>2. ASSUME NEW n \in PluginNode PROVE Ready(plugins[n])
  BY DEF PluginInit, Ready, NoPlugin
<1>3. RunningCalls = {}
  BY DEF PluginInit, RunningCalls, NoPlugin, PhaseIs
<1>4. SlotsCounted
  BY <1>3, FS_EmptySet, SlotsAssumption DEF SlotsCounted, PluginInit
<1> QED
  BY <1>1, <1>2, <1>4 DEF PluginInv

\* What one step makes of one node decides what becomes of the invariant.
LEMMA OneNode ==
    ASSUME PluginInv, NEW n \in PluginNode, NEW STATE new, new \in PluginRecord, Change(n, new),
           Ready(new), SlotsCounted', permits' \in 0..Slots
    PROVE  PluginInv'
<1>1. plugins \in [PluginNode -> PluginRecord]
  BY DEF PluginInv, PluginTypeOK, PluginRecord
<1>2. plugins' \in [PluginNode -> PluginRecord]
  BY <1>1 DEF Change
<1>3. PluginTypeOK'
  BY <1>2 DEF PluginTypeOK, PluginRecord
<1>4. ASSUME NEW m \in PluginNode PROVE Ready(plugins'[m])
  <2>1. CASE m = n
    BY <1>1, <2>1 DEF Change
  <2>2. CASE m # n
    <3>1. plugins'[m] = plugins[m]
      BY <1>1, <2>2 DEF Change
    <3> QED
      BY <3>1 DEF PluginInv
  <2> QED
    BY <2>1, <2>2
<1> QED
  BY <1>3, <1>4 DEF PluginInv

\* Every action preserves the invariant: it gives one node a new record.
LEMMA PluginStepKeeps ==
    ASSUME PluginInv, NEW n \in PluginNode,
           \/ Create(n) \/ ProcessMessage(n) \/ AcquireSlot(n) \/ AllSlotsBusy(n)
           \/ CallerGone(n) \/ Another(n) \/ Instantiate(n) \/ Reconfigure(n)
           \/ CallReturns(n) \/ CallFails(n)
    PROVE  PluginInv'
<1> DEFINE p == plugins[n]
<1>1. p \in PluginRecord /\ Ready(p)
  BY DEF PluginInv, PluginTypeOK, PluginRecord
<1>2. ASSUME PhaseIs(n, "running"), p.step \in {"start", "reconfigure", "call"}, JobFails(n)
      PROVE  PluginInv'
  <2> DEFINE new == Failed([p EXCEPT !.instance = "none"])
  <2>1. new \in PluginRecord /\ new.phase # "running"
    BY <1>1 DEF Failed, PluginRecord
  <2>2. Ready(new)
    BY <1>1, <1>2 DEF Failed, PluginRecord, Ready, PhaseIs
  <2>3. Change(n, new) /\ permits' = permits + 1
    BY <1>2 DEF JobFails
  <2> HIDE DEF new
  <2> QED
    BY <1>2, <2>1, <2>2, <2>3, FreesSlot, OneNode
<1>3. CASE Create(n)
  <2>1. PICK given \in BOOLEAN :
            Change(n, [NoPlugin EXCEPT !.phase = "waiting", !.given = given,
                                       !.op = IF given THEN "configure" ELSE "instantiate"])
    BY <1>3, Zenon DEF Create
  <2> DEFINE new == [NoPlugin EXCEPT !.phase = "waiting", !.given = given,
                                     !.op = IF given THEN "configure" ELSE "instantiate"]
  <2>2. new \in PluginRecord /\ new.phase # "running" /\ Ready(new)
    <3>1. CASE given
      BY <3>1 DEF NoPlugin, PluginRecord, Ready
    <3>2. CASE ~given
      BY <3>2 DEF NoPlugin, PluginRecord, Ready
    <3> QED
      BY <3>1, <3>2
  <2>3. Change(n, new) /\ UNCHANGED permits /\ ~PhaseIs(n, "running")
    <3>1. Change(n, new)
      BY <2>1, Zenon
    <3>2. UNCHANGED permits /\ PhaseIs(n, "new")
      BY <1>3, Zenon DEF Create
    <3> QED
      BY <3>1, <3>2 DEF PhaseIs
  <2> HIDE DEF new
  <2> QED
    BY <2>2, <2>3, KeepsSlots, OneNode
<1>4. CASE ProcessMessage(n)
  <2> DEFINE new == [p EXCEPT !.phase = "waiting", !.op = "process"]
  <2>1. new \in PluginRecord /\ new.phase # "running" /\ Ready(new)
    BY <1>1, <1>4 DEF PluginRecord, Ready, ProcessMessage, PhaseIs
  <2>2. Change(n, new) /\ UNCHANGED permits /\ ~PhaseIs(n, "running")
    BY <1>4 DEF ProcessMessage, PhaseIs
  <2> HIDE DEF new
  <2> QED
    BY <2>1, <2>2, KeepsSlots, OneNode
<1>5. CASE AcquireSlot(n)
  <2> DEFINE new == [p EXCEPT !.phase = "running", !.step = "start"]
  <2>1. new \in PluginRecord /\ new.phase = "running" /\ Ready(new)
    BY <1>1, <1>5 DEF PluginRecord, Ready, AcquireSlot, PhaseIs
  <2>2. Change(n, new) /\ permits > 0 /\ permits' = permits - 1 /\ ~PhaseIs(n, "running")
    BY <1>5 DEF AcquireSlot, PhaseIs
  <2> HIDE DEF new
  <2> QED
    BY <2>1, <2>2, TakesSlot, OneNode
<1>6. CASE AllSlotsBusy(n)
  <2> DEFINE new == Failed(p)
  <2>1. new \in PluginRecord /\ new.phase # "running" /\ Ready(new)
    BY <1>1, <1>6 DEF Failed, PluginRecord, Ready, AllSlotsBusy, PhaseIs
  <2>2. Change(n, new) /\ UNCHANGED permits /\ ~PhaseIs(n, "running")
    BY <1>6 DEF AllSlotsBusy, PhaseIs
  <2> HIDE DEF new
  <2> QED
    BY <2>1, <2>2, KeepsSlots, OneNode
<1>7. CASE CallerGone(n)
  <2> DEFINE new == [p EXCEPT !.caller = FALSE,
                              !.phase = IF PhaseIs(n, "running") THEN "running" ELSE "gone"]
  <2>1. new \in PluginRecord /\ (new.phase = "running" <=> PhaseIs(n, "running")) /\ Ready(new)
    BY <1>1, <1>7 DEF PluginRecord, Ready, CallerGone, PhaseIs
  <2>2. Change(n, new) /\ UNCHANGED permits
    BY <1>7 DEF CallerGone
  <2> HIDE DEF new
  <2> QED
    BY <2>1, <2>2, KeepsSlots, OneNode
<1>8. CASE Another(n)
  <2>1. NoPlugin \in PluginRecord /\ NoPlugin.phase # "running" /\ Ready(NoPlugin)
    BY DEF NoPlugin, PluginRecord, Ready
  <2>2. Change(n, NoPlugin) /\ UNCHANGED permits /\ ~PhaseIs(n, "running")
    BY <1>8 DEF Another, PhaseIs
  <2> QED
    BY <2>1, <2>2, KeepsSlots, OneNode
<1>9. CASE Instantiate(n)
  <2>1. CASE JobFails(n)
    BY <1>2, <1>9, <2>1 DEF Instantiate
  <2>2. CASE ~JobFails(n)
    <3>1. PICK new \in {[p EXCEPT !.step = "call"],
                        [p EXCEPT !.instance = "blank",
                                  !.step = IF p.kept THEN "reconfigure" ELSE "call"]} :
              /\ Change(n, new) /\ UNCHANGED permits
              /\ PhaseIs(n, "running") /\ p.step = "start"
              /\ new = [p EXCEPT !.step = "call"] => p.instance # "none"
      BY <1>1, <1>9, <2>2 DEF Instantiate, PluginRecord
    <3>2. new \in PluginRecord /\ new.phase = "running" /\ Ready(new)
      BY <1>1, <3>1 DEF PluginRecord, Ready, PhaseIs
    <3> QED
      BY <3>1, <3>2, KeepsSlots, OneNode
  <2> QED
    BY <2>1, <2>2
<1>10. CASE Reconfigure(n)
  <2>1. CASE JobFails(n)
    BY <1>2, <1>10, <2>1 DEF Reconfigure
  <2>2. CASE ~JobFails(n)
    <3> DEFINE new == [p EXCEPT !.instance = "configured", !.step = "call"]
    <3>1. new \in PluginRecord /\ new.phase = "running" /\ Ready(new)
      BY <1>1, <1>10 DEF PluginRecord, Ready, Reconfigure, PhaseIs
    <3>2. Change(n, new) /\ UNCHANGED permits /\ PhaseIs(n, "running")
      BY <1>10, <2>2 DEF Reconfigure
    <3> HIDE DEF new
    <3>3. SlotsCounted' /\ permits' \in 0..Slots
      BY <3>1, <3>2, KeepsSlots
    <3> QED
      BY <3>1, <3>2, <3>3, OneNode
  <2> QED
    BY <2>1, <2>2
<1>11. CASE CallReturns(n)
  <2> DEFINE configured == p.op = "configure"
             new == [p EXCEPT
                !.phase = IF ~p.caller THEN "gone" ELSE IF configured THEN "waiting" ELSE "idle",
                !.op = IF configured THEN "validate" ELSE p.op,
                !.step = "none",
                !.instance = IF configured THEN "configured" ELSE @,
                !.kept = p.kept \/ configured]
  <2>1. new \in PluginRecord /\ new.phase # "running"
    <3>1. p.caller \in BOOLEAN /\ p.kept \in BOOLEAN /\ p.op \in {"none", "instantiate", "configure", "validate", "process"}
          /\ p.instance \in {"none", "blank", "configured", "spoiled"}
      BY <1>1 DEF PluginRecord
    <3>2. PICK kept2 \in BOOLEAN : kept2 = (p.kept \/ configured)
      BY <3>1
    <3>3. PICK phase2 \in {"gone", "waiting", "idle"} :
            phase2 = IF ~p.caller THEN "gone" ELSE IF configured THEN "waiting" ELSE "idle"
      BY <3>1
    <3>4. PICK op2 \in {"none", "instantiate", "configure", "validate", "process"} :
            op2 = IF configured THEN "validate" ELSE p.op
      BY <3>1
    <3>5. PICK made2 \in {"none", "blank", "configured", "spoiled"} :
            made2 = IF configured THEN "configured" ELSE p.instance
      BY <3>1
    <3>6. new = [p EXCEPT !.phase = phase2, !.op = op2, !.step = "none", !.instance = made2, !.kept = kept2]
      BY <3>2, <3>3, <3>4, <3>5
    <3> HIDE DEF new, configured
    <3> QED
      BY <1>1, <3>6 DEF PluginRecord
  <2>2. Ready(new)
    <3>1. CASE configured
      BY <1>1, <1>11, <3>1 DEF PluginRecord, Ready, CallReturns, PhaseIs
    <3>2. CASE ~configured
      BY <1>1, <1>11, <3>2 DEF PluginRecord, Ready, CallReturns, PhaseIs
    <3> QED
      BY <3>1, <3>2
  <2>3. Change(n, new) /\ permits' = permits + 1 /\ PhaseIs(n, "running")
    BY <1>11 DEF CallReturns
  <2> HIDE DEF new
  <2> QED
    BY <2>1, <2>2, <2>3, FreesSlot, OneNode
<1>12. CASE CallFails(n)
  BY <1>2, <1>12 DEF CallFails
<1> QED
  BY <1>3, <1>4, <1>5, <1>6, <1>7, <1>8, <1>9, <1>10, <1>11, <1>12

\* So does a step that leaves the nodes alone.
LEMMA PluginKeeps == PluginInv /\ [PluginNext]_pluginVars => PluginInv'
<1> SUFFICES ASSUME PluginInv, [PluginNext]_pluginVars PROVE PluginInv'
  OBVIOUS
<1>1. CASE PluginNext
  BY <1>1, PluginStepKeeps DEF PluginNext
<1>2. CASE UNCHANGED pluginVars
  BY <1>2 DEF pluginVars, PluginInv, PluginTypeOK, SlotsCounted, RunningCalls, PhaseIs
<1> QED
  BY <1>1, <1>2

\* The inductive invariant always holds.
THEOREM PluginInvariant == PluginSpec => []PluginInv
  BY PluginKeeps, PluginInitReady, PTL DEF PluginSpec

\* Type correctness of nodes and slots.
THEOREM PluginTypeCorrect == PluginSpec => []PluginTypeOK
<1>1. PluginInv => PluginTypeOK
  BY DEF PluginInv
<1> QED
  BY <1>1, PluginInvariant, PTL

\* A plugin call meets an instance that is configured exactly if the node has a
\* configuration, also after a trap took the instance, and the calls that run
\* hold exactly the slots that are not free.
THEOREM PluginCallsSound == PluginSpec => []PluginCallsAreSound
<1>1. PluginInv => InstancesAreReady
  <2> SUFFICES ASSUME PluginInv, NEW n \in PluginNode, PhaseIs(n, "running"), plugins[n].step = "call"
               PROVE  /\ plugins[n].instance # "spoiled"
                      /\ plugins[n].op \in {"validate", "process"} =>
                            (plugins[n].instance = "configured") = plugins[n].given
    BY DEF InstancesAreReady
  <2>1. plugins[n] \in PluginRecord /\ Ready(plugins[n])
    BY DEF PluginInv, PluginTypeOK, PluginRecord
  <2> QED
    BY <2>1 DEF PluginRecord, Ready
<1>2. PluginInv => SlotsBoundPlugins
  BY DEF PluginInv, SlotsCounted, SlotsBoundPlugins, RunningCalls
<1> QED
  BY <1>1, <1>2, PluginInvariant, PTL DEF PluginCallsAreSound

----------------------------------------------------------------------------
(* The MQTT node, for any bound of the client's queue.                       *)

MqttSpec == MqttInit /\ [][MqttNext]_mqttVars

\* What the client's queue can hold, and when it holds the message.
Queues == {<< >>, <<"publish">>, <<"disconnect">>, <<"publish", "disconnect">>, <<"subscribe">>}
HoldsMessage == queue \in {<<"publish">>, <<"publish", "disconnect">>}

\* The message is in one place at a time: not yet queued, queued or sent.  An
\* error is told only before it is queued, so what is ahead of the queue and
\* what is behind it are both part of the invariant.
MqttInv ==
    /\ MqttTypeOK
    /\ queue \in Queues /\ sent \in {0, 1}
    /\ HoldsMessage => sent = 0
    /\ pc \in {"start", "queue"} => queue = << >> /\ sent = 0 /\ port = "none"
    /\ pc = "disconnect" => queue \in {<< >>, <<"publish">>}
    /\ pc \in {"disconnect", "abort"} => action = "publish"
    /\ pc = "wait" => action = "subscribe" /\ port = "none"
    /\ action # "publish" => sent = 0 /\ ~HoldsMessage
    /\ port = "error" => sent = 0 /\ ~HoldsMessage
    /\ port = "message" => pc = "done"
    /\ arrived = IF port = "message" THEN 1 ELSE 0

\* What is put behind a single request is the second of two.
LEMMA AppendToOne ==
    ASSUME NEW a, NEW b
    PROVE  Append(<<a>>, b) = <<a, b>>
<1> DEFINE S == {a, b}
<1>1. <<a>> \in Seq(S) /\ b \in S /\ <<a, b>> \in Seq(S)
  OBVIOUS
<1>2. /\ Append(<<a>>, b) \in Seq(S) /\ Len(Append(<<a>>, b)) = 2
      /\ Append(<<a>>, b)[1] = a /\ Append(<<a>>, b)[2] = b
  BY <1>1, AppendProperties
<1>3. Len(<<a, b>>) = 2 /\ <<a, b>>[1] = a /\ <<a, b>>[2] = b
  OBVIOUS
<1> HIDE DEF S
<1>4. \A i \in 1 .. 2 : Append(<<a>>, b)[i] = <<a, b>>[i]
  BY <1>2, <1>3
<1> QED
  BY <1>1, <1>2, <1>3, <1>4, SeqEqual

\* A node that has just been called has queued and sent nothing.
LEMMA MqttInitReady == MqttInit => MqttInv
  BY QueueAssumption DEF MqttInit, MqttInv, MqttTypeOK, Queues, HoldsMessage

\* Every step of process and of the connection keeps the message in one place.
LEMMA MqttStepKeeps == MqttInv /\ [MqttNext]_mqttVars => MqttInv'
<1> SUFFICES ASSUME MqttInv, [MqttNext]_mqttVars PROVE MqttInv'
  OBVIOUS
<1> USE DEF MqttInv, MqttTypeOK, Queues, HoldsMessage
<1>1. CASE StartFails
  BY <1>1 DEF StartFails, Returns
<1>2. CASE BrokerHost
  BY <1>2 DEF BrokerHost
<1>3. CASE QueuePublish
  <2>1. CASE connection = "over"
    BY <1>3, <2>1 DEF QueuePublish
  <2>2. CASE connection # "over"
    <3>1. queue' = <<"publish">> /\ 1 \in 0 .. QueueBound
      BY <1>3, <2>2, QueueAssumption DEF QueuePublish
    <3> QED
      BY <1>3, <2>2, <3>1 DEF QueuePublish
  <2> QED
    BY <2>1, <2>2
<1>4. CASE QueueDisconnect
  <2>1. CASE UNCHANGED queue
    BY <1>4, <2>1 DEF QueueDisconnect
  <2>2. CASE Len(queue) < QueueBound /\ queue' = Append(queue, "disconnect")
    <3>1. CASE queue = << >>
      <4>1. queue' = <<"disconnect">> /\ 1 \in 0 .. QueueBound
        BY <2>2, <3>1, QueueAssumption
      <4> QED
        BY <1>4, <3>1, <4>1 DEF QueueDisconnect
    <3>2. CASE queue = <<"publish">>
      <4>1. queue' = <<"publish", "disconnect">>
        BY <2>2, <3>2, AppendToOne
      <4>2. Len(queue) = 1 /\ Len(queue') = 2
        BY <3>2, <4>1
      <4>3. 2 \in 0 .. QueueBound
        BY <2>2, <4>2, QueueAssumption
      <4> QED
        BY <1>4, <3>2, <4>1, <4>2, <4>3 DEF QueueDisconnect
    <3> QED
      BY <1>4, <3>1, <3>2 DEF QueueDisconnect
  <2> QED
    BY <1>4, <2>1, <2>2 DEF QueueDisconnect
<1>5. CASE Abort
  BY <1>5 DEF Abort
<1>6. CASE Subscribe
  <2>1. queue' = <<"subscribe">> /\ 1 \in 0 .. QueueBound
    BY <1>6, QueueAssumption DEF Subscribe
  <2> QED
    BY <1>6, <2>1 DEF Subscribe
<1>7. CASE Message
  BY <1>7 DEF Message, Returns
<1>8. CASE PollEnds
  BY <1>8 DEF PollEnds, Returns
<1>9. CASE TimedOut
  BY <1>9 DEF TimedOut, Returns
<1>10. CASE Connect
  BY <1>10 DEF Connect
<1>11. CASE SendNext
  <2>1. pc \notin {"start", "queue"}
    BY <1>11 DEF SendNext
  <2>2. CASE queue = <<"publish">>
    <3>1. queue' = << >> /\ sent' = sent + 1 /\ connection' = connection
      BY <1>11, <2>2 DEF SendNext
    <3>2. sent = 0 /\ sent' = 1 /\ action = "publish" /\ port # "error"
      BY <2>2, <3>1
    <3>3. UNCHANGED <<action, pc, aborted, arrived, port>>
      BY <1>11 DEF SendNext
    <3> QED
      BY <2>1, <3>1, <3>2, <3>3, QueueAssumption
  <2>3. CASE queue = <<"publish", "disconnect">>
    <3>1. queue' = <<"disconnect">> /\ sent' = sent + 1 /\ connection' = connection
      BY <1>11, <2>3 DEF SendNext
    <3>2. sent = 0 /\ sent' = 1 /\ action = "publish" /\ port # "error"
      BY <2>3, <3>1
    <3>3. UNCHANGED <<action, pc, aborted, arrived, port>>
      BY <1>11 DEF SendNext
    <3>4. Len(queue') = 1 /\ 1 \in 0 .. QueueBound
      BY <3>1, QueueAssumption
    <3>5. queue' # <<"publish">> /\ queue' # <<"publish", "disconnect">>
      BY <3>1
    <3>6. queue' \in Queues /\ ~HoldsMessage'
      BY <3>1, <3>5
    <3>7. pc # "disconnect"
      BY <2>3
    <3>8. MqttTypeOK'
      BY <3>1, <3>2, <3>3, <3>4
    <3> HIDE DEF MqttTypeOK, HoldsMessage, Queues
    <3> QED
      BY <2>1, <3>2, <3>3, <3>6, <3>7, <3>8
  <2>4. CASE queue \in {<<"disconnect">>, <<"subscribe">>}
    <3>1. queue' = << >> /\ Head(queue) # "publish"
      BY <1>11, <2>4 DEF SendNext
    <3> QED
      BY <1>11, <2>1, <2>4, <3>1, QueueAssumption DEF SendNext
  <2> QED
    BY <1>11, <2>2, <2>3, <2>4 DEF SendNext
<1>12. CASE ConnectionEnds
  BY <1>12 DEF ConnectionEnds
<1>13. CASE UNCHANGED mqttVars
  BY <1>13 DEF mqttVars
<1> QED
  BY <1>1, <1>2, <1>3, <1>4, <1>5, <1>6, <1>7, <1>8, <1>9, <1>10, <1>11, <1>12, <1>13 DEF MqttNext

\* The node that answers "error" to a publish has sent nothing and has left
\* nothing in the queue that could still be sent; whatever it answers, the
\* broker gets the message at most once.
THEOREM ErrorsSendNothing == MqttSpec => []ErrorMeansUnsent
<1>1. MqttInv => ErrorMeansUnsent
  <2> SUFFICES ASSUME MqttInv PROVE ErrorMeansUnsent
    OBVIOUS
  <2>1. ASSUME port = "error" PROVE "publish" \notin {queue[i] : i \in DOMAIN queue}
    BY <2>1 DEF MqttInv, Queues, HoldsMessage
  <2> QED
    BY <2>1 DEF MqttInv, ErrorMeansUnsent
<1> QED
  BY <1>1, MqttInitReady, MqttStepKeeps, PTL DEF MqttSpec

----------------------------------------------------------------------------
(* Nodes that call services, for any jobs and any number of redirects.       *)

ServiceSpec == ServiceInit /\ [][ServiceNext]_serviceVars

AnyReply == [status : {0, 200, 201, 404}, body : {"good", "lacks", "garbage", "cut", "tool"}]
Asked == Method \cup {"query"}
Messengers == {"twilio", "whatsapp", "crm"}

\* The nodes that may report an answer that lacks what they look for.
Loose(job) ==
    \/ job.node \in {"http-request", "crm", "database", "llm", "ai-agent", "classifier", "summarizer"}
    \/ job.node = "twilio" /\ job.action = "lookup"
    \/ job.node = "tts" /\ job.action # "google"

\* What d, the decision after the replies r, is at a node that asks once;
\* first is its decision before any reply.
AsksOnce(job, first, r, d) ==
    /\ d.do \in {"ask", "end", "abort"}
    /\ d.do = "ask" => r = <<>> /\ d = Ask(d.method) /\ d.method \in Asked
    /\ d.do = "abort" => first.do # "ask"
    /\ d.do = "end" /\ d.port # "error" =>
          /\ r # <<>>
          /\ d.content = "full" => Last(r).status \in {200, 201}
          /\ d.content # "full" => Loose(job)
    /\ job.node \in Messengers /\ first.do = "ask" /\ r # <<>> /\ Last(r).status \in {200, 201}
          => d.do = "end" /\ d.port # "error"

\* What such a node makes of its last reply.
FitsReply(job, r, last) ==
    r # <<>> =>
        /\ last.do = "end"
        /\ last.port # "error" =>
             /\ last.content = "full" => Last(r).status \in {200, 201}
             /\ last.content # "full" => Loose(job)
        /\ job.node \in Messengers /\ Last(r).status \in {200, 201} => last.port # "error"

\* What the nodes read from a reply.
LEMMA LastReply ==
    ASSUME NEW r \in Seq(AnyReply), r # <<>>
    PROVE  /\ Last(r) \in AnyReply
           /\ Succeeded(r) <=> Last(r).status \in {200, 201}
           /\ HasField(r) => IsJson(r)
           /\ IsJson(r) => ReadAll(r)
           /\ ReadAll(r) => Last(r).status = 200
           /\ Content(r) = "full" => Last(r).status = 200
           /\ Content(r) \in {"full", "partial"}
<1>1. PICK a : a = Last(r)
  OBVIOUS
<1>2. a \in AnyReply
  BY <1>1 DEF Last
<1>3. /\ Succeeded(r) <=> a.status \in 200 .. 299
      /\ HasField(r) => IsJson(r)
      /\ IsJson(r) => ReadAll(r)
      /\ ReadAll(r) => a.status = 200
  BY <1>1 DEF Succeeded, HasField, IsJson, ReadAll
<1>4. a.status \in 200 .. 299 <=> a.status \in {200, 201}
  <2>1. PICK n \in {0, 200, 201, 404} : a.status = n
    BY <1>2 DEF AnyReply
  <2> QED
    BY <2>1
<1> QED
  BY <1>1, <1>2, <1>3, <1>4 DEF Content

\* What MayConnect and First make of a node that asks once.
LEMMA AskingOnce ==
    ASSUME NEW job, NEW r \in Seq(AnyReply), NEW method \in Asked, NEW refused \in {Aborts, OnError}, NEW last,
           FitsReply(job, r, last),
           NEW needs, NEW first, NEW d, NEW unread,
           first = Known(job, needs, MayConnect(job, refused, First(method, <<>>, unread))),
           d = Known(job, needs, MayConnect(job, refused, First(method, r, last)))
    PROVE  AsksOnce(job, first, r, d)
<1>1. CASE ~(needs \subseteq job.has)
  BY <1>1 DEF Known, AsksOnce, OnError, OnPort
<1>2. CASE needs \subseteq job.has /\ "host" \notin job.has
  BY <1>2 DEF Known, AsksOnce, OnError, OnPort, Aborts, MayConnect
<1>3. CASE needs \subseteq job.has /\ "host" \in job.has
  <2>1. first = Ask(method)
    BY <1>3 DEF Known, MayConnect, First
  <2>2. CASE r = <<>>
    BY <1>3, <2>1, <2>2 DEF Known, AsksOnce, MayConnect, First, Ask
  <2>3. CASE r # <<>>
    <3>1. d = last
      BY <1>3, <2>3 DEF Known, MayConnect, First
    <3> QED
      BY <2>1, <2>3, <3>1 DEF AsksOnce, Ask, FitsReply
  <2> QED
    BY <2>2, <2>3
<1> QED
  BY <1>1, <1>2, <1>3

\* What a node that never asks answers.
LEMMA NeverAsking ==
    ASSUME NEW job, NEW first, NEW r, NEW d \in {OnError, Aborts}, first.do # "ask"
    PROVE  AsksOnce(job, first, r, d)
BY DEF AsksOnce, OnError, OnPort, Aborts

\* A messaging node asks its service once and decides on that one answer.
LEMMA MessagingOnce ==
    ASSUME NEW job, NEW r \in Seq(AnyReply), NEW needs, NEW method \in Method
    PROVE  AsksOnce(job, Messaging(job, needs, method, "sent", <<>>), r, Messaging(job, needs, method, "sent", r))
<1> DEFINE last == IF Succeeded(r) THEN OnPort("sent", "full") ELSE OnError
           unread == IF Succeeded(<<>>) THEN OnPort("sent", "full") ELSE OnError
<1>1. FitsReply(job, r, last)
  <2>1. CASE r # <<>>
    BY <2>1, LastReply DEF OnPort, OnError, FitsReply
  <2> QED
    BY <2>1 DEF FitsReply
<1>2. /\ Messaging(job, needs, method, "sent", <<>>)
           = Known(job, needs, MayConnect(job, Aborts, First(method, <<>>, unread)))
      /\ Messaging(job, needs, method, "sent", r)
           = Known(job, needs, MayConnect(job, Aborts, First(method, r, last)))
  BY DEF Messaging
<1> HIDE DEF last, unread
<1> QED
  <2>1. method \in Asked /\ Aborts \in {Aborts, OnError}
    BY DEF Asked
  <2> QED
    BY <1>1, <1>2, <2>1, AskingOnce

\* So does an operation of the CRM node, which aborts before it asks if it lacks a field.
LEMMA OperationOnce ==
    ASSUME NEW job, job.node = "crm", NEW r \in Seq(AnyReply), NEW needs, NEW method \in Asked
    PROVE  AsksOnce(job, Operation(job, needs, method, <<>>), r, Operation(job, needs, method, r))
<1> DEFINE last == IF r # <<>> /\ Last(r).status \in 1 .. 399 THEN OnPort("result", Content(r)) ELSE OnError
<1>1. CASE ~(needs \cup {"host"} \subseteq job.has)
  BY <1>1 DEF Operation, AsksOnce, Aborts
<1>2. CASE needs \cup {"host"} \subseteq job.has
  <2>1. Operation(job, needs, method, <<>>) = Ask(method)
    BY <1>2 DEF Operation, First
  <2>2. CASE r = <<>>
    BY <2>1, <2>2 DEF AsksOnce, Ask
  <2>3. CASE r # <<>>
    <3>1. Operation(job, needs, method, r) = last
      BY <1>2, <2>3 DEF Operation, First
    <3>2. PICK n \in {0, 200, 201, 404} : n = Last(r).status
      BY <2>3, LastReply DEF AnyReply
    <3>3. (Last(r).status \in 1 .. 399) <=> (Last(r).status \in {200, 201})
      <4>1. n \in 1 .. 399 <=> n \in {200, 201}
        OBVIOUS
      <4> QED
        BY <3>2, <4>1, Zenon
    <3>4. Loose(job)
      BY DEF Loose
    <3>5. Content(r) = "full" => Last(r).status = 200
      BY <2>3, LastReply
    <3> QED
      BY <2>1, <2>3, <3>1, <3>3, <3>4, <3>5 DEF AsksOnce, Ask, OnPort, OnError
  <2> QED
    BY <2>2, <2>3
<1> QED
  BY <1>1, <1>2

\* So does a node that posts one request and decides on its last reply.
LEMMA PostedOnce ==
    ASSUME NEW job, NEW r \in Seq(AnyReply), NEW needs, NEW last, NEW unread, FitsReply(job, r, last)
    PROVE  AsksOnce(job, Known(job, needs, Posted(job, <<>>, unread)), r, Known(job, needs, Posted(job, r, last)))
<1>1. /\ Known(job, needs, Posted(job, <<>>, unread))
           = Known(job, needs, MayConnect(job, OnError, First("POST", <<>>, unread)))
      /\ Known(job, needs, Posted(job, r, last))
           = Known(job, needs, MayConnect(job, OnError, First("POST", r, last)))
  BY DEF Posted
<1>2. "POST" \in Asked /\ OnError \in {Aborts, OnError}
  BY DEF Asked, Method
<1> QED
  BY <1>1, <1>2, AskingOnce

\* How the nodes read a reply.
LEMMA ReadingFits ==
    ASSUME NEW job, job.node \notin Messengers, NEW r \in Seq(AnyReply), NEW via
    PROVE  /\ FitsReply(job, r, IF HasField(r) THEN OnPort(via, "full") ELSE OnError)
           /\ Loose(job) => FitsReply(job, r, IF IsJson(r) THEN OnPort(via, Content(r)) ELSE OnError)
           /\ Loose(job) => FitsReply(job, r, IF ReadAll(r) THEN OnPort(via, Content(r)) ELSE OnError)
<1>1. CASE r # <<>>
  BY <1>1, LastReply DEF FitsReply, OnPort, OnError
<1>2. CASE r = <<>>
  BY <1>2 DEF FitsReply
<1> QED
  BY <1>1, <1>2

\* So does a node that needs a field of the reply and else goes wrong.
LEMMA StrictlyOnce ==
    ASSUME NEW job, job.node \notin Messengers, NEW r \in Seq(AnyReply), NEW needs, NEW via
    PROVE  AsksOnce(job, Known(job, needs, Strictly(job, <<>>, via)), r, Known(job, needs, Strictly(job, r, via)))
BY ReadingFits, PostedOnce DEF Strictly

----------------------------------------------------------------------------
(* Each node.                                                                *)

OnceAt(job, r) == AsksOnce(job, Decision(job, <<>>), r, Decision(job, r))

\* The Twilio node asks once.
LEMMA TwilioOnce ==
    ASSUME NEW job, job.node = "twilio", NEW r \in Seq(AnyReply)
    PROVE  OnceAt(job, r)
<1>1. Decision(job, r) = TwilioNode(job, r) /\ Decision(job, <<>>) = TwilioNode(job, <<>>)
  BY DEF Decision
<1>2. CASE job.action = "sms"
  <2>1. TwilioNode(job, r) = HandleSms(job, r) /\ TwilioNode(job, <<>>) = HandleSms(job, <<>>)
    BY <1>2 DEF TwilioNode
  <2> QED
    BY <1>1, <2>1, MessagingOnce DEF OnceAt, HandleSms, Method
<1>3. CASE job.action = "call"
  <2>1. TwilioNode(job, r) = HandleCall(job, r) /\ TwilioNode(job, <<>>) = HandleCall(job, <<>>)
    BY <1>3 DEF TwilioNode
  <2> QED
    BY <1>1, <2>1, MessagingOnce DEF OnceAt, HandleCall, Method
<1>4. CASE job.action = "lookup"
  <2>1. TwilioNode(job, r) = HandleLookup(job, r) /\ TwilioNode(job, <<>>) = HandleLookup(job, <<>>)
    BY <1>4 DEF TwilioNode
  <2>2. PICK d, first : d = Messaging(job, {"to"}, "GET", "sent", r)
                        /\ first = Messaging(job, {"to"}, "GET", "sent", <<>>)
    OBVIOUS
  <2>3. AsksOnce(job, first, r, d)
    BY <2>2, MessagingOnce DEF Method
  <2>4. HandleLookup(job, <<>>) = first
    BY <2>2 DEF HandleLookup, Succeeded
  <2>5. HandleLookup(job, r) = IF Succeeded(r) /\ ~HasField(r) THEN OnPort("sent", "partial") ELSE d
    BY <2>2 DEF HandleLookup
  <2>6. CASE Succeeded(r) /\ ~HasField(r)
    <3>1. r # <<>> /\ Loose(job)
      BY <1>4, <2>6 DEF Succeeded, Loose
    <3> QED
      BY <1>1, <2>1, <2>4, <2>5, <2>6, <3>1 DEF OnceAt, AsksOnce, OnPort
  <2>7. CASE ~(Succeeded(r) /\ ~HasField(r))
    BY <1>1, <2>1, <2>3, <2>4, <2>5, <2>7 DEF OnceAt
  <2> QED
    BY <2>6, <2>7
<1>5. CASE job.action \notin {"sms", "call", "lookup"}
  <2>1. TwilioNode(job, r) = OnError /\ TwilioNode(job, <<>>) = OnError
    BY <1>5 DEF TwilioNode
  <2> QED
    BY <1>1, <2>1, NeverAsking DEF OnceAt, OnError, OnPort
<1> QED
  BY <1>2, <1>3, <1>4, <1>5

\* The WhatsApp node asks once.
LEMMA WhatsAppOnce ==
    ASSUME NEW job, job.node = "whatsapp", NEW r \in Seq(AnyReply)
    PROVE  OnceAt(job, r)
<1>1. Decision(job, r) = WhatsAppNode(job, r) /\ Decision(job, <<>>) = WhatsAppNode(job, <<>>)
  BY DEF Decision
<1>2. CASE job.action \in {"send_text", "send_template", "send_media"}
  <2>1. PICK needs : WhatsAppNode(job, r) = Messaging(job, needs, "POST", "sent", r)
                     /\ WhatsAppNode(job, <<>>) = Messaging(job, needs, "POST", "sent", <<>>)
    BY <1>2 DEF WhatsAppNode, HandleSendText, HandleSendTemplate, HandleSendMedia
  <2> QED
    BY <1>1, <2>1, MessagingOnce DEF OnceAt, Method
<1>3. CASE job.action \notin {"send_text", "send_template", "send_media"}
  <2>1. WhatsAppNode(job, r) = OnError /\ WhatsAppNode(job, <<>>) = OnError
    BY <1>3 DEF WhatsAppNode
  <2> QED
    BY <1>1, <2>1, NeverAsking DEF OnceAt, OnError, OnPort
<1> QED
  BY <1>2, <1>3

\* The CRM node asks once, whatever its operation.
LEMMA CrmOnce ==
    ASSUME NEW job, job.node = "crm", NEW r \in Seq(AnyReply)
    PROVE  OnceAt(job, r)
<1> DEFINE Do(needs, method) == CrmNode(job, r) = Operation(job, needs, method, r)
                                /\ CrmNode(job, <<>>) = Operation(job, needs, method, <<>>)
<1>1. Decision(job, r) = CrmNode(job, r) /\ Decision(job, <<>>) = CrmNode(job, <<>>)
  BY DEF Decision
<1>2. ASSUME NEW needs, NEW method \in Asked, Do(needs, method) PROVE OnceAt(job, r)
  BY <1>1, <1>2, OperationOnce DEF OnceAt
<1>3. CASE job.action = <<"hubspot", "create_contact">>
  <2>1. Do({}, "POST")
    BY <1>3 DEF CrmNode, HubSpotCreateContact
  <2> QED
    BY <1>2, <2>1 DEF Asked, Method
<1>4. CASE job.action = <<"hubspot", "update_contact">>
  <2>1. Do({"id"}, "PATCH")
    BY <1>4 DEF CrmNode, HubSpotUpdateContact
  <2> QED
    BY <1>2, <2>1 DEF Asked, Method
<1>5. CASE job.action = <<"hubspot", "get_contact">>
  <2>1. Do({"id"}, "GET")
    BY <1>5 DEF CrmNode, HubSpotGetContact
  <2> QED
    BY <1>2, <2>1 DEF Asked, Method
<1>6. CASE job.action = <<"hubspot", "search_contacts">>
  <2>1. Do({"email"}, "POST")
    BY <1>6 DEF CrmNode, HubSpotSearchContacts
  <2> QED
    BY <1>2, <2>1 DEF Asked, Method
<1>7. CASE job.action = <<"hubspot", "create_deal">>
  <2>1. Do({}, "POST")
    BY <1>7 DEF CrmNode, HubSpotCreateDeal
  <2> QED
    BY <1>2, <2>1 DEF Asked, Method
<1>8. CASE job.action = <<"hubspot", "list_deals">>
  <2>1. Do({}, "GET")
    BY <1>8 DEF CrmNode, HubSpotListDeals
  <2> QED
    BY <1>2, <2>1 DEF Asked, Method
<1>9. CASE job.action = <<"salesforce", "create_contact">>
  <2>1. Do({}, "POST")
    BY <1>9 DEF CrmNode, SalesforceCreateContact
  <2> QED
    BY <1>2, <2>1 DEF Asked, Method
<1>10. CASE job.action = <<"salesforce", "update_contact">>
  <2>1. Do({"id"}, "PATCH")
    BY <1>10 DEF CrmNode, SalesforceUpdateContact
  <2> QED
    BY <1>2, <2>1 DEF Asked, Method
<1>11. CASE job.action = <<"salesforce", "get_contact">>
  <2>1. Do({"id"}, "GET")
    BY <1>11 DEF CrmNode, SalesforceGetContact
  <2> QED
    BY <1>2, <2>1 DEF Asked, Method
<1>12. CASE job.action = <<"salesforce", "search_contacts">>
  <2>1. Do({"email"}, "GET")
    BY <1>12 DEF CrmNode, SalesforceSearchContacts
  <2> QED
    BY <1>2, <2>1 DEF Asked, Method
<1>13. CASE job.action = <<"salesforce", "create_deal">>
  <2>1. Do({}, "POST")
    BY <1>13 DEF CrmNode, SalesforceCreateDeal
  <2> QED
    BY <1>2, <2>1 DEF Asked, Method
<1>14. CASE job.action = <<"salesforce", "list_deals">>
  <2>1. Do({}, "GET")
    BY <1>14 DEF CrmNode, SalesforceListDeals
  <2> QED
    BY <1>2, <2>1 DEF Asked, Method
<1>15. CASE \A p \in {"hubspot", "salesforce"} :
            \A a \in {"create_contact", "update_contact", "get_contact", "search_contacts", "create_deal",
                     "list_deals"} : job.action # <<p, a>>
  <2>1. CrmNode(job, r) = OnError /\ CrmNode(job, <<>>) = OnError
    BY <1>15 DEF CrmNode
  <2> QED
    BY <1>1, <2>1, NeverAsking DEF OnceAt, OnError, OnPort
<1> QED
  BY <1>3, <1>4, <1>5, <1>6, <1>7, <1>8, <1>9, <1>10, <1>11, <1>12, <1>13, <1>14, <1>15

\* The HTTP request node asks once.
LEMMA HttpRequestOnce ==
    ASSUME NEW job, job.node = "http-request", job.action \in Method, NEW r \in Seq(AnyReply)
    PROVE  OnceAt(job, r)
<1> DEFINE last(q) == IF Last(q).status = 0 \/ Last(q).body = "cut" THEN OnError
                      ELSE OnPort("response", IF Succeeded(q) THEN "full" ELSE "partial")
           d(q) == MayConnect(job, OnError, First(job.action, q, last(q)))
<1>1. Decision(job, r) = d(r) /\ Decision(job, <<>>) = d(<<>>)
  BY DEF Decision, HttpRequestNode
<1>2. FitsReply(job, r, last(r))
  <2>1. CASE r # <<>>
    BY <2>1, LastReply DEF FitsReply, OnPort, OnError, Loose, Messengers
  <2>2. CASE r = <<>>
    BY <2>2 DEF FitsReply
  <2> QED
    BY <2>1, <2>2
<1>3. Known(job, {}, d(r)) = d(r) /\ Known(job, {}, d(<<>>)) = d(<<>>)
  BY DEF Known
<1>4. job.action \in Asked /\ OnError \in {Aborts, OnError}
  BY DEF Asked
<1> HIDE DEF last
<1>5. AsksOnce(job, Known(job, {}, d(<<>>)), r, Known(job, {}, d(r)))
  BY <1>2, <1>4, AskingOnce
<1> QED
  BY <1>1, <1>3, <1>5 DEF OnceAt

\* A query of the database node is sent once and decided by its answer.
LEMMA QueryOnce ==
    ASSUME NEW job, job.node = "database", NEW r \in Seq(AnyReply), NEW needs
    PROVE  AsksOnce(job, Known(job, needs, Query(job, <<>>)), r, Known(job, needs, Query(job, r)))
<1> DEFINE last(q) == IF ~HasField(q) THEN OnError
                      ELSE OnPort("results", IF Last(q).body = "tool" THEN "partial" ELSE "full")
<1>1. /\ Query(job, r) = MayConnect(job, OnError, First("query", r, last(r)))
      /\ Query(job, <<>>) = MayConnect(job, OnError, First("query", <<>>, last(<<>>)))
  BY DEF Query
<1>2. FitsReply(job, r, last(r))
  <2>1. CASE r # <<>>
    BY <2>1, LastReply DEF FitsReply, OnPort, OnError, Loose, Messengers
  <2>2. CASE r = <<>>
    BY <2>2 DEF FitsReply
  <2> QED
    BY <2>1, <2>2
<1>3. "query" \in Asked /\ OnError \in {Aborts, OnError}
  BY DEF Asked
<1> HIDE DEF last
<1> QED
  BY <1>1, <1>2, <1>3, AskingOnce

\* The database node asks once.
LEMMA DatabaseOnce ==
    ASSUME NEW job, job.node = "database", NEW r \in Seq(AnyReply)
    PROVE  OnceAt(job, r)
<1>1. Decision(job, r) = DatabaseNode(job, r) /\ Decision(job, <<>>) = DatabaseNode(job, <<>>)
  BY DEF Decision
<1>2. CASE job.action \in {"postgres", "mysql"}
  <2>1. /\ DatabaseNode(job, r) = Known(job, {"settings"}, Query(job, r))
        /\ DatabaseNode(job, <<>>) = Known(job, {"settings"}, Query(job, <<>>))
    BY <1>2 DEF DatabaseNode, ExecutePostgres, ExecuteMysql
  <2> QED
    BY <1>1, <2>1, QueryOnce DEF OnceAt
<1>3. CASE job.action = "sqlite"
  <2>1. /\ DatabaseNode(job, r) = Known(job, {}, Query(job, r))
        /\ DatabaseNode(job, <<>>) = Known(job, {}, Query(job, <<>>))
    BY <1>3 DEF DatabaseNode, ExecuteSqlite, Known
  <2> QED
    BY <1>1, <2>1, QueryOnce DEF OnceAt
<1>4. CASE job.action \notin {"postgres", "mysql", "sqlite"}
  <2>1. DatabaseNode(job, r) = OnError /\ DatabaseNode(job, <<>>) = OnError
    BY <1>4 DEF DatabaseNode
  <2> QED
    BY <1>1, <2>1, NeverAsking DEF OnceAt, OnError, OnPort
<1> QED
  BY <1>2, <1>3, <1>4

\* The embeddings node asks once.
LEMMA EmbeddingsOnce ==
    ASSUME NEW job, job.node = "embeddings", NEW r \in Seq(AnyReply)
    PROVE  OnceAt(job, r)
<1>1. /\ Decision(job, r) = Known(job, {"text"}, Strictly(job, r, "embedding"))
      /\ Decision(job, <<>>) = Known(job, {"text"}, Strictly(job, <<>>, "embedding"))
  BY DEF Decision, EmbeddingsNode, EmbedOpenAi, EmbedOllama
<1> QED
  BY <1>1, StrictlyOnce DEF OnceAt, Messengers

\* The image generation node asks once.
LEMMA ImageGenOnce ==
    ASSUME NEW job, job.node = "image-gen", NEW r \in Seq(AnyReply)
    PROVE  OnceAt(job, r)
<1>1. /\ Decision(job, r) = Known(job, {"text"}, Strictly(job, r, "image"))
      /\ Decision(job, <<>>) = Known(job, {"text"}, Strictly(job, <<>>, "image"))
  BY DEF Decision, ImageGenNode, ImageOpenAi, ImageStability
<1> QED
  BY <1>1, StrictlyOnce DEF OnceAt, Messengers

\* The speech-to-text node asks once.
LEMMA SttOnce ==
    ASSUME NEW job, job.node = "stt", NEW r \in Seq(AnyReply)
    PROVE  OnceAt(job, r)
<1>1. /\ Decision(job, r) = Known(job, {"audio"}, Strictly(job, r, "transcript"))
      /\ Decision(job, <<>>) = Known(job, {"audio"}, Strictly(job, <<>>, "transcript"))
  BY DEF Decision, SttNode, TranscribeOpenAi, TranscribeDeepgram, TranscribeGoogle
<1> QED
  BY <1>1, StrictlyOnce DEF OnceAt, Messengers

\* The text-to-speech node asks once.
LEMMA TtsOnce ==
    ASSUME NEW job, job.node = "tts", NEW r \in Seq(AnyReply)
    PROVE  OnceAt(job, r)
<1>1. CASE job.action = "google"
  <2>1. /\ Decision(job, r) = Known(job, {"text"}, Strictly(job, r, "audio"))
        /\ Decision(job, <<>>) = Known(job, {"text"}, Strictly(job, <<>>, "audio"))
    BY <1>1 DEF Decision, TtsNode, SpeakGoogle
  <2> QED
    BY <2>1, StrictlyOnce DEF OnceAt, Messengers
<1>2. CASE job.action # "google"
  <2>1. /\ Decision(job, r) = Known(job, {"text"}, Bytes(job, r))
        /\ Decision(job, <<>>) = Known(job, {"text"}, Bytes(job, <<>>))
    BY <1>2 DEF Decision, TtsNode, SpeakOpenAi, SpeakElevenlabs
  <2> QED
    BY <1>2, <2>1, ReadingFits, PostedOnce DEF OnceAt, Messengers, Loose, Bytes
<1> QED
  BY <1>1, <1>2

\* The LLM node asks once.
LEMMA LlmOnce ==
    ASSUME NEW job, job.node = "llm", NEW r \in Seq(AnyReply)
    PROVE  OnceAt(job, r)
<1>1. /\ Decision(job, r) = Known(job, {"text"}, Streamed(job, r))
      /\ Decision(job, <<>>) = Known(job, {"text"}, Streamed(job, <<>>))
  BY DEF Decision, LlmNode, StreamOpenAi, StreamAnthropic, StreamOllama
<1> QED
  BY <1>1, ReadingFits, PostedOnce DEF OnceAt, Messengers, Loose, Streamed

\* The AI agent node asks once.
LEMMA AgentOnce ==
    ASSUME NEW job, job.node = "ai-agent", NEW r \in Seq(AnyReply)
    PROVE  OnceAt(job, r)
<1> DEFINE last(q) == IF ~IsJson(q) THEN OnError
                      ELSE OnPort(IF Last(q).body = "tool" THEN "tool_call" ELSE "response", Content(q))
<1>1. CASE {"text", "history"} \cap job.has = {} \/ Turn(job) > job.limit
  <2>1. Decision(job, r) = OnError /\ Decision(job, <<>>) = OnError
    BY <1>1 DEF Decision, AgentNode
  <2> QED
    BY <2>1, NeverAsking DEF OnceAt, OnError, OnPort
<1>2. CASE ~({"text", "history"} \cap job.has = {} \/ Turn(job) > job.limit)
  <2>1. Decision(job, r) = AgentStep(job, r) /\ Decision(job, <<>>) = AgentStep(job, <<>>)
    BY <1>2 DEF Decision, AgentNode, AgentOpenAi, AgentAnthropic, AgentOllama
  <2>2. /\ AgentStep(job, r) = Known(job, {}, Posted(job, r, last(r)))
        /\ AgentStep(job, <<>>) = Known(job, {}, Posted(job, <<>>, last(<<>>)))
    BY DEF AgentStep, Known
  <2>3. FitsReply(job, r, last(r))
    <3>1. CASE r # <<>>
      BY <3>1, LastReply DEF FitsReply, OnPort, OnError, Loose, Messengers
    <3>2. CASE r = <<>>
      BY <3>2 DEF FitsReply
    <3> QED
      BY <3>1, <3>2
  <2> HIDE DEF last
  <2> QED
    BY <2>1, <2>2, <2>3, PostedOnce DEF OnceAt
<1> QED
  BY <1>1, <1>2

\* The classifier node asks once.
LEMMA ClassifierOnce ==
    ASSUME NEW job, job.node = "classifier", NEW r \in Seq(AnyReply)
    PROVE  OnceAt(job, r)
<1> DEFINE last(q) == IF IsJson(q) THEN OnPort("result", Content(q)) ELSE OnError
           d(q) == Known(job, {"text", "categories"}, Posted(job, q, last(q)))
<1>1. Decision(job, r) = d(r) /\ Decision(job, <<>>) = d(<<>>)
  <2>1. \A q : CallLlm(job, q) = Posted(job, q, IF IsJson(q) THEN OnPort("ok", Content(q)) ELSE OnError)
    BY DEF CallLlm, CallOpenAi, CallAnthropic, CallOllama, Loosely
  <2>2. \A q : ClassifierNode(job, q) = d(q)
    BY <2>1 DEF ClassifierNode, Known, Posted, MayConnect, First, OnError, OnPort, Ask
  <2> QED
    BY <2>2 DEF Decision
<1>2. FitsReply(job, r, last(r))
  BY ReadingFits DEF Loose, Messengers
<1> HIDE DEF last
<1> QED
  BY <1>1, <1>2, PostedOnce DEF OnceAt

----------------------------------------------------------------------------
(* Structured output and summaries, which ask several times.                 *)

Tries == [attempt : Nat, again : BOOLEAN, parsed : BOOLEAN]

\* What the attempts have come to after the replies r.
AttemptsAfter(job, r) ==
    FoldLeft(LAMBDA a, reply : Attempt(job, a, reply), [attempt |-> 0, again |-> FALSE, parsed |-> FALSE], r)

\* k replies are no more than two for each attempt, and something parsed only if a reply did.
TriesFit(job, r, k, acc) ==
    /\ acc \in Tries
    /\ acc.parsed => \E i \in 1 .. k : HasField(<<r[i]>>)
    /\ ~acc.parsed => k <= 2 * acc.attempt + (IF acc.again THEN 1 ELSE 0)
    /\ ~acc.parsed /\ acc.again => acc.attempt < job.retries

\* One more attempt of the structured-output node keeps its count of tries.
LEMMA AttemptFits ==
    ASSUME NEW job, job.retries \in Nat, NEW r \in Seq(AnyReply), NEW k \in Nat, k + 1 <= Len(r),
           NEW acc, TriesFit(job, r, k, acc)
    PROVE  TriesFit(job, r, k + 1, Attempt(job, acc, r[k + 1]))
<1>1. PICK a \in Nat, g \in BOOLEAN, p \in BOOLEAN : acc = [attempt |-> a, again |-> g, parsed |-> p]
  BY DEF TriesFit, Tries
<1>2. PICK reply : reply = r[k + 1]
  OBVIOUS
<1>3. /\ p => \E i \in 1 .. k : HasField(<<r[i]>>)
      /\ ~p => k <= 2 * a + (IF g THEN 1 ELSE 0)
      /\ ~p /\ g => a < job.retries
  BY <1>1 DEF TriesFit
<1>4. CASE HasField(<<reply>>)
  <2>1. Attempt(job, acc, reply) = [attempt |-> a, again |-> g, parsed |-> TRUE]
    BY <1>1, <1>4 DEF Attempt
  <2>2. k + 1 \in 1 .. k + 1 /\ HasField(<<r[k + 1]>>)
    BY <1>2, <1>4
  <2> QED
    BY <1>2, <2>1, <2>2 DEF TriesFit, Tries
<1>5. CASE ~HasField(<<reply>>) /\ IsJson(<<reply>>) /\ ~g /\ a < job.retries
  <2>1. Attempt(job, acc, reply) = [attempt |-> a, again |-> TRUE, parsed |-> p]
    BY <1>1, <1>5 DEF Attempt
  <2>2. p => \E i \in 1 .. k + 1 : HasField(<<r[i]>>)
    BY <1>3
  <2> QED
    BY <1>2, <1>3, <1>5, <2>1, <2>2 DEF TriesFit, Tries
<1>6. CASE ~HasField(<<reply>>) /\ ~(IsJson(<<reply>>) /\ ~g /\ a < job.retries)
  <2>1. Attempt(job, acc, reply) = [attempt |-> a + 1, again |-> FALSE, parsed |-> p]
    BY <1>1, <1>6 DEF Attempt
  <2>2. p => \E i \in 1 .. k + 1 : HasField(<<r[i]>>)
    BY <1>3
  <2>3. ~p => k + 1 <= 2 * (a + 1)
    BY <1>3
  <2> QED
    BY <1>2, <2>1, <2>2, <2>3 DEF TriesFit, Tries
<1> QED
  BY <1>4, <1>5, <1>6

\* So its attempts fit the answers it has had, however many.
LEMMA AttemptsFit ==
    ASSUME NEW job, job.retries \in Nat, NEW r \in Seq(AnyReply)
    PROVE  TriesFit(job, r, Len(r), AttemptsAfter(job, r))
<1> DEFINE N == Len(r)
           base == [attempt |-> 0, again |-> FALSE, parsed |-> FALSE]
           Unfold(g) == [s \in SUBSET (1 .. N) |-> IF s = {} THEN base ELSE Attempt(job, g[s \ {Max(s)}], r[Max(s)])]
           G == [p \in Tries \X (1 .. N) |-> Attempt(job, p[1], r[p[2]])]
<1>0. N \in Nat /\ DOMAIN r = 1 .. N /\ base \in Tries
  BY DEF Tries
<1>1. G \in [Tries \X (1 .. N) -> Tries]
  <2> SUFFICES ASSUME NEW a \in Tries, NEW i \in 1 .. N PROVE Attempt(job, a, r[i]) \in Tries
    OBVIOUS
  <2>1. PICK n \in Nat, g \in BOOLEAN, p \in BOOLEAN : a = [attempt |-> n, again |-> g, parsed |-> p]
    BY DEF Tries
  <2>2. Attempt(job, a, r[i]) \in {[attempt |-> n, again |-> g, parsed |-> TRUE],
                                    [attempt |-> n, again |-> TRUE, parsed |-> p],
                                    [attempt |-> n + 1, again |-> FALSE, parsed |-> p]}
    BY <2>1 DEF Attempt
  <2>3. [attempt |-> n, again |-> g, parsed |-> TRUE] \in Tries
    BY DEF Tries
  <2>4. [attempt |-> n, again |-> TRUE, parsed |-> p] \in Tries
    BY DEF Tries
  <2>5. [attempt |-> n + 1, again |-> FALSE, parsed |-> p] \in Tries
    BY DEF Tries
  <2> QED
    BY <2>2, <2>3, <2>4, <2>5
<1>2. PICK t \in [SUBSET (1 .. N) -> Tries] : FoldsBy(t, N, base, G)
  <2> HIDE DEF G, N, base
  <2> QED
    BY <1>0, <1>1, FoldTable
<1>3. t = Unfold(t)
  <2> SUFFICES ASSUME NEW s \in SUBSET (1 .. N)
               PROVE  t[s] = IF s = {} THEN base ELSE Attempt(job, t[s \ {Max(s)}], r[Max(s)])
    OBVIOUS
  <2>1. CASE s = {}
    BY <1>2, <2>1 DEF FoldsBy
  <2>2. CASE s # {}
    <3>1. Max(s) \in 1 .. N
      <4> HIDE DEF N
      <4>1. Max(s) \in s
        BY <1>0, <2>2, GreatestUpTo
      <4> QED
        BY <4>1
    <3>2. PICK m \in 1 .. N, b \in Tries : m = Max(s) /\ b = t[s \ {Max(s)}]
      BY <3>1
    <3>3. G[<<b, m>>] = Attempt(job, b, r[m])
      BY <3>2
    <3>4. t[s] = G[<<b, m>>]
      <4> HIDE DEF G, base
      <4> QED
        BY <1>2, <2>2, <3>2 DEF FoldsBy
    <3> QED
      BY <2>2, <3>2, <3>3, <3>4
  <2> QED
    BY <2>1, <2>2
<1>4. PICK u : u = CHOOSE iter : iter = Unfold(iter)
  OBVIOUS
<1>5. AttemptsAfter(job, r) = u[1 .. N]
  BY <1>0, <1>4 DEF AttemptsAfter, FoldLeft, MapThenFoldSet
<1>6. u = Unfold(u)
  <2> HIDE DEF Unfold
  <2> QED
    BY <1>3, <1>4
<1>7. \A s \in SUBSET (1 .. N) : u[s] = IF s = {} THEN base ELSE Attempt(job, u[s \ {Max(s)}], r[Max(s)])
  <2>1. u = [s \in SUBSET (1 .. N) |-> IF s = {} THEN base ELSE Attempt(job, u[s \ {Max(s)}], r[Max(s)])]
    BY <1>6
  <2> QED
    BY <2>1
<1> DEFINE Fits(k) == k <= N => TriesFit(job, r, k, u[1 .. k])
           T == {k \in Nat : Fits(k)}
<1>8. Fits(0)
  <2>1. 1 .. 0 = {} /\ {} \in SUBSET (1 .. N)
    OBVIOUS
  <2>2. u[1 .. 0] = base
    BY <1>7, <2>1
  <2> QED
    BY <2>2 DEF TriesFit, Tries
<1>9. ASSUME NEW k \in Nat, Fits(k) PROVE Fits(k + 1)
  <2> SUFFICES ASSUME k + 1 <= N PROVE TriesFit(job, r, k + 1, u[1 .. k + 1])
    OBVIOUS
  <2>1. TriesFit(job, r, k, u[1 .. k])
    BY <1>0, <1>9
  <2>2. 1 .. k + 1 \in SUBSET (1 .. N) /\ 1 .. k + 1 # {} /\ (1 .. k + 1) \ {k + 1} = 1 .. k
    BY <1>0
  <2>3. Max(1 .. k + 1) = k + 1
    <3>1. PICK S : S = 1 .. k + 1
      OBVIOUS
    <3>2. PICK m \in S : m = k + 1
      BY <3>1
    <3>3. S \subseteq Int /\ \A y \in S : m >= y
      BY <3>1, <3>2
    <3>4. Max(S) = m
      BY <3>3, GreatestIs
    <3> QED
      BY <3>1, <3>2, <3>4
  <2>4. u[1 .. k + 1] = Attempt(job, u[1 .. k], r[k + 1])
    BY <1>7, <2>2, <2>3
  <2>5. PICK a, x : a = u[1 .. k] /\ x = r[k + 1]
    OBVIOUS
  <2>6. TriesFit(job, r, k, a)
    BY <2>1, <2>5, Zenon
  <2>7. TriesFit(job, r, k + 1, Attempt(job, a, r[k + 1]))
    BY <2>6, AttemptFits
  <2> QED
    BY <2>4, <2>5, <2>7, Zenon
<1> HIDE DEF Fits
<1>10. N \in T
  <2>1. 0 \in T
    BY <1>8
  <2>2. ASSUME NEW k \in Nat, k \in T PROVE k + 1 \in T
    BY <1>9, <2>2
  <2> HIDE DEF T, N
  <2> QED
    BY <1>0, <2>1, <2>2, Numbers!NumberInduction
<1> QED
  BY <1>0, <1>5, <1>10 DEF Fits

----------------------------------------------------------------------------
(* What every node decides.                                                  *)

\* The most requests that a job may take.
Most(job) == CASE job.node = "structured-output" -> 2 * job.retries + 1
               [] job.node = "summarizer" /\ job.parts > 0 -> job.parts + 1
               [] OTHER -> 1

\* d, the decision after the replies r, keeps to the calls and reports what the replies said.
Decides(job, first, r, d) ==
    /\ d.do \in {"ask", "end", "abort"}
    /\ d.do = "ask" => Len(r) + 1 <= Most(job) /\ d = Ask(d.method) /\ d.method \in Asked
    /\ d.do = "abort" => first.do # "ask"
    /\ d.do = "end" /\ d.port # "error" =>
          IF d.content = "full"
          THEN IF job.node = "summarizer"
               THEN job.parts <= Len(r) /\ \A i \in 1 .. Len(r) : r[i].status = 200
               ELSE \E i \in 1 .. Len(r) : r[i].status \in {200, 201}
          ELSE Loose(job)
    /\ job.node \in Messengers /\ first.do = "ask" /\ r # <<>> /\ Last(r).status \in {200, 201}
          => d.do = "end" /\ d.port # "error"

\* A node that asks once decides as it promises.
LEMMA OnceDecides ==
    ASSUME NEW job, Most(job) = 1, job.node # "summarizer", NEW r \in Seq(AnyReply), NEW first, NEW d,
           AsksOnce(job, first, r, d)
    PROVE  Decides(job, first, r, d)
<1>1. r = <<>> => Len(r) + 1 <= Most(job)
  OBVIOUS
<1>2. r # <<>> => Last(r) = r[Len(r)] /\ Len(r) \in 1 .. Len(r)
  BY DEF Last
<1> QED
  BY <1>1, <1>2 DEF Decides, AsksOnce

\* A call of a language model.
LEMMA LlmDecision ==
    ASSUME NEW job, NEW r
    PROVE  CallLlm(job, r) = IF "host" \notin job.has THEN OnError
                             ELSE IF r = <<>> THEN Ask("POST")
                             ELSE IF IsJson(r) THEN OnPort("ok", Content(r)) ELSE OnError
BY DEF CallLlm, CallOpenAi, CallAnthropic, CallOllama, Loosely, Posted, MayConnect, First

\* What is read of one reply.
LEMMA OneReply ==
    ASSUME NEW reply \in AnyReply
    PROVE  (HasField(<<reply>>) => IsJson(<<reply>>)) /\ (IsJson(<<reply>>) => reply.status = 200)
<1>1. PICK r : r = <<reply>>
  OBVIOUS
<1>2. r \in Seq(AnyReply) /\ r # <<>> /\ Last(r) = reply
  BY <1>1 DEF Last
<1>3. (HasField(r) => IsJson(r)) /\ (IsJson(r) => Last(r).status = 200)
  BY <1>2, LastReply
<1> QED
  BY <1>1, <1>2, <1>3

\* So does the structured-output node, which tries again on a bad answer.
LEMMA StructuredDecides ==
    ASSUME NEW job, job.node = "structured-output", job.retries \in Nat, NEW r \in Seq(AnyReply)
    PROVE  Decides(job, Decision(job, <<>>), r, Decision(job, r))
<1>1. PICK acc : acc = AttemptsAfter(job, r)
  OBVIOUS
<1>2. TriesFit(job, r, Len(r), acc)
  BY <1>1, AttemptsFit
<1>3. Decision(job, r) = Known(job, {"text"},
          CASE acc.parsed -> OnPort("output", "full")
            [] ~acc.parsed /\ acc.attempt > job.retries -> OnError
            [] OTHER -> CallLlm(job, <<>>))
  BY <1>1 DEF Decision, StructuredOutputNode, AttemptsAfter
<1>4. PICK n \in Nat, g \in BOOLEAN, p \in BOOLEAN : acc = [attempt |-> n, again |-> g, parsed |-> p]
  BY <1>2 DEF TriesFit, Tries
<1>5. Most(job) = 2 * job.retries + 1
  BY DEF Most
<1>6. CASE ~({"text"} \subseteq job.has)
  <2>1. Decision(job, r) = OnError
    BY <1>3, <1>6 DEF Known
  <2> QED
    BY <2>1 DEF Decides, OnError, OnPort, Messengers
<1>7. CASE {"text"} \subseteq job.has /\ p
  <2>1. Decision(job, r) = OnPort("output", "full")
    BY <1>3, <1>4, <1>7 DEF Known
  <2>2. PICK i \in 1 .. Len(r) : HasField(<<r[i]>>)
    BY <1>2, <1>4, <1>7 DEF TriesFit
  <2>3. r[i].status \in {200, 201}
    BY <2>2, OneReply
  <2> QED
    BY <2>1, <2>3 DEF Decides, OnPort, Messengers
<1>8. CASE {"text"} \subseteq job.has /\ ~p /\ n > job.retries
  <2>1. Decision(job, r) = OnError
    BY <1>3, <1>4, <1>8 DEF Known
  <2> QED
    BY <2>1 DEF Decides, OnError, OnPort, Messengers
<1>9. CASE {"text"} \subseteq job.has /\ ~p /\ ~(n > job.retries)
  <2>1. Decision(job, r) = CallLlm(job, <<>>)
    BY <1>3, <1>4, <1>9 DEF Known
  <2>2. Decision(job, r) \in {OnError, Ask("POST")}
    BY <2>1, LlmDecision
  <2>3. Len(r) + 1 <= Most(job)
    <3>1. Len(r) <= 2 * n + (IF g THEN 1 ELSE 0) /\ (g => n < job.retries)
      BY <1>2, <1>4, <1>9 DEF TriesFit
    <3> QED
      BY <1>5, <1>9, <3>1
  <2>4. "POST" \in Asked
    BY DEF Asked, Method
  <2> QED
    BY <2>2, <2>3, <2>4 DEF Decides, OnError, OnPort, Ask, Messengers
<1> QED
  BY <1>6, <1>7, <1>8, <1>9

\* So does the summarizer, which asks once per part and once for all of them.
LEMMA SummarizerDecides ==
    ASSUME NEW job, job.node = "summarizer", job.parts \in Nat, NEW r \in Seq(AnyReply),
           Len(r) <= Most(job)
    PROVE  Decides(job, Decision(job, <<>>), r, Decision(job, r))
<1>1. PICK call : call = IF job.parts = 0 THEN SummarizeSimple(job, r) ELSE SummarizeMapReduce(job, r)
  OBVIOUS
<1>2. Decision(job, r) = Known(job, {"text"},
          IF call.do = "end" /\ call.port = "ok" THEN OnPort("summary", call.content) ELSE call)
  BY <1>1 DEF Decision, SummarizerNode
<1>3. /\ call \in {OnError, Ask("POST"), OnPort("ok", "full"), OnPort("ok", "partial")}
      /\ call = Ask("POST") => Len(r) + 1 <= Most(job)
      /\ call = OnPort("ok", "full") => job.parts <= Len(r) /\ \A i \in 1 .. Len(r) : r[i].status = 200
  <2>1. CASE job.parts = 0
    <3>1. call = IF "host" \notin job.has THEN OnError
                 ELSE IF r = <<>> THEN Ask("POST")
                 ELSE IF IsJson(r) THEN OnPort("ok", Content(r)) ELSE OnError
      BY <1>1, <2>1, LlmDecision DEF SummarizeSimple
    <3>2. Most(job) = 1
      BY <2>1 DEF Most
    <3>3. CASE r = <<>>
      BY <2>1, <3>1, <3>2, <3>3 DEF OnError, OnPort, Ask
    <3>4. CASE r # <<>>
      <4>1. Len(r) = 1 /\ Last(r) = r[1]
        <5>1. Len(r) # 0
          BY <3>4
        <5>2. Len(r) = 1
          <6>1. PICK n \in Nat : n = Len(r)
            OBVIOUS
          <6>2. n <= 1 /\ n # 0
            BY <3>2, <5>1, <6>1, Zenon
          <6>3. n = 1
            BY <6>2
          <6> QED
            BY <6>1, <6>3
        <5> QED
          BY <5>2 DEF Last
      <4>2. /\ Content(r) \in {"full", "partial"}
            /\ IsJson(r) => r[1].status = 200
        BY <3>4, <4>1, LastReply
      <4> QED
        BY <2>1, <3>1, <3>4, <4>1, <4>2 DEF OnError, OnPort, Ask
    <3> QED
      BY <3>3, <3>4
  <2>2. CASE job.parts # 0
    <3>1. Most(job) = job.parts + 1
      BY <2>2 DEF Most
    <3>2. call = SummarizeMapReduce(job, r) /\ DOMAIN r = 1 .. Len(r)
      BY <1>1, <2>2
    <3>3. CASE \E i \in DOMAIN r : ~IsJson(<<r[i]>>)
      BY <3>2, <3>3 DEF SummarizeMapReduce, OnError, OnPort, Ask
    <3>4. CASE ~(\E i \in DOMAIN r : ~IsJson(<<r[i]>>)) /\ Len(r) <= job.parts
      <4>1. call = CallLlm(job, <<>>)
        BY <3>2, <3>4 DEF SummarizeMapReduce
      <4>2. call \in {OnError, Ask("POST")}
        BY <4>1, LlmDecision
      <4> QED
        BY <3>1, <3>4, <4>2 DEF OnError, OnPort, Ask
    <3>5. CASE ~(\E i \in DOMAIN r : ~IsJson(<<r[i]>>)) /\ ~(Len(r) <= job.parts)
      <4>1. call = OnPort("ok", IF \A i \in DOMAIN r : HasField(<<r[i]>>) THEN "full" ELSE "partial")
        BY <3>2, <3>5 DEF SummarizeMapReduce
      <4>2. \A i \in 1 .. Len(r) : r[i].status = 200
        BY <3>2, <3>5, OneReply
      <4> QED
        BY <3>5, <4>1, <4>2 DEF OnError, OnPort, Ask
    <3> QED
      BY <3>3, <3>4, <3>5
  <2> QED
    BY <2>1, <2>2
<1>4. CASE ~({"text"} \subseteq job.has)
  <2>1. Decision(job, r) = OnError
    BY <1>2, <1>4 DEF Known
  <2> QED
    BY <2>1 DEF Decides, OnError, OnPort, Messengers
<1>5. CASE {"text"} \subseteq job.has
  <2>1. Decision(job, r) = IF call.do = "end" /\ call.port = "ok" THEN OnPort("summary", call.content) ELSE call
    BY <1>2, <1>5 DEF Known
  <2>2. "POST" \in Asked
    BY DEF Asked, Method
  <2> QED
    BY <1>3, <2>1, <2>2 DEF Decides, OnError, OnPort, Ask, Messengers, Loose
<1> QED
  BY <1>4, <1>5

\* Every errand is decided as promised, whichever node runs it.
LEMMA EveryNodeDecides ==
    ASSUME NEW job \in Errand, NEW r \in Seq(AnyReply), Len(r) <= Most(job)
    PROVE  Decides(job, Decision(job, <<>>), r, Decision(job, r))
<1>1. /\ job.node \in ServiceNode /\ job.retries \in Nat /\ job.parts \in Nat
      /\ job.node = "http-request" => job.action \in Method
  <2>1. /\ job.node \in ServiceNode /\ {job.retries, job.parts} \subseteq Nat
        /\ job.node = "http-request" => job.action \in Method
    BY ErrandAssumption, Zenon
  <2> QED
    BY <2>1, Zenon
<1>2. CASE job.node = "structured-output"
  BY <1>1, <1>2, StructuredDecides
<1>3. CASE job.node = "summarizer"
  BY <1>1, <1>3, SummarizerDecides
<1>4. CASE job.node \notin {"structured-output", "summarizer"}
  <2>1. OnceAt(job, r)
    BY <1>1, <1>4, TwilioOnce, WhatsAppOnce, CrmOnce, HttpRequestOnce, DatabaseOnce, EmbeddingsOnce,
       ImageGenOnce, SttOnce, TtsOnce, LlmOnce, AgentOnce, ClassifierOnce DEF ServiceNode
  <2>2. Most(job) = 1
    BY <1>4 DEF Most
  <2> QED
    BY <1>4, <2>1, <2>2, OnceDecides DEF OnceAt
<1> QED
  BY <1>2, <1>3, <1>4

----------------------------------------------------------------------------
(* The invariant.                                                            *)

Good(q) == {i \in 1 .. Len(q) : q[i].status \in {200, 201}}
Asking == IF wire = NoWire THEN 0 ELSE 1

ServiceTypes ==
    /\ errand \in Errand
    /\ replies \in Seq(Reply(errand.node) \cup {NoReply}) /\ replies \in Seq(AnyReply)
    /\ wire = NoWire \/ wire \in [asked : Asked, method : Asked]
    /\ hops \in 0 .. MaxHops
    /\ carried \in Nat /\ late \in Nat
    /\ unheard \in BOOLEAN /\ rerouted \in BOOLEAN

\* What the node has decided, and that it asked only where it decided so.
Deciding ==
    /\ verdict = Pending \/ (wire = NoWire /\ verdict = Decision(errand, replies) /\ verdict.do # "ask")
    /\ wire # NoWire => verdict = Pending
    /\ Len(replies) + Asking <= Most(errand)
    /\ replies # <<>> \/ wire # NoWire => Decision(errand, <<>>).do = "ask"

\* What the service carried out.
Carrying ==
    /\ wire # NoWire => wire.method = wire.asked \/ rerouted
    /\ ~rerouted => Cardinality(Good(replies)) <= carried
    /\ late > 0 => unheard
    /\ ~unheard /\ carried > 0 => Good(replies) # {}

ServiceInv == ServiceTypes /\ Deciding /\ Carrying

\* Every node's replies, and no reply, are among the replies there are.
LEMMA ServiceReplies ==
    ASSUME NEW node
    PROVE  Reply(node) \subseteq AnyReply /\ NoReply \in AnyReply
<1>1. Body(node) \subseteq {"good", "lacks", "garbage", "cut", "tool"}
  BY DEF Body
<1>2. Reply(node) \subseteq AnyReply
  BY <1>1 DEF Reply, AnyReply
<1>3. NoReply \in AnyReply
  BY DEF NoReply, AnyReply
<1> QED
  BY <1>2, <1>3

\* One more reply is at most one more that counts.
LEMMA GoodGrows ==
    ASSUME NEW q \in Seq(AnyReply), NEW x \in AnyReply
    PROVE  /\ IsFiniteSet(Good(q)) /\ Cardinality(Good(q)) \in Nat
           /\ Good(q) \subseteq Good(Append(q, x))
           /\ x.status \in {200, 201} => /\ Good(Append(q, x)) # {}
                                         /\ Cardinality(Good(Append(q, x))) = Cardinality(Good(q)) + 1
           /\ x.status \notin {200, 201} => Good(Append(q, x)) = Good(q)
<1>1. IsFiniteSet(1 .. Len(q)) /\ Good(q) \subseteq 1 .. Len(q) /\ Len(q) \in Nat
  <2>1. PICK n \in Nat : n = Len(q)
    OBVIOUS
  <2>2. IsFiniteSet(1 .. n)
    BY FS_Interval
  <2>3. Good(q) \subseteq 1 .. n
    BY <2>1 DEF Good
  <2> QED
    BY <2>1, <2>2, <2>3
<1>2. IsFiniteSet(Good(q)) /\ Cardinality(Good(q)) \in Nat
  BY <1>1, FS_Subset, FS_CardinalityType
<1>3. PICK p : p = Append(q, x)
  OBVIOUS
<1>4. /\ Len(p) = Len(q) + 1 /\ p[Len(q) + 1] = x
      /\ \A i \in 1 .. Len(q) : p[i] = q[i]
  BY <1>3
<1>5. CASE x.status \in {200, 201}
  <2>1. Good(p) = Good(q) \cup {Len(q) + 1} /\ Len(q) + 1 \notin Good(q)
    <3>1. PICK n \in Nat : n = Len(q)
      BY <1>1
    <3>2. /\ Good(p) = {i \in 1 .. n + 1 : p[i].status \in {200, 201}}
          /\ Good(q) = {i \in 1 .. n : q[i].status \in {200, 201}}
      BY <1>4, <3>1 DEF Good
    <3>3. p[n + 1].status \in {200, 201}
      BY <1>4, <1>5, <3>1
    <3>4. \A i \in 1 .. n : p[i] = q[i]
      BY <1>4, <3>1
    <3>5. n + 1 \notin Good(q) /\ n + 1 \in Good(p)
      BY <3>2, <3>3
    <3>6. \A i \in Good(p) : i \in Good(q) \cup {n + 1}
      BY <3>2, <3>4
    <3>7. \A i \in Good(q) : i \in Good(p)
      BY <3>2, <3>4
    <3> QED
      BY <3>1, <3>5, <3>6, <3>7
  <2> QED
    BY <1>2, <1>3, <1>5, <2>1, FS_AddElement
<1>6. CASE x.status \notin {200, 201}
  <2>1. Good(p) = Good(q)
    BY <1>1, <1>4, <1>6 DEF Good
  <2> QED
    BY <1>2, <1>3, <1>6, <2>1
<1> QED
  BY <1>5, <1>6

\* Every node decides for its job, whatever replies it has had so far.
LEMMA DecisionNow ==
    ASSUME ServiceTypes, Len(replies) <= Most(errand)
    PROVE  Decides(errand, Decision(errand, <<>>), replies, Decision(errand, replies))
BY EveryNodeDecides DEF ServiceTypes

\* The invariant of the service nodes holds at first.
LEMMA ServiceStarts == ServiceInit => ServiceInv
<1> SUFFICES ASSUME ServiceInit PROVE ServiceInv
  OBVIOUS
<1>1. ServiceTypes
  <2>1. replies \in Seq(Reply(errand.node) \cup {NoReply}) /\ replies \in Seq(AnyReply)
    BY DEF ServiceInit
  <2>2. hops \in 0 .. MaxHops /\ carried \in Nat /\ late \in Nat
    BY MaxHopsAssumption DEF ServiceInit
  <2> QED
    BY <2>1, <2>2 DEF ServiceInit, ServiceTypes
<1>2. Deciding
  <2>1. Most(errand) \in Nat /\ Most(errand) >= 0
    <3>1. errand.retries \in Nat /\ errand.parts \in Nat
      BY ErrandAssumption DEF ServiceInit
    <3> QED
      BY <3>1 DEF Most
  <2> QED
    BY <2>1 DEF ServiceInit, Deciding, Asking
<1>3. Carrying
  <2>1. 1 .. 0 = {}
    OBVIOUS
  <2>2. Good(<<>>) = {}
    BY <2>1 DEF Good
  <2>3. Cardinality({}) = 0
    BY FS_EmptySet
  <2>4. Cardinality(Good(replies)) = 0 /\ carried = 0 /\ late = 0 /\ wire = NoWire
    BY <2>2, <2>3 DEF ServiceInit
  <2> HIDE DEF ServiceInit
  <2> QED
    BY <2>4 DEF Carrying
<1> QED
  BY <1>1, <1>2, <1>3 DEF ServiceInv

\* A node that goes on to its next request, or ends, keeps it.
LEMMA ProceedKeeps ==
    ASSUME ServiceInv, Proceed
    PROVE  ServiceInv'
<1> DEFINE d == Decision(errand, replies)
<1>1. /\ verdict = Pending /\ wire = NoWire /\ hops' = 0
      /\ UNCHANGED <<errand, replies, carried, late, unheard, rerouted>>
      /\ IF d.do = "ask" THEN wire' = [asked |-> d.method, method |-> d.method] /\ UNCHANGED verdict
         ELSE verdict' = d /\ UNCHANGED wire
  BY DEF Proceed
<1>2. Len(replies) <= Most(errand) /\ Len(replies) \in Nat
  BY <1>1 DEF ServiceInv, Deciding, Asking, ServiceTypes
<1>3. Decides(errand, Decision(errand, <<>>), replies, d)
  BY <1>2, DecisionNow DEF ServiceInv
<1>4. CASE d.do = "ask"
  <2>1. /\ wire' = [asked |-> d.method, method |-> d.method] /\ verdict' = Pending
        /\ d.method \in Asked /\ Len(replies) + 1 <= Most(errand)
    BY <1>1, <1>3, <1>4 DEF Decides
  <2>2. wire' # NoWire
    BY <2>1 DEF NoWire, Asked, Method
  <2>3. ServiceTypes'
    BY <1>1, <2>1, MaxHopsAssumption DEF ServiceInv, ServiceTypes
  <2>4. Deciding'
    <3>1. Decision(errand, <<>>).do = "ask"
      <4>1. CASE replies = <<>>
        BY <1>4, <4>1
      <4>2. CASE replies # <<>>
        BY <4>2 DEF ServiceInv, Deciding
      <4> QED
        BY <4>1, <4>2
    <3> HIDE DEF d
    <3> QED
      BY <1>1, <2>1, <2>2, <3>1 DEF Deciding, Asking
  <2>5. Carrying'
    <3> HIDE DEF d
    <3> QED
      BY <1>1, <2>1 DEF ServiceInv, Carrying, Good
  <2> QED
    BY <2>3, <2>4, <2>5 DEF ServiceInv
<1>5. CASE d.do # "ask"
  <2>1. verdict' = d /\ wire' = NoWire
    BY <1>1, <1>5
  <2>2. ServiceTypes'
    BY <1>1, <2>1, MaxHopsAssumption DEF ServiceInv, ServiceTypes
  <2>3. Deciding'
    <3>1. replies # <<>> => Decision(errand, <<>>).do = "ask"
      BY DEF ServiceInv, Deciding
    <3> QED
      BY <1>1, <1>2, <1>5, <2>1, <3>1 DEF Deciding, Asking
  <2>4. Carrying'
    <3> HIDE DEF d
    <3> QED
      BY <1>1, <2>1 DEF ServiceInv, Carrying, Good
  <2> QED
    BY <2>2, <2>3, <2>4 DEF ServiceInv
<1> QED
  BY <1>4, <1>5

\* A reply, or that there is none, and what the service carried out for it.
LEMMA ReplyKeeps ==
    ASSUME ServiceInv, wire # NoWire, NEW x \in Reply(errand.node) \cup {NoReply},
           Gets(x), UNCHANGED <<errand, hops, rerouted, verdict>>,
           carried' \in Nat, late' \in Nat, unheard' \in BOOLEAN, unheard => unheard',
           late' > 0 => unheard',
           \/ carried' = carried
           \/ carried' = carried + 1 /\ x.status \in {200, 201},
           ~rerouted /\ x.status \in {200, 201} => carried' = carried + 1
    PROVE  ServiceInv'
<1>1. /\ replies' = Append(replies, x) /\ wire' = NoWire /\ x \in AnyReply
      /\ replies \in Seq(AnyReply) /\ Len(replies) \in Nat /\ carried \in Nat
  BY ServiceReplies DEF Gets, ServiceInv, ServiceTypes
<1>2. Len(replies') = Len(replies) + 1 /\ replies' # <<>>
  BY <1>1
<1>3. ServiceTypes'
  <2>1. replies' \in Seq(Reply(errand.node) \cup {NoReply}) /\ replies' \in Seq(AnyReply)
    BY <1>1 DEF ServiceInv, ServiceTypes
  <2> QED
    BY <1>1, <2>1 DEF ServiceInv, ServiceTypes
<1>4. Deciding'
  <2>1. verdict = Pending /\ Len(replies) + 1 <= Most(errand) /\ Decision(errand, <<>>).do = "ask"
    BY DEF ServiceInv, Deciding, Asking
  <2>2. Len(replies') + 0 <= Most(errand)
    BY <1>1, <1>2, <2>1
  <2> QED
    BY <1>1, <2>1, <2>2 DEF Deciding, Asking
<1>5. Carrying'
  <2> DEFINE c == Cardinality(Good(replies))
  <2>1. /\ ~rerouted => c <= carried
        /\ ~unheard /\ carried > 0 => Good(replies) # {}
    BY DEF ServiceInv, Carrying
  <2>2. /\ c \in Nat /\ Good(replies) \subseteq Good(replies')
        /\ x.status \in {200, 201} => Good(replies') # {} /\ Cardinality(Good(replies')) = c + 1
        /\ x.status \notin {200, 201} => Good(replies') = Good(replies)
    BY <1>1, GoodGrows
  <2>3. ~rerouted => Cardinality(Good(replies')) <= carried'
    <3>1. CASE x.status \in {200, 201}
      BY <1>1, <2>1, <2>2, <3>1
    <3>2. CASE x.status \notin {200, 201}
      BY <1>1, <2>1, <2>2, <3>2
    <3> QED
      BY <3>1, <3>2
  <2>4. ~unheard' /\ carried' > 0 => Good(replies') # {}
    <3>1. CASE x.status \in {200, 201}
      BY <2>2, <3>1
    <3>2. CASE x.status \notin {200, 201}
      BY <2>1, <2>2, <3>2
    <3> QED
      BY <3>1, <3>2
  <2>5. Good(replies)' = Good(replies')
    BY DEF Good
  <2> QED
    BY <1>1, <2>3, <2>4, <2>5 DEF Carrying
<1> QED
  BY <1>3, <1>4, <1>5 DEF ServiceInv

\* A redirect the client follows keeps it.
LEMMA RedirectKeeps ==
    ASSUME ServiceInv, Redirect
    PROVE  ServiceInv'
<1>1. /\ wire # NoWire /\ hops < MaxHops /\ hops' = hops + 1
      /\ wire' \in {wire, [wire EXCEPT !.method = "GET"]}
      /\ rerouted' = (rerouted \/ wire'.method # wire.asked)
      /\ UNCHANGED <<errand, replies, carried, late, unheard, verdict>>
  BY DEF Redirect
<1>2. wire \in [asked : Asked, method : Asked] /\ hops \in 0 .. MaxHops /\ rerouted \in BOOLEAN
  BY <1>1 DEF ServiceInv, ServiceTypes
<1>3. wire' \in [asked : Asked, method : Asked] /\ wire'.asked = wire.asked /\ wire'.asked \in Asked
  BY <1>1, <1>2 DEF Asked, Method
<1>4. wire' # NoWire
  BY <1>3 DEF NoWire, Asked, Method
<1>5. rerouted' \in BOOLEAN /\ (rerouted => rerouted') /\ (wire'.method = wire'.asked \/ rerouted')
  BY <1>1, <1>2, <1>3
<1>6. ServiceTypes'
  BY <1>1, <1>2, <1>3, <1>5, MaxHopsAssumption DEF ServiceInv, ServiceTypes
<1>7. Deciding'
  BY <1>1, <1>4 DEF ServiceInv, Deciding, Asking
<1>8. Carrying'
  BY <1>1, <1>5 DEF ServiceInv, Carrying, Good
<1> QED
  BY <1>6, <1>7, <1>8 DEF ServiceInv

\* A request carried out after its caller gave up keeps it.
LEMMA CarriedOutLateKeeps ==
    ASSUME ServiceInv, CarriedOutLate
    PROVE  ServiceInv'
<1>1. /\ late > 0 /\ late' = late - 1 /\ carried' = carried + 1
      /\ UNCHANGED <<errand, replies, wire, hops, unheard, rerouted, verdict>>
  BY DEF CarriedOutLate
<1>2. late \in Nat /\ carried \in Nat /\ unheard
  BY <1>1 DEF ServiceInv, ServiceTypes, Carrying
<1>3. ServiceTypes'
  BY <1>1, <1>2 DEF ServiceInv, ServiceTypes
<1>4. Deciding'
  BY <1>1 DEF ServiceInv, Deciding, Asking
<1>5. Carrying'
  <2>1. Cardinality(Good(replies)) \in Nat
    BY <1>2, ServiceReplies, GoodGrows DEF ServiceInv, ServiceTypes
  <2>2. Good(replies)' = Good(replies)
    BY <1>1 DEF Good
  <2> QED
    BY <1>1, <1>2, <2>1, <2>2 DEF ServiceInv, Carrying
<1> QED
  BY <1>3, <1>4, <1>5 DEF ServiceInv

\* Every step of the service nodes keeps it.
LEMMA ServiceStepKeeps ==
    ASSUME ServiceInv, [ServiceNext]_serviceVars
    PROVE  ServiceInv'
<1>1. CASE Proceed
  BY <1>1, ProceedKeeps
<1>2. CASE ServiceAnswers
  <2>1. PICK x \in Reply(errand.node) :
            /\ Gets(x)
            /\ carried' = carried + (IF x.status < 300 /\ wire.method = wire.asked THEN 1 ELSE 0)
    BY <1>2 DEF ServiceAnswers
  <2>2. /\ wire # NoWire /\ UNCHANGED <<errand, hops, late, unheard, rerouted, verdict>>
        /\ carried \in Nat /\ late \in Nat /\ unheard \in BOOLEAN /\ (late > 0 => unheard)
        /\ (wire.method = wire.asked \/ rerouted)
    BY <1>2 DEF ServiceAnswers, ServiceInv, ServiceTypes, Carrying
  <2>3. x.status < 300 <=> x.status \in {200, 201}
    <3>1. PICK n \in {200, 201, 404} : x.status = n
      BY DEF Reply
    <3>2. n < 300 <=> n \in {200, 201}
      OBVIOUS
    <3> QED
      BY <3>1, <3>2
  <2>4. /\ carried' \in Nat /\ (carried' = carried \/ (carried' = carried + 1 /\ x.status \in {200, 201}))
        /\ ~rerouted /\ x.status \in {200, 201} => carried' = carried + 1
    BY <2>1, <2>2, <2>3
  <2>5. x \in Reply(errand.node) \cup {NoReply}
    OBVIOUS
  <2> QED
    BY <2>1, <2>2, <2>4, <2>5, ReplyKeeps
<1>3. CASE Redirect
  BY <1>3, RedirectKeeps
<1>4. CASE NoConnection \/ GiveUp
  <2>1. /\ wire # NoWire /\ Gets(NoReply) /\ UNCHANGED <<errand, hops, carried, rerouted, verdict>>
        /\ carried \in Nat /\ late' \in Nat /\ unheard' \in BOOLEAN /\ (unheard => unheard')
        /\ (late' > 0 => unheard')
    <3>1. /\ carried \in Nat /\ late \in Nat /\ unheard \in BOOLEAN /\ (late > 0 => unheard)
      BY DEF ServiceInv, ServiceTypes, Carrying
    <3>2. CASE NoConnection
      BY <3>1, <3>2 DEF NoConnection
    <3>3. CASE GiveUp
      <4>1. /\ wire # NoWire /\ Gets(NoReply) /\ UNCHANGED <<errand, hops, carried, rerouted, verdict>>
            /\ unheard' = TRUE /\ late' \in {late, late + 1}
        BY <3>1, <3>3 DEF GiveUp
      <4> QED
        BY <3>1, <4>1
    <3> QED
      BY <1>4, <3>2, <3>3
  <2>2. NoReply.status \notin {200, 201} /\ NoReply \in Reply(errand.node) \cup {NoReply}
    BY DEF NoReply
  <2> QED
    BY <2>1, <2>2, ReplyKeeps
<1>5. CASE CarriedOutLate
  BY <1>5, CarriedOutLateKeeps
<1>6. CASE UNCHANGED serviceVars
  BY <1>6 DEF serviceVars, ServiceInv, ServiceTypes, Deciding, Asking, Carrying, Good
<1> QED
  BY <1>1, <1>2, <1>3, <1>4, <1>5, <1>6 DEF ServiceNext

\* The invariant says what CallsAreSound says.
LEMMA SoundCalls == ServiceInv => CallsAreSound
<1> SUFFICES ASSUME ServiceInv PROVE CallsAreSound
  OBVIOUS
<1>1. /\ Len(replies) + Asking <= Most(errand) /\ Len(replies) \in Nat /\ Len(replies) <= Most(errand)
      /\ carried \in Nat /\ replies \in Seq(AnyReply)
  <2>1. PICK n \in Nat : n = Len(replies)
    BY DEF ServiceInv, ServiceTypes
  <2>2. n + Asking <= Most(errand) /\ Asking \in Nat
    BY <2>1 DEF ServiceInv, Deciding, Asking
  <2>3. Most(errand) \in Nat
    <3>1. {errand.retries, errand.parts} \subseteq Nat
      BY ErrandAssumption DEF ServiceInv, ServiceTypes
    <3> QED
      BY <3>1 DEF Most
  <2>4. n <= Most(errand)
    BY <2>2, <2>3
  <2> QED
    BY <2>1, <2>2, <2>4 DEF ServiceInv, ServiceTypes
<1>2. Decides(errand, Decision(errand, <<>>), replies, Decision(errand, replies))
  BY <1>1, DecisionNow DEF ServiceInv
<1>3. verdict # Pending => verdict = Decision(errand, replies) /\ verdict.do # "ask"
  BY DEF ServiceInv, Deciding
<1>4. /\ IsFiniteSet(Good(replies)) /\ Cardinality(Good(replies)) \in Nat
      /\ Good(replies) # {} => Cardinality(Good(replies)) >= 1
  <2>1. IsFiniteSet(Good(replies)) /\ Cardinality(Good(replies)) \in Nat
    BY <1>1, ServiceReplies, GoodGrows
  <2>2. Good(replies) # {} => Cardinality(Good(replies)) # 0
    BY <2>1, FS_EmptySet
  <2> QED
    BY <2>1, <2>2
<1>5. SuccessIsEarned
  <2> SUFFICES ASSUME Succeeds
               PROVE  IF verdict.content = "full"
                      THEN rerouted \/ carried >= IF errand.node = "summarizer" THEN errand.parts ELSE 1
                      ELSE Loose(errand)
    BY DEF SuccessIsEarned, Loose
  <2>1. verdict = Decision(errand, replies) /\ verdict.do = "end" /\ verdict.port # "error"
    BY <1>3 DEF Succeeds, Pending
  <2>2. CASE verdict.content # "full"
    BY <1>2, <2>1, <2>2 DEF Decides
  <2>3. CASE verdict.content = "full" /\ ~rerouted
    <3>1. Cardinality(Good(replies)) <= carried
      BY <2>3 DEF ServiceInv, Carrying
    <3>2. CASE errand.node = "summarizer"
      <4>1. errand.parts <= Len(replies) /\ \A i \in 1 .. Len(replies) : replies[i].status = 200
        BY <1>2, <2>1, <2>3, <3>2 DEF Decides
      <4>2. Good(replies) = 1 .. Len(replies)
        BY <4>1 DEF Good
      <4>3. Cardinality(1 .. Len(replies)) = Len(replies)
        <5>1. PICK n \in Nat : n = Len(replies)
          BY <1>1
        <5>2. Cardinality(1 .. n) = n
          BY FS_Interval
        <5> QED
          BY <5>1, <5>2
      <4>4. errand.parts \in Nat
        BY ErrandAssumption DEF ServiceInv, ServiceTypes
      <4>5. errand.parts <= carried
        BY <1>1, <3>1, <4>1, <4>2, <4>3, <4>4
      <4> QED
        BY <1>1, <2>3, <3>2, <4>4, <4>5
    <3>3. CASE errand.node # "summarizer"
      <4>1. Good(replies) # {}
        BY <1>2, <2>1, <2>3, <3>3 DEF Decides, Good
      <4>2. carried >= 1
        BY <1>1, <1>4, <3>1, <4>1
      <4> QED
        BY <2>3, <3>3, <4>2
    <3> QED
      BY <3>2, <3>3
  <2> QED
    BY <2>2, <2>3
<1>6. DoneIsTold
  <2> SUFFICES ASSUME verdict # Pending, ~Succeeds, carried > 0, errand.node \in Messengers, ~unheard
               PROVE  FALSE
    BY DEF DoneIsTold, Messengers
  <2>1. PICK i \in 1 .. Len(replies) : replies[i].status \in {200, 201}
    BY DEF ServiceInv, Carrying, Good
  <2>2. Most(errand) = 1
    BY DEF Most, Messengers
  <2>3. Len(replies) = 1 /\ replies # <<>> /\ Last(replies).status \in {200, 201}
    <3>1. PICK n \in Nat : n = Len(replies)
      BY <1>1
    <3>2. n <= 1 /\ i \in 1 .. n
      BY <1>1, <2>1, <2>2, <3>1
    <3>3. n = 1 /\ i = 1
      BY <3>2
    <3>4. Last(replies) = replies[1]
      BY <3>1, <3>3 DEF Last
    <3>5. replies # <<>>
      <4>1. Len(<<>>) = 0
        OBVIOUS
      <4>2. replies = <<>> => n = 0
        BY <3>1, <4>1, Zenon
      <4> QED
        BY <3>3, <4>2
    <3> QED
      BY <2>1, <3>1, <3>3, <3>4, <3>5
  <2>4. Decision(errand, <<>>).do = "ask"
    BY <2>3 DEF ServiceInv, Deciding
  <2> QED
    BY <1>2, <1>3, <2>3, <2>4 DEF Decides, Succeeds
<1>7. CallsAreFew
  <2>1. Len(replies) + (IF wire = NoWire THEN 0 ELSE 1) <=
            CASE errand.node = "structured-output" -> 2 * errand.retries + 1
              [] errand.node = "summarizer" /\ errand.parts > 0 -> errand.parts + 1
              [] OTHER -> 1
    BY <1>1 DEF Asking, Most
  <2>2. verdict.do = "abort" => replies = <<>>
    <3> SUFFICES ASSUME verdict.do = "abort" PROVE replies = <<>>
      OBVIOUS
    <3>1. Decision(errand, <<>>).do # "ask"
      BY <1>2, <1>3 DEF Decides, Pending
    <3> QED
      BY <3>1 DEF ServiceInv, Deciding
  <2> QED
    BY <2>1, <2>2 DEF CallsAreFew
<1> QED
  BY <1>5, <1>6, <1>7 DEF CallsAreSound

\* The invariant gives every variable its type.
LEMMA ServiceTyped == ServiceInv => ServiceTypeOK
<1> SUFFICES ASSUME ServiceInv PROVE ServiceTypeOK
  OBVIOUS
<1>1. DOMAIN wire = {"asked", "method"}
  BY DEF ServiceInv, ServiceTypes, NoWire
<1>2. verdict.do \in {"run", "end", "abort"}
  <2>1. CASE verdict = Pending
    BY <2>1 DEF Pending
  <2>2. CASE verdict # Pending
    <3>1. /\ verdict = Decision(errand, replies) /\ verdict.do # "ask"
          /\ wire = NoWire /\ Len(replies) + Asking <= Most(errand)
      BY <2>2 DEF ServiceInv, Deciding
    <3>2. Len(replies) <= Most(errand)
      BY <3>1 DEF Asking, ServiceInv, ServiceTypes
    <3> QED
      BY <3>1, <3>2, DecisionNow DEF ServiceInv, Decides
  <2> QED
    BY <2>1, <2>2
<1> QED
  BY <1>1, <1>2 DEF ServiceInv, ServiceTypes, ServiceTypeOK

\* For any jobs and any number of redirects: what a node reports of a service is so,
\* and it reports it after few calls.
THEOREM ServicesSound == ServiceSpec => []CallsAreSound
<1>1. ServiceInit => ServiceInv
  BY ServiceStarts
<1>2. ServiceInv /\ [ServiceNext]_serviceVars => ServiceInv'
  BY ServiceStepKeeps
<1>3. ServiceInv => CallsAreSound
  BY SoundCalls
<1> QED
  BY <1>1, <1>2, <1>3, PTL DEF ServiceSpec

\* The state of a node that calls a service is of its type.
THEOREM ServicesTyped == ServiceSpec => []ServiceTypeOK
<1>1. ServiceInit => ServiceInv
  BY ServiceStarts
<1>2. ServiceInv /\ [ServiceNext]_serviceVars => ServiceInv'
  BY ServiceStepKeeps
<1>3. ServiceInv => ServiceTypeOK
  BY ServiceTyped
<1> QED
  BY <1>1, <1>2, <1>3, PTL DEF ServiceSpec

----------------------------------------------------------------------------
(* Nodes that remember: what the steps say.                                  *)

AnyPayload ==
    [id : Conversation \cup {""}, message : Nat]
        \cup [customer : BOOLEAN, metadata : {"missing", "object", "text"}]
        \cup [ticket : 0 .. 1, agent : {"", "ann"}]
        \cup [entry : EntryId \cup {""}, vector : Embedding \cup {<<>>}]
        \cup {[id |-> ""], <<>>}
AnyStep == [run : Run \cup {"any"}, node : (UNION Memories) \cup {"begins"}, payload : AnyPayload]

\* BeganAt and SavedBy, of any steps q; b is the step that begins the run.
BeganLast(q, b, i) == i \in 0 .. Len(q) /\ (i = 0 \/ q[i] = b) /\ \A j \in i + 1 .. Len(q) : q[j] # b
BeganIn(q, b) == CHOOSE i \in 0 .. Len(q) : (i = 0 \/ q[i] = b) /\ \A j \in i + 1 .. Len(q) : q[j] # b
SavedIn(q, b, r, id) == Picked(SubSeq(q, BeganIn(q, b) + 1, Len(q)), Saves(r, id))

\* A place at which the run's last beginning stands is the one BeganIn names.
LEMMA BeganIs ==
    ASSUME NEW q \in Seq(AnyStep), NEW b, NEW i, BeganLast(q, b, i)
    PROVE  BeganIn(q, b) = i
<1>1. PICK n \in Nat : n = Len(q)
  OBVIOUS
<1>2. i \in 0 .. n /\ (i = 0 \/ q[i] = b) /\ \A j \in i + 1 .. n : q[j] # b
  BY <1>1 DEF BeganLast
<1>3. PICK k : k = BeganIn(q, b)
  OBVIOUS
<1>4. k \in 0 .. n /\ (k = 0 \/ q[k] = b) /\ \A j \in k + 1 .. n : q[j] # b
  BY <1>1, <1>2, <1>3 DEF BeganIn
<1>5. ~(k < i) /\ ~(i < k)
  <2>1. k < i => i \in k + 1 .. n /\ i # 0
    BY <1>2, <1>4
  <2>2. i < k => k \in i + 1 .. n /\ k # 0
    BY <1>2, <1>4
  <2> QED
    BY <1>2, <1>4, <2>1, <2>2
<1> QED
  BY <1>2, <1>3, <1>4, <1>5

\* BeganIn names such a place.
LEMMA BeganSomewhere ==
    ASSUME NEW q \in Seq(AnyStep), NEW b
    PROVE  BeganLast(q, b, BeganIn(q, b))
<1>1. PICK n \in Nat : n = Len(q)
  OBVIOUS
<1> DEFINE s == {i \in 1 .. n : q[i] = b}
<1>2. \E i : BeganLast(q, b, i)
  <2>1. CASE s = {}
    <3>1. BeganLast(q, b, 0)
      BY <1>1, <2>1 DEF BeganLast
    <3> QED
      BY <3>1
  <2>2. CASE s # {}
    <3>1. PICK m : m = Max(s)
      OBVIOUS
    <3>2. m \in s /\ \A y \in s : m >= y
      <4>1. s \in SUBSET (1 .. n)
        OBVIOUS
      <4> HIDE DEF s
      <4> QED
        BY <2>2, <3>1, <4>1, GreatestUpTo
    <3>3. m \in 0 .. n /\ q[m] = b
      BY <3>2
    <3>4. ASSUME NEW j \in m + 1 .. n PROVE q[j] # b
      <4>1. j \in 1 .. n /\ ~(m >= j)
        BY <3>3
      <4> QED
        BY <3>2, <4>1
    <3>5. BeganLast(q, b, m)
      BY <1>1, <3>3, <3>4 DEF BeganLast
    <3> QED
      BY <3>5
  <2> QED
    BY <2>1, <2>2
<1> QED
  BY <1>2, BeganIs

\* An appended step moves the beginning only when it is one itself.
LEMMA BeganAppend ==
    ASSUME NEW q \in Seq(AnyStep), NEW b, NEW s \in AnyStep
    PROVE  BeganIn(Append(q, s), b) = IF s = b THEN Len(q) + 1 ELSE BeganIn(q, b)
<1>1. PICK n \in Nat : n = Len(q)
  OBVIOUS
<1>2. Append(q, s) \in Seq(AnyStep)
  OBVIOUS
<1>3. PICK q2 \in Seq(AnyStep) : q2 = Append(q, s)
  BY <1>2
<1>4. Len(q2) = n + 1 /\ q2[n + 1] = s /\ \A i \in 1 .. n : q2[i] = q[i]
  BY <1>1, <1>3
<1>5. CASE s = b
  <2>1. BeganLast(q2, b, n + 1)
    BY <1>4, <1>5 DEF BeganLast
  <2> QED
    BY <1>1, <1>3, <1>5, <2>1, BeganIs
<1>6. CASE s # b
  <2>1. PICK i : i = BeganIn(q, b)
    OBVIOUS
  <2>2. i \in 0 .. n /\ (i = 0 \/ q[i] = b) /\ \A j \in i + 1 .. n : q[j] # b
    BY <1>1, <2>1, BeganSomewhere DEF BeganLast
  <2>3. \A j \in i + 1 .. n + 1 : q2[j] # b
    <3> SUFFICES ASSUME NEW j \in i + 1 .. n + 1 PROVE q2[j] # b
      OBVIOUS
    <3>1. j = n + 1 \/ (j \in i + 1 .. n /\ j \in 1 .. n)
      BY <2>2
    <3> QED
      BY <1>4, <1>6, <2>2, <3>1
  <2>4. i = 0 \/ q2[i] = b
    <3>1. i # 0 => i \in 1 .. n
      BY <2>2
    <3> QED
      BY <1>4, <2>2, <3>1
  <2>5. BeganLast(q2, b, i)
    <3>1. i \in 0 .. n + 1
      BY <2>2
    <3> QED
      BY <1>4, <2>3, <2>4, <3>1 DEF BeganLast
  <2> QED
    BY <1>3, <1>6, <2>1, <2>5, BeganIs
<1> QED
  BY <1>5, <1>6

\* The tail of a longer history is the longer tail.
LEMMA TailAppend ==
    ASSUME NEW D, NEW q \in Seq(D), NEW s \in D, NEW k \in 0 .. Len(q)
    PROVE  /\ SubSeq(Append(q, s), k + 1, Len(q) + 1) = Append(SubSeq(q, k + 1, Len(q)), s)
           /\ SubSeq(q, k + 1, Len(q)) \in Seq(D)
<1>1. PICK n \in Nat : n = Len(q)
  OBVIOUS
<1>2. k \in 0 .. n
  BY <1>1
<1>3. PICK q2 : q2 = Append(q, s)
  OBVIOUS
<1>4. Len(q2) = n + 1 /\ q2[n + 1] = s /\ (\A i \in 1 .. n : q2[i] = q[i]) /\ q2 \in Seq(D)
  BY <1>1, <1>3
<1>5. PICK a : a = SubSeq(q, k + 1, n)
  OBVIOUS
<1>6. a \in Seq(D) /\ Len(a) = n - k /\ \A i \in 1 .. n - k : a[i] = q[k + i]
  <2>1. a = [i \in 1 .. n - k |-> q[k + i]]
    BY <1>1, <1>2, <1>5
  <2>2. \A i \in 1 .. n - k : q[k + i] \in D
    BY <1>1, <1>2
  <2>3. n - k \in Nat
    BY <1>2
  <2> QED
    BY <2>1, <2>2, <2>3
<1>7. PICK c : c = SubSeq(q2, k + 1, n + 1)
  OBVIOUS
<1>8. c \in Seq(D) /\ Len(c) = n - k + 1 /\ \A i \in 1 .. n - k + 1 : c[i] = q2[k + i]
  <2>1. c = [i \in 1 .. n - k + 1 |-> q2[k + i]]
    BY <1>2, <1>4, <1>7
  <2>2. \A i \in 1 .. n - k + 1 : q2[k + i] \in D
    BY <1>2, <1>4
  <2>3. n - k + 1 \in Nat
    BY <1>2
  <2> QED
    BY <2>1, <2>2, <2>3
<1>9. PICK d : d = Append(a, s)
  OBVIOUS
<1>10. d \in Seq(D) /\ Len(d) = n - k + 1 /\ d[n - k + 1] = s /\ \A i \in 1 .. n - k : d[i] = a[i]
  <2>1. d \in Seq(D) /\ Len(d) = Len(a) + 1 /\ d[Len(a) + 1] = s /\ \A i \in 1 .. Len(a) : d[i] = a[i]
    <3>1. PICK u \in Seq(D) : u = a
      BY <1>6
    <3>2. d = Append(u, s)
      BY <1>9, <3>1
    <3>3. d \in Seq(D) /\ Len(d) = Len(u) + 1
      BY <3>2
    <3>4. d[Len(u) + 1] = s
      BY <3>2
    <3>5. \A i \in 1 .. Len(u) : d[i] = u[i]
      BY <3>2
    <3> QED
      BY <3>1, <3>3, <3>4, <3>5
  <2> QED
    BY <1>6, <2>1
<1>11. ASSUME NEW i \in 1 .. n - k + 1 PROVE c[i] = d[i]
  <2>1. CASE i = n - k + 1
    <3>1. k + i = n + 1
      BY <1>2, <2>1
    <3> QED
      BY <1>4, <1>8, <1>10, <2>1, <3>1
  <2>2. CASE i # n - k + 1
    <3>1. i \in 1 .. n - k /\ k + i \in 1 .. n
      BY <1>2, <2>2
    <3> QED
      BY <1>4, <1>6, <1>8, <1>10, <3>1
  <2> QED
    BY <2>1, <2>2
<1>12. c = d
  BY <1>8, <1>10, <1>11
<1>13. SubSeq(Append(q, s), k + 1, Len(q) + 1) = c
  BY <1>1, <1>3, <1>7
<1>14. Append(SubSeq(q, k + 1, Len(q)), s) = d
  BY <1>1, <1>5, <1>9
<1>15. SubSeq(q, k + 1, Len(q)) \in Seq(D)
  BY <1>1, <1>5, <1>6
<1> QED
  BY <1>12, <1>13, <1>14, <1>15

\* What the step s adds to what was saved.
Adds(q, b, s, r, id) ==
    SavedIn(Append(q, s), b, r, id) =
        IF s = b THEN <<>>
        ELSE IF s \in Saves(r, id) THEN Append(SavedIn(q, b, r, id), s)
        ELSE SavedIn(q, b, r, id)

\* An appended step adds to what a run saved exactly when it saves there.
LEMMA SavedAppend ==
    ASSUME NEW q \in Seq(AnyStep), NEW b, NEW s \in AnyStep, NEW r, NEW id
    PROVE  /\ SavedIn(q, b, r, id) \in Seq(AnyStep)
           /\ Adds(q, b, s, r, id)
<1>1. PICK n \in Nat : n = Len(q)
  OBVIOUS
<1>2. PICK k \in 0 .. n : k = BeganIn(q, b)
  BY <1>1, BeganSomewhere DEF BeganLast
<1>3. PICK t \in Seq(AnyStep) : t = SubSeq(q, k + 1, n)
  BY <1>1, <1>2, TailAppend
<1>4. SavedIn(q, b, r, id) = Picked(t, Saves(r, id)) /\ Picked(t, Saves(r, id)) \in Seq(AnyStep)
  <2>1. s \in AnyStep /\ t \in Seq(AnyStep)
    BY <1>3
  <2>2. Picked(t, Saves(r, id)) \in Seq(AnyStep)
    BY <2>1, PickedAppend
  <2> QED
    BY <1>1, <1>2, <1>3, <2>2 DEF SavedIn
<1>5. PICK q2 : q2 = Append(q, s)
  OBVIOUS
<1>6. Len(q2) = n + 1
  BY <1>1, <1>5
<1>7. CASE s = b
  <2>1. BeganIn(q2, b) = n + 1
    BY <1>1, <1>5, <1>7, BeganAppend
  <2>2. SubSeq(q2, n + 2, n + 1) = <<>>
    <3>1. q2 \in Seq(AnyStep)
      BY <1>5
    <3> QED
      BY <1>6, <3>1
  <2>3. SavedIn(q2, b, r, id) = <<>>
    <3>1. n + 1 + 1 = n + 2
      OBVIOUS
    <3> QED
      BY <1>6, <2>1, <2>2, <3>1, PickedNone DEF SavedIn
  <2> QED
    BY <1>4, <1>5, <1>7, <2>3 DEF Adds
<1>8. CASE s # b
  <2>1. BeganIn(q2, b) = k
    BY <1>1, <1>2, <1>5, <1>8, BeganAppend
  <2>2. SubSeq(q2, k + 1, n + 1) = Append(t, s)
    <3>1. k \in 0 .. Len(q)
      BY <1>1, <1>2
    <3>2. SubSeq(Append(q, s), k + 1, Len(q) + 1) = Append(SubSeq(q, k + 1, Len(q)), s)
      BY <3>1, TailAppend
    <3> QED
      BY <1>1, <1>3, <1>5, <3>2
  <2>3. SavedIn(q2, b, r, id) = Picked(Append(t, s), Saves(r, id))
    BY <1>6, <2>1, <2>2 DEF SavedIn
  <2>4. Picked(Append(t, s), Saves(r, id))
            = IF s \in Saves(r, id) THEN Append(Picked(t, Saves(r, id)), s) ELSE Picked(t, Saves(r, id))
    BY PickedAppend
  <2> QED
    BY <1>4, <1>5, <1>8, <2>3, <2>4 DEF Adds
<1> QED
  BY <1>7, <1>8

\* Before any step nothing is saved.
LEMMA SavedNone ==
    ASSUME NEW b, NEW r, NEW id
    PROVE  SavedIn(<<>>, b, r, id) = <<>>
<1>1. <<>> \in Seq(AnyStep) /\ Len(<<>>) = 0
  OBVIOUS
<1>2. BeganLast(<<>>, b, 0)
  BY <1>1 DEF BeganLast
<1>3. BeganIn(<<>>, b) = 0
  BY <1>1, <1>2, BeganIs
<1>4. SubSeq(<<>>, 1, 0) = <<>>
  OBVIOUS
<1> QED
  <2>1. 0 + 1 = 1
    OBVIOUS
  <2> QED
    BY <1>1, <1>3, <1>4, <2>1, PickedNone DEF SavedIn

----------------------------------------------------------------------------
(* Conversations.                                                            *)

LatestCount(q) == IF Len(q) < MaxMessages THEN Len(q) ELSE MaxMessages
Latest(q) == [i \in 1 .. LatestCount(q) |-> q[Len(q) - LatestCount(q) + i].payload.message]
Trim(all) == IF Len(all) - MaxMessages > 0
             THEN SubSeq(all, Len(all) - MaxMessages + 1, Len(all)) ELSE all

\* Nothing saved leaves no latest messages.
LEMMA LatestNone == Latest(<<>>) = <<>>
<1>1. MaxMessages \in Nat
  BY MemoryAssumption
<1>2. LatestCount(<<>>) = 0
  BY <1>1 DEF LatestCount
<1>3. 1 .. 0 = {}
  OBVIOUS
<1>4. Latest(<<>>) = [i \in 1 .. 0 |-> <<>>[Len(<<>>) - LatestCount(<<>>) + i].payload.message]
  BY <1>2 DEF Latest
<1> QED
  BY <1>4

\* Trimming after an append keeps the latest messages.
LEMMA LatestAppend ==
    ASSUME NEW q \in Seq(AnyStep), NEW s \in AnyStep, NEW m, m = s.payload.message
    PROVE  Trim(Append(Latest(q), m)) = Latest(Append(q, s))
<1>0. MaxMessages \in Nat
  BY MemoryAssumption
<1>1. PICK l \in Nat : l = Len(q)
  OBVIOUS
<1>2. PICK n \in Nat : n = LatestCount(q) /\ n <= l /\ n <= MaxMessages /\ (n = l \/ n = MaxMessages)
                       /\ (l < MaxMessages => n = l) /\ (~(l < MaxMessages) => n = MaxMessages)
  BY <1>0, <1>1 DEF LatestCount
<1>3. PICK V : V = {q[i].payload.message : i \in 1 .. l} \cup {m}
  OBVIOUS
<1>4. PICK a \in Seq(V) : a = Latest(q) /\ Len(a) = n /\ \A i \in 1 .. n : a[i] = q[l - n + i].payload.message
  <2>1. Latest(q) = [i \in 1 .. n |-> q[l - n + i].payload.message]
    BY <1>1, <1>2 DEF Latest
  <2>2. \A i \in 1 .. n : q[l - n + i].payload.message \in V
    <3> SUFFICES ASSUME NEW i \in 1 .. n PROVE q[l - n + i].payload.message \in V
      OBVIOUS
    <3>1. l - n + i \in 1 .. l
      BY <1>2
    <3> QED
      BY <1>3, <3>1
  <2>3. PICK w : w = [i \in 1 .. n |-> q[l - n + i].payload.message]
    OBVIOUS
  <2>4. \A i \in 1 .. n : w[i] = q[l - n + i].payload.message /\ w[i] \in V
    BY <2>2, <2>3
  <2>5. w \in [1 .. n -> V]
    BY <2>3, <2>4
  <2>6. w \in Seq(V) /\ Len(w) = n
    BY <2>5
  <2> QED
    BY <2>1, <2>3, <2>4, <2>6
<1>5. m \in V
  BY <1>3
<1>6. PICK c \in Seq(V) : c = Append(a, m)
  <2>1. Append(a, m) \in Seq(V)
    BY <1>5
  <2> QED
    BY <2>1
<1>7. Len(c) = n + 1 /\ c[n + 1] = m /\ \A i \in 1 .. n : c[i] = a[i]
  <2>1. Len(c) = Len(a) + 1 /\ c[Len(a) + 1] = m /\ \A i \in 1 .. Len(a) : c[i] = a[i]
    BY <1>6
  <2> QED
    BY <1>4, <2>1
<1>8. PICK q2 \in Seq(AnyStep) : q2 = Append(q, s)
  <2>1. Append(q, s) \in Seq(AnyStep)
    OBVIOUS
  <2> QED
    BY <2>1
<1>9. Len(q2) = l + 1 /\ q2[l + 1] = s /\ \A i \in 1 .. l : q2[i] = q[i]
  BY <1>1, <1>8
<1>10. CASE l < MaxMessages
  <2>1. n = l /\ LatestCount(q2) = l + 1
    BY <1>0, <1>2, <1>9, <1>10 DEF LatestCount
  <2>2. Trim(c) = c
    <3>1. ~(l + 1 - MaxMessages > 0)
      BY <1>0, <1>10
    <3>2. Len(c) = l + 1
      BY <1>7, <2>1
    <3> QED
      BY <1>0, <3>1, <3>2 DEF Trim
  <2>3. Latest(q2) = [i \in 1 .. l + 1 |-> q2[l + 1 - (l + 1) + i].payload.message]
    BY <1>9, <2>1 DEF Latest
  <2>4. c = [i \in 1 .. l + 1 |-> c[i]]
    BY <1>7, <2>1
  <2>5. ASSUME NEW i \in 1 .. l + 1 PROVE c[i] = q2[l + 1 - (l + 1) + i].payload.message
    <3>1. l + 1 - (l + 1) + i = i
      OBVIOUS
    <3>2. CASE i = l + 1
      BY <1>7, <1>9, <2>1, <3>1, <3>2
    <3>3. CASE i # l + 1
      <4>1. i \in 1 .. l /\ l - n + i = i
        BY <2>1, <3>3
      <4> QED
        BY <1>4, <1>7, <1>9, <2>1, <3>1, <4>1
    <3> QED
      BY <3>2, <3>3
  <2>6. c = Latest(q2)
    BY <2>3, <2>4, <2>5
  <2> QED
    BY <1>4, <1>6, <1>8, <2>2, <2>6
<1>11. CASE ~(l < MaxMessages)
  <2>1. n = MaxMessages /\ LatestCount(q2) = n
    BY <1>0, <1>2, <1>9, <1>11 DEF LatestCount
  <2>2. Trim(c) = SubSeq(c, 2, n + 1)
    <3>1. n + 1 - n > 0 /\ n + 1 - n + 1 = 2
      OBVIOUS
    <3>2. Len(c) = n + 1
      BY <1>7
    <3> QED
      BY <2>1, <3>1, <3>2 DEF Trim
  <2>3. SubSeq(c, 2, n + 1) = [i \in 1 .. n |-> c[1 + i]]
    <3>1. SubSeq(c, 2, n + 1) = [i \in 1 .. (n + 1 - 2 + 1) |-> c[2 + i - 1]]
      BY <1>7
    <3>2. n + 1 - 2 + 1 = n /\ \A i \in 1 .. n : 2 + i - 1 = 1 + i
      OBVIOUS
    <3> QED
      BY <3>1, <3>2
  <2>4. Latest(q2) = [i \in 1 .. n |-> q2[l + 1 - n + i].payload.message]
    BY <1>9, <2>1 DEF Latest
  <2>5. ASSUME NEW i \in 1 .. n PROVE c[1 + i] = q2[l + 1 - n + i].payload.message
    <3>1. CASE i = n
      <4>1. 1 + i = n + 1 /\ l + 1 - n + i = l + 1
        BY <3>1
      <4> QED
        BY <1>7, <1>9, <4>1
    <3>2. CASE i # n
      <4>1. 1 + i \in 1 .. n /\ l - n + (1 + i) = l + 1 - n + i /\ l + 1 - n + i \in 1 .. l
        BY <1>2, <3>2
      <4> QED
        BY <1>4, <1>7, <1>9, <4>1
    <3> QED
      BY <3>1, <3>2
  <2>6. Trim(c) = Latest(q2)
    BY <2>2, <2>3, <2>4, <2>5
  <2> QED
    BY <1>4, <1>6, <1>8, <2>6
<1> QED
  BY <1>10, <1>11

\* A node's own state.
Instance(x) ==
    x = [conversations |-> x.conversations, queue |-> x.queue, ticks |-> x.ticks, up |-> x.up]
Messages(x, id) == IF id \in DOMAIN x.conversations THEN x.conversations[id].messages ELSE <<>>

\* What a save does and says.
Saving(x, p, t) ==
    /\ Instance(t.inst) /\ t.port = "saved"
    /\ DOMAIN t.inst.queue = DOMAIN x.queue
    /\ t.about = Trim(Append(Messages(x, p.id), p.message))
    /\ Messages(t.inst, p.id) = t.about
    /\ \A id : id # p.id => Messages(t.inst, id) = Messages(x, id)

\* Save adds one message to one conversation and leaves the others.
LEMMA SaveSaves ==
    ASSUME NEW STATE x, Instance(x), NEW p
    PROVE  Saving(x, p, Save(x, p))
<1>1. PICK c, q, n, u : c = x.conversations /\ q = x.queue /\ n = x.ticks /\ u = x.up
  OBVIOUS
<1>2. x = [conversations |-> c, queue |-> q, ticks |-> n, up |-> u]
  BY <1>1 DEF Instance
<1>3. PICK kept : kept = Trim(Append(Messages(x, p.id), p.message))
  OBVIOUS
<1> DEFINE f == [k \in DOMAIN c \cup {p.id} |-> IF k = p.id THEN [messages |-> kept, updated |-> clock] ELSE c[k]]
<1>4. Save(x, p) = Answer([x EXCEPT !.conversations = f], "saved", kept)
  BY <1>1, <1>3 DEF Save, Trim, Messages
<1>5. [x EXCEPT !.conversations = f] = [conversations |-> f, queue |-> q, ticks |-> n, up |-> u]
  BY <1>2
<1>6. f[p.id].messages = kept /\ p.id \in DOMAIN f
  OBVIOUS
<1>7. ASSUME NEW id, id # p.id
      PROVE  (IF id \in DOMAIN f THEN f[id].messages ELSE <<>>) = IF id \in DOMAIN c THEN c[id].messages ELSE <<>>
  BY <1>7
<1> HIDE DEF f
<1>8. PICK y : y = [conversations |-> f, queue |-> q, ticks |-> n, up |-> u]
  OBVIOUS
<1>9. Save(x, p) = [inst |-> y, port |-> "saved", about |-> kept]
  BY <1>4, <1>5, <1>8 DEF Answer
<1>10. y.conversations = f /\ y.queue = q /\ Instance(y)
  BY <1>8 DEF Instance
<1>11. Messages(y, p.id) = kept /\ \A id : id # p.id => Messages(y, id) = Messages(x, id)
  BY <1>1, <1>6, <1>7, <1>10 DEF Messages
<1> QED
  BY <1>1, <1>3, <1>9, <1>10, <1>11 DEF Saving

----------------------------------------------------------------------------
(* What each node answers.                                                   *)

\* A node of its own: only a node that saves has conversations, only one that escalates tickets.
OwnState(n, x) ==
    /\ Instance(x)
    /\ n # "save" => DOMAIN x.conversations = {}
    /\ n # "escalate" => DOMAIN x.queue = {}

Answers(n, p, x, t) ==
    /\ OwnState(n, t.inst)
    /\ t.port \notin {"status", "resolved", "assigned"}
    /\ t.port = "saved" => n = "save"
    /\ n = "save" => (t.port = "error" /\ t.inst = x) \/ (t.port = "saved" /\ Saving(x, p, t))
    /\ t.port \in {"history", "list"} => t.about = <<>>
    /\ n = "clear" /\ t.port = "cleared" => t.about = <<>>
    /\ t.port = "results" => n = "search" /\ p.vector # <<>> /\ t.about = Search(collection, p.vector)
    /\ n = "store" => t.port = IF p.vector = <<>> THEN "error" ELSE "stored"
    /\ n = "delete" => t.port = IF p.entry = "" THEN "error" ELSE "deleted"
    /\ n = "wipe" => t.port = "cleared"
    /\ n = "begins" => t.port = "error"

\* The empty set has one listing, the empty sequence.
LEMMA NothingListed == SetToSeq({}) = <<>>
<1>1. Cardinality({}) = 0 /\ 1 .. 0 = {}
  BY FS_EmptySet
<1>2. <<>> \in [1 .. 0 -> {}] /\ \A f \in [1 .. 0 -> {}] : f = <<>>
  BY <1>1
<1>3. IsInjective(<<>>)
  BY DEF IsInjective
<1>4. PICK g : g = CHOOSE f \in [1 .. 0 -> {}] : IsInjective(f)
  OBVIOUS
<1>5. g \in [1 .. 0 -> {}]
  BY <1>2, <1>3, <1>4
<1> QED
  BY <1>1, <1>2, <1>4, <1>5 DEF SetToSeq

\* An error is a right answer of every node that writes no vectors.
LEMMA ErrorAnswers ==
    ASSUME NEW n, n \notin {"store", "delete", "wipe"}, NEW p, NEW STATE x, OwnState(n, x)
    PROVE  Answers(n, p, x, Error(x))
BY DEF Answers, Error, Answer

\* Forgetting a conversation leaves a state the node may be in.
LEMMA ForgetsOwn ==
    ASSUME NEW n, NEW id, NEW STATE x, OwnState(n, x)
    PROVE  OwnState(n, Forget(x, id))
<1>1. PICK c, q, k, u : c = x.conversations /\ q = x.queue /\ k = x.ticks /\ u = x.up
  OBVIOUS
<1>2. x = [conversations |-> c, queue |-> q, ticks |-> k, up |-> u]
  BY <1>1 DEF OwnState, Instance
<1> DEFINE f == [d \in DOMAIN c \ {id} |-> c[d]]
<1>3. Forget(x, id) = [conversations |-> f, queue |-> q, ticks |-> k, up |-> u]
  BY <1>2 DEF Forget
<1>4. DOMAIN f \subseteq DOMAIN c
  OBVIOUS
<1> HIDE DEF f
<1>5. PICK y : y = [conversations |-> f, queue |-> q, ticks |-> k, up |-> u]
  OBVIOUS
<1>6. OwnState(n, y)
  BY <1>1, <1>4, <1>5 DEF OwnState, Instance
<1> QED
  BY <1>3, <1>5, <1>6

\* The conversation nodes answer as promised.
LEMMA ConversationAnswers ==
    ASSUME NEW n \in Conversing, NEW p, NEW STATE x, OwnState(n, x)
    PROVE  Answers(n, p, x, NodeAction(x, n, p))
<1>1. CASE n # "list" /\ p.id = ""
  <2>1. NodeAction(x, n, p) = Error(x)
    BY <1>1 DEF NodeAction, Conversing, Searching
  <2> QED
    BY <2>1, ErrorAnswers DEF Conversing
<1>2. CASE n = "save" /\ p.id # ""
  <2>1. NodeAction(x, n, p) = Save(x, p)
    BY <1>2 DEF NodeAction, Searching
  <2>2. PICK t : t = Save(x, p)
    OBVIOUS
  <2>3. Saving(x, p, t)
    BY <2>2, SaveSaves DEF OwnState
  <2>4. Answers(n, p, x, t)
    BY <1>2, <2>3 DEF Answers, Saving, OwnState
  <2> QED
    BY <2>1, <2>2, <2>4
<1>3. CASE n = "load" /\ p.id # ""
  <2>1. NodeAction(x, n, p) = Load(x, p)
    BY <1>3 DEF NodeAction, Searching
  <2>2. Load(x, p) = [inst |-> x, port |-> "history", about |-> <<>>]
    BY <1>3 DEF Load, Answer, OwnState
  <2> QED
    <3>1. n = "load"
      BY <1>3
    <3> QED
      BY <2>1, <2>2, <3>1 DEF Answers
<1>4. CASE n = "clear" /\ p.id # ""
  <2>1. NodeAction(x, n, p) = Clear(x, p)
    BY <1>4 DEF NodeAction, Searching
  <2>2. PICK y : y = Forget(x, p.id)
    OBVIOUS
  <2>3. Clear(x, p) = [inst |-> y, port |-> "cleared", about |-> <<>>]
    BY <1>4, <2>2 DEF Clear, Answer, OwnState
  <2>4. OwnState(n, y)
    BY <2>2, ForgetsOwn
  <2> QED
    <3>1. n = "clear"
      BY <1>4
    <3> QED
      BY <2>1, <2>3, <2>4, <3>1 DEF Answers
<1>5. CASE n = "list"
  <2>1. NodeAction(x, n, p) = List(x, p)
    BY <1>5 DEF NodeAction, Searching
  <2>2. List(x, p) = [inst |-> x, port |-> "list", about |-> <<>>]
    BY <1>5, NothingListed DEF List, Answer, OwnState
  <2> QED
    BY <1>5, <2>1, <2>2 DEF Answers
<1> QED
  BY <1>1, <1>2, <1>3, <1>4, <1>5 DEF Conversing

\* So do the nodes that hand a conversation over.
LEMMA HandOffAnswers ==
    ASSUME NEW n \in HandingOff, NEW p, NEW STATE x, OwnState(n, x)
    PROVE  Answers(n, p, x, NodeAction(x, n, p))
<1>1. CASE n = "escalate"
  <2>1. NodeAction(x, n, p) = Escalate(x, p)
    BY <1>1 DEF NodeAction, Searching
  <2>2. PICK c, q, k, u : c = x.conversations /\ q = x.queue /\ k = x.ticks /\ u = x.up
    OBVIOUS
  <2>3. x = [conversations |-> c, queue |-> q, ticks |-> k, up |-> u]
    BY <2>2 DEF OwnState, Instance
  <2> DEFINE ticket == [status |-> "pending", agent |-> ""]
  <2>13. PICK q2 : q2 = Append(q, ticket)
    OBVIOUS
  <2>12. PICK no : no = FALSE
    OBVIOUS
  <2>4. PICK y, z : /\ y = [conversations |-> c, queue |-> q, ticks |-> k, up |-> no]
                    /\ z = [conversations |-> c, queue |-> q2, ticks |-> k, up |-> u]
    OBVIOUS
  <2>5. OwnState(n, y) /\ OwnState(n, z)
    BY <1>1, <2>2, <2>4 DEF OwnState, Instance
  <2>6. [x EXCEPT !.up = FALSE] = y
    <3>1. [x EXCEPT !.up = no] = y
      BY <2>3, <2>4
    <3> QED
      BY <2>12, <3>1, Zenon
  <2>7. [x EXCEPT !.queue = Append(@, ticket)] = z
    <3> HIDE DEF ticket
    <3>1. [x EXCEPT !.queue = Append(@, ticket)] = [x EXCEPT !.queue = q2]
      BY <2>13, <2>2
    <3>2. [x EXCEPT !.queue = q2] = z
      BY <2>3, <2>4
    <3> QED
      BY <3>1, <3>2
  <2>8. PICK w : w = <<Len(x.queue) + 1>>
    OBVIOUS
  <2>9. Escalate(x, p) \in {[inst |-> y, port |-> "panic", about |-> <<>>],
                            [inst |-> z, port |-> "escalated", about |-> w]}
    BY <2>6, <2>7, <2>8, Zenon DEF Escalate, Answer
  <2>10. Answers(n, p, x, [inst |-> y, port |-> "panic", about |-> <<>>])
    BY <1>1, <2>5 DEF Answers
  <2>11. Answers(n, p, x, [inst |-> z, port |-> "escalated", about |-> w])
    BY <1>1, <2>5 DEF Answers
  <2> QED
    BY <2>1, <2>9, <2>10, <2>11
<1>2. CASE n # "escalate"
  <2>1. DOMAIN x.queue = {}
    BY <1>2 DEF OwnState
  <2>2. NodeAction(x, n, p) \in {CheckStatus(x, p), Resolve(x, p), Assign(x, p)}
    BY <1>2 DEF NodeAction, HandingOff, Conversing, Searching
  <2>3. \A found : OnTicket(x, p, found) = Error(x)
    BY <2>1 DEF OnTicket
  <2>4. CheckStatus(x, p) = Error(x) /\ Resolve(x, p) = Error(x) /\ Assign(x, p) = Error(x)
    BY <2>3 DEF CheckStatus, Resolve, Assign
  <2> QED
    BY <2>2, <2>4, ErrorAnswers DEF HandingOff
<1> QED
  BY <1>1, <1>2

\* So do the nodes of the vector store.
LEMMA SearchAnswers ==
    ASSUME NEW n \in Searching, NEW p, NEW STATE x, OwnState(n, x)
    PROVE  Answers(n, p, x, NodeAction(x, n, p))
<1>1. NodeAction(x, n, p) = VectorStore(x, n, p)
  BY DEF NodeAction, Searching
<1>2. PICK t : t = VectorStore(x, n, p)
  OBVIOUS
<1>3. CASE n = "store"
  <2>1. t = IF p.vector = <<>> THEN [inst |-> x, port |-> "error", about |-> <<>>]
            ELSE [inst |-> x, port |-> "stored", about |-> <<p.entry>>]
    BY <1>2, <1>3 DEF VectorStore, Error, Answer
  <2> QED
    BY <1>1, <1>2, <1>3, <2>1 DEF Answers
<1>4. CASE n = "search"
  <2>1. PICK found : found = Search(collection, p.vector)
    OBVIOUS
  <2>2. t = IF p.vector = <<>> THEN [inst |-> x, port |-> "error", about |-> <<>>]
            ELSE [inst |-> x, port |-> "results", about |-> found]
    BY <1>2, <1>4, <2>1 DEF VectorStore, Error, Answer
  <2> QED
    BY <1>1, <1>2, <1>4, <2>1, <2>2 DEF Answers
<1>5. CASE n = "delete"
  <2>1. PICK found : found = IF Without(collection, p.entry) # collection THEN <<p.entry>> ELSE <<>>
    OBVIOUS
  <2>2. t = IF p.entry = "" THEN [inst |-> x, port |-> "error", about |-> <<>>]
            ELSE [inst |-> x, port |-> "deleted", about |-> found]
    BY <1>2, <1>5, <2>1 DEF VectorStore, Error, Answer
  <2>3. n = "delete" /\ NodeAction(x, n, p) = t
    BY <1>1, <1>2, <1>5
  <2>4. CASE p.entry = ""
    <3>1. t = [inst |-> x, port |-> "error", about |-> <<>>]
      BY <2>2, <2>4
    <3>2. OwnState(n, t.inst) /\ t.port = "error"
      BY <3>1
    <3>3. "error" = IF p.entry = "" THEN "error" ELSE "deleted"
      BY <2>4
    <3>4. Answers(n, p, x, t)
      BY <2>3, <3>2, <3>3 DEF Answers
    <3> QED
      BY <2>3, <3>4, Zenon
  <2>5. CASE p.entry # ""
    <3>1. t = [inst |-> x, port |-> "deleted", about |-> found]
      BY <2>2, <2>5
    <3>2. OwnState(n, t.inst) /\ t.port = "deleted"
      BY <3>1
    <3>3. "deleted" = IF p.entry = "" THEN "error" ELSE "deleted"
      BY <2>5
    <3>4. Answers(n, p, x, t)
      BY <2>3, <3>2, <3>3 DEF Answers
    <3> QED
      BY <2>3, <3>4, Zenon
  <2> QED
    BY <2>4, <2>5
<1>6. CASE n = "wipe"
  <2>1. t = [inst |-> x, port |-> "cleared", about |-> <<Len(collection)>>]
    BY <1>2, <1>6 DEF VectorStore, Answer
  <2> QED
    BY <1>1, <1>2, <1>6, <2>1 DEF Answers
<1> QED
  BY <1>3, <1>4, <1>5, <1>6 DEF Searching

\* So does every node.
LEMMA EveryAnswer ==
    ASSUME NEW n, NEW p, NEW STATE x, OwnState(n, x)
    PROVE  Answers(n, p, x, NodeAction(x, n, p))
<1>1. CASE n = "timer"
  <2>1. NodeAction(x, n, p) = TimerTick(x)
    BY <1>1 DEF NodeAction, Searching
  <2>2. PICK c, q, k, u : c = x.conversations /\ q = x.queue /\ k = x.ticks /\ u = x.up
    OBVIOUS
  <2>3. x = [conversations |-> c, queue |-> q, ticks |-> k, up |-> u]
    BY <2>2 DEF OwnState, Instance
  <2>4. PICK y, w : y = [conversations |-> c, queue |-> q, ticks |-> k + 1, up |-> u] /\ w = <<k + 1>>
    OBVIOUS
  <2>5. OwnState(n, y)
    BY <1>1, <2>2, <2>4 DEF OwnState, Instance
  <2>6. TimerTick(x) = [inst |-> y, port |-> "tick", about |-> w]
    BY <2>3, <2>4 DEF TimerTick, Answer
  <2> QED
    BY <1>1, <2>1, <2>5, <2>6 DEF Answers
<1>2. CASE n \notin Conversing \cup HandingOff \cup Searching \cup {"timer"}
  <2>1. NodeAction(x, n, p) = Error(x)
    BY <1>2 DEF NodeAction, Conversing, HandingOff, Searching
  <2> QED
    BY <1>2, <2>1, ErrorAnswers DEF Searching
<1> QED
  BY <1>1, <1>2, ConversationAnswers, HandOffAnswers, SearchAnswers

----------------------------------------------------------------------------
(* The vector store.                                                         *)

Entry == [id : EntryId, vector : Embedding]
EntryOf(s) == [id |-> s.payload.entry, vector |-> s.payload.vector]

\* s takes away what the store step e put in.
Removes(s, e) == s.node = "wipe" \/ (s.node = "delete" /\ s.payload.entry = e.payload.entry)
StoredIn(q) == {i \in 1 .. Len(q) : /\ q[i].node = "store" /\ q[i].payload.vector # <<>>
                                    /\ \A j \in i + 1 .. Len(q) : ~Removes(q[j], q[i])}

\* The collection c holds what the steps q stored, the entry at k from the step f[k].
Matches(c, q, f) ==
    /\ f \in [1 .. Len(c) -> StoredIn(q)]
    /\ \A i, j \in 1 .. Len(c) : f[i] = f[j] => i = j
    /\ \A l \in StoredIn(q) : \E i \in 1 .. Len(c) : f[i] = l
    /\ \A i \in 1 .. Len(c) : c[i] = EntryOf(q[f[i]])

\* An appended step removes the entries it replaces and adds its own.
LEMMA StoredAppend ==
    ASSUME NEW q \in Seq(AnyStep), NEW s \in AnyStep
    PROVE  /\ StoredIn(Append(q, s)) = {i \in StoredIn(q) : ~Removes(s, q[i])}
                  \cup (IF s.node = "store" /\ s.payload.vector # <<>> THEN {Len(q) + 1} ELSE {})
           /\ StoredIn(q) \subseteq 1 .. Len(q)
           /\ \A i \in StoredIn(q) : Append(q, s)[i] = q[i]
<1>1. PICK n \in Nat : n = Len(q)
  OBVIOUS
<1>2. PICK q2 : q2 = Append(q, s)
  OBVIOUS
<1>3. Len(q2) = n + 1 /\ q2[n + 1] = s /\ \A i \in 1 .. n : q2[i] = q[i]
  BY <1>1, <1>2
<1>4. StoredIn(q) \subseteq 1 .. n
  BY <1>1 DEF StoredIn
<1>5. ASSUME NEW i \in 1 .. n
      PROVE  i \in StoredIn(q2) <=> i \in StoredIn(q) /\ ~Removes(s, q[i])
  <2>1. i \in 1 .. n + 1 /\ q2[i] = q[i]
    BY <1>3
  <2>2. (\A j \in i + 1 .. n + 1 : ~Removes(q2[j], q[i]))
            <=> (\A j \in i + 1 .. n : ~Removes(q[j], q[i])) /\ ~Removes(s, q[i])
    <3>1. n + 1 \in i + 1 .. n + 1
      OBVIOUS
    <3>2. \A j \in i + 1 .. n : j \in i + 1 .. n + 1 /\ q2[j] = q[j]
      BY <1>3
    <3>3. \A j \in i + 1 .. n + 1 : j = n + 1 \/ j \in i + 1 .. n
      OBVIOUS
    <3> QED
      BY <1>3, <3>1, <3>2, <3>3
  <2> QED
    BY <1>1, <1>3, <2>1, <2>2 DEF StoredIn
<1>6. n + 1 \in StoredIn(q2) <=> s.node = "store" /\ s.payload.vector # <<>>
  <2>1. n + 1 \in 1 .. n + 1 /\ (n + 1) + 1 .. n + 1 = {}
    OBVIOUS
  <2> QED
    BY <1>3, <2>1 DEF StoredIn
<1>7. StoredIn(q2) \subseteq 1 .. n + 1
  BY <1>3 DEF StoredIn
<1>8. \A i \in 1 .. n + 1 : i \in 1 .. n \/ i = n + 1
  OBVIOUS
<1>9. n + 1 \notin 1 .. n
  OBVIOUS
<1>10. StoredIn(q2) = {i \in StoredIn(q) : ~Removes(s, q[i])}
                  \cup (IF s.node = "store" /\ s.payload.vector # <<>> THEN {n + 1} ELSE {})
  <2> HIDE DEF Removes
  <2>1. CASE s.node = "store" /\ s.payload.vector # <<>>
    BY <1>4, <1>5, <1>6, <1>7, <1>8, <2>1
  <2>2. CASE ~(s.node = "store" /\ s.payload.vector # <<>>)
    BY <1>4, <1>5, <1>6, <1>7, <1>8, <2>2
  <2> QED
    BY <2>1, <2>2
<1> QED
  BY <1>1, <1>2, <1>3, <1>4, <1>10

\* Storing an entry keeps the collection equal to the stores not undone since.
LEMMA MatchesStore ==
    ASSUME NEW q \in Seq(AnyStep), NEW s \in AnyStep, NEW c \in Seq(Entry), NEW f, Matches(c, q, f),
           s.node = "store", s.payload.vector # <<>>, EntryOf(s) \in Entry
    PROVE  \E g : Matches(Append(c, EntryOf(s)), Append(q, s), g)
<1>1. PICK n \in Nat, m \in Nat, e \in Entry : n = Len(q) /\ m = Len(c) /\ e = EntryOf(s)
  OBVIOUS
<1>2. PICK q2 : q2 = Append(q, s)
  OBVIOUS
<1>3. PICK c2 : c2 = Append(c, e)
  OBVIOUS
<1>4. Len(c2) = m + 1 /\ c2[m + 1] = e /\ \A i \in 1 .. m : c2[i] = c[i]
  BY <1>1, <1>3
<1>5. q2[n + 1] = s
  BY <1>1, <1>2
<1>6. /\ StoredIn(q2) = StoredIn(q) \cup {n + 1} /\ n + 1 \notin StoredIn(q)
      /\ \A i \in StoredIn(q) : q2[i] = q[i]
  <2>1. \A i : ~Removes(s, q[i])
    BY DEF Removes
  <2>2. StoredIn(q) \subseteq 1 .. n /\ n + 1 \notin 1 .. n
    BY <1>1, StoredAppend
  <2> QED
    BY <1>1, <1>2, <2>1, <2>2, StoredAppend
<1>7. /\ f \in [1 .. m -> StoredIn(q)]
      /\ \A i, j \in 1 .. m : f[i] = f[j] => i = j
      /\ \A l \in StoredIn(q) : \E i \in 1 .. m : f[i] = l
      /\ \A i \in 1 .. m : c[i] = EntryOf(q[f[i]])
  BY <1>1 DEF Matches
<1> DEFINE g == [i \in 1 .. m + 1 |-> IF i = m + 1 THEN n + 1 ELSE f[i]]
<1>8. \A i \in 1 .. m : i \in 1 .. m + 1 /\ g[i] = f[i] /\ g[i] \in StoredIn(q)
  BY <1>7
<1>9. g[m + 1] = n + 1 /\ m + 1 \in 1 .. m + 1
  OBVIOUS
<1>10. \A i \in 1 .. m + 1 : i \in 1 .. m \/ i = m + 1
  OBVIOUS
<1>11. g \in [1 .. m + 1 -> StoredIn(q2)]
  <2>1. \A i \in 1 .. m + 1 : g[i] \in StoredIn(q2)
    <3> HIDE DEF g
    <3> QED
      BY <1>6, <1>8, <1>9, <1>10
  <2> QED
    BY <2>1
<1> HIDE DEF g
<1>12. \A i, j \in 1 .. m + 1 : g[i] = g[j] => i = j
  BY <1>6, <1>7, <1>8, <1>9, <1>10
<1>13. \A l \in StoredIn(q2) : \E i \in 1 .. m + 1 : g[i] = l
  <2> SUFFICES ASSUME NEW l \in StoredIn(q2) PROVE \E i \in 1 .. m + 1 : g[i] = l
    OBVIOUS
  <2>1. CASE l \in StoredIn(q)
    BY <1>7, <1>8, <2>1
  <2>2. CASE l = n + 1
    BY <1>9, <2>2
  <2> QED
    BY <1>6, <2>1, <2>2
<1>14. \A i \in 1 .. m + 1 : c2[i] = EntryOf(q2[g[i]])
  BY <1>1, <1>4, <1>5, <1>6, <1>7, <1>8, <1>9, <1>10
<1>15. Matches(c2, q2, g)
  BY <1>4, <1>11, <1>12, <1>13, <1>14 DEF Matches
<1> QED
  BY <1>1, <1>2, <1>3, <1>15

\* A step that neither stores nor removes.
LEMMA MatchesOther ==
    ASSUME NEW q \in Seq(AnyStep), NEW s \in AnyStep, NEW c \in Seq(Entry), NEW f, Matches(c, q, f),
           s.node \notin {"store", "delete", "wipe"}
    PROVE  Matches(c, Append(q, s), f)
<1>1. \A i : ~Removes(s, q[i])
  BY DEF Removes
<1>2. StoredIn(Append(q, s)) = StoredIn(q) /\ \A i \in StoredIn(q) : Append(q, s)[i] = q[i]
  <2>1. {i \in StoredIn(q) : ~Removes(s, q[i])} = StoredIn(q)
    <3> HIDE DEF Removes, StoredIn
    <3> QED
      BY <1>1
  <2>2. s.node # "store"
    OBVIOUS
  <2>5. StoredIn(Append(q, s)) = {i \in StoredIn(q) : ~Removes(s, q[i])} \cup {}
    BY <2>2, StoredAppend
  <2>3. StoredIn(Append(q, s)) = StoredIn(q)
    <3>1. \A A, B : A = B => A \cup {} = B
      OBVIOUS
    <3> HIDE DEF Removes, StoredIn
    <3> QED
      BY <2>1, <2>5, <3>1, Zenon
  <2>4. \A i \in StoredIn(q) : Append(q, s)[i] = q[i]
    BY StoredAppend
  <2> QED
    BY <2>3, <2>4
<1>3. PICK q2 : q2 = Append(q, s)
  OBVIOUS
<1> QED
  BY <1>2, <1>3 DEF Matches

\* So does emptying it.
LEMMA MatchesWipe ==
    ASSUME NEW q \in Seq(AnyStep), NEW s \in AnyStep, s.node = "wipe"
    PROVE  \E g : Matches(<<>>, Append(q, s), g)
<1>1. \A i : Removes(s, q[i])
  BY DEF Removes
<1>2. StoredIn(Append(q, s)) = {}
  <2>1. {i \in StoredIn(q) : ~Removes(s, q[i])} = {} /\ s.node # "store"
    BY <1>1
  <2>2. StoredIn(Append(q, s)) = {} \cup {}
    BY <2>1, StoredAppend
  <2> QED
    BY <2>2
<1>3. 1 .. Len(<<>>) = {}
  OBVIOUS
<1>4. Matches(<<>>, Append(q, s), [i \in {} |-> i])
  BY <1>2, <1>3 DEF Matches
<1> QED
  BY <1>4

\* So does deleting the entries of one id.
LEMMA MatchesDelete ==
    ASSUME NEW q \in Seq(AnyStep), NEW s \in AnyStep, NEW c \in Seq(Entry), NEW f, Matches(c, q, f),
           s.node = "delete", s.payload.entry # ""
    PROVE  \E g : Matches(Without(c, s.payload.entry), Append(q, s), g)
<1>1. PICK id : id = s.payload.entry
  OBVIOUS
<1>2. PICK S : S = {e \in ToSet(c) : e.id # id}
  OBVIOUS
<1>3. PICK p \in Seq(Entry) : p = Picked(c, S) /\ p = Without(c, id)
  <2>1. Picked(c, S) \in Seq(Entry)
    BY PickedPlaces
  <2> QED
    BY <1>1, <1>2, <2>1 DEF Without
<1>4. PICK h : Places(p, c, S, h)
  BY <1>3, PickedPlaces
<1>5. PICK q2 : q2 = Append(q, s)
  OBVIOUS
<1>6. /\ StoredIn(q2) = {i \in StoredIn(q) : q[i].payload.entry # id}
      /\ \A i \in StoredIn(q) : q2[i] = q[i]
  <2>1. \A i : Removes(s, q[i]) <=> q[i].payload.entry = id
    BY <1>1 DEF Removes
  <2>2. {i \in StoredIn(q) : ~Removes(s, q[i])} = {i \in StoredIn(q) : q[i].payload.entry # id}
    BY <2>1
  <2>3. s.node # "store"
    OBVIOUS
  <2>4. StoredIn(q2) = {i \in StoredIn(q) : ~Removes(s, q[i])} \cup {}
    BY <1>5, <2>3, StoredAppend
  <2>5. \A i \in StoredIn(q) : q2[i] = q[i]
    BY <1>5, StoredAppend
  <2> QED
    BY <2>2, <2>4, <2>5
<1>14. DOMAIN c = 1 .. Len(c)
  <2>1. c \in Seq(Entry)
    OBVIOUS
  <2> QED
    BY <2>1, LenProperties
<1>7. \A k \in 1 .. Len(c) : c[k] \in S <=> q[f[k]].payload.entry # id
  <2> SUFFICES ASSUME NEW k \in 1 .. Len(c) PROVE c[k] \in S <=> q[f[k]].payload.entry # id
    OBVIOUS
  <2>1. c[k] \in ToSet(c)
    BY <1>14 DEF ToSet
  <2>2. c[k] = EntryOf(q[f[k]])
    BY DEF Matches
  <2>3. c[k].id = q[f[k]].payload.entry
    <3>1. PICK e, v : e = q[f[k]].payload.entry /\ v = q[f[k]].payload.vector
      OBVIOUS
    <3>2. PICK d : d = c[k]
      OBVIOUS
    <3>3. d = [id |-> e, vector |-> v]
      BY <2>2, <3>1, <3>2 DEF EntryOf
    <3>4. d.id = e
      BY <3>3
    <3> QED
      BY <3>1, <3>2, <3>4, Zenon
  <2> QED
    BY <1>2, <2>1, <2>3
<1> DEFINE g == [i \in 1 .. Len(p) |-> f[h[i]]]
<1>8. ASSUME NEW i \in 1 .. Len(p)
      PROVE  g[i] = f[h[i]] /\ h[i] \in 1 .. Len(c) /\ c[h[i]] \in S /\ g[i] \in StoredIn(q2)
  <2>1. h[i] \in 1 .. Len(c) /\ c[h[i]] \in S
    BY <1>4 DEF Places
  <2>2. f[h[i]] \in StoredIn(q)
    BY <2>1 DEF Matches
  <2> QED
    BY <1>6, <1>7, <2>1, <2>2
<1>9. g \in [1 .. Len(p) -> StoredIn(q2)]
  BY <1>8
<1> HIDE DEF g
<1>10. \A i, j \in 1 .. Len(p) : g[i] = g[j] => i = j
  <2> SUFFICES ASSUME NEW i \in 1 .. Len(p), NEW j \in 1 .. Len(p), g[i] = g[j] PROVE i = j
    OBVIOUS
  <2>1. \A k, l \in 1 .. Len(c) : f[k] = f[l] => k = l
    BY DEF Matches
  <2>2. h[i] \in 1 .. Len(c) /\ h[j] \in 1 .. Len(c) /\ f[h[i]] = f[h[j]]
    BY <1>8
  <2>3. h[i] = h[j]
    BY <2>1, <2>2
  <2> QED
    BY <1>4, <2>3 DEF Places
<1>11. \A l \in StoredIn(q2) : \E i \in 1 .. Len(p) : g[i] = l
  <2> SUFFICES ASSUME NEW l \in StoredIn(q2) PROVE \E i \in 1 .. Len(p) : g[i] = l
    OBVIOUS
  <2>1. PICK k \in 1 .. Len(c) : f[k] = l
    BY <1>6 DEF Matches
  <2>2. c[k] \in S
    BY <1>6, <1>7, <2>1
  <2>3. PICK i \in 1 .. Len(p) : h[i] = k
    BY <1>4, <2>2 DEF Places
  <2> QED
    BY <1>8, <2>1, <2>3
<1>12. \A i \in 1 .. Len(p) : p[i] = EntryOf(q2[g[i]])
  <2> SUFFICES ASSUME NEW i \in 1 .. Len(p) PROVE p[i] = EntryOf(q2[g[i]])
    OBVIOUS
  <2>1. p[i] = c[h[i]] /\ g[i] = f[h[i]] /\ h[i] \in 1 .. Len(c)
    BY <1>4, <1>8 DEF Places
  <2>2. c[h[i]] = EntryOf(q[f[h[i]]]) /\ f[h[i]] \in StoredIn(q)
    BY <2>1 DEF Matches
  <2> QED
    BY <1>6, <2>1, <2>2
<1>13. Matches(p, q2, g)
  BY <1>9, <1>10, <1>11, <1>12 DEF Matches
<1> QED
  BY <1>1, <1>3, <1>5, <1>13

----------------------------------------------------------------------------
(* What a search finds.                                                      *)

Level(c, v, s) == IF s < MinScore THEN <<>> ELSE Picked(c, {e \in ToSet(c) : Cosine(v, e.vector) = s})
Hits(q, v, s) == {i \in StoredIn(q) : s >= MinScore /\ Cosine(v, q[i].payload.vector) = s}
GoodIn(q, v) == {i \in StoredIn(q) : Cosine(v, q[i].payload.vector) >= MinScore}

\* a holds one entry for each hit of that score.
LevelHolds(a, q, v, s) ==
    /\ a \in Seq(Entry) /\ IsFiniteSet(Hits(q, v, s)) /\ Len(a) = Cardinality(Hits(q, v, s))
    /\ \A k \in 1 .. Len(a) : Cosine(v, a[k].vector) = s /\ \E i \in Hits(q, v, s) : a[k] = EntryOf(q[i])

\* What SearchIsTruthful says of the answer r to the query v, of any steps q.
Truthful(q, v, r) ==
    /\ Len(r) = IF Cardinality(GoodIn(q, v)) < TopK THEN Cardinality(GoodIn(q, v)) ELSE TopK
    /\ \A k \in DOMAIN r : \E i \in GoodIn(q, v) : r[k] = EntryOf(q[i])
    /\ \A s \in -1 .. 1 :
           r # <<>> /\ s > Cosine(v, r[Len(r)].vector) =>
               Cardinality({i \in GoodIn(q, v) : Cosine(v, q[i].payload.vector) = s})
                   = Cardinality({k \in DOMAIN r : Cosine(v, r[k].vector) = s})

\* An entry holds the vector of the step that stored it.
LEMMA EntryVector ==
    ASSUME NEW s, NEW e, e = EntryOf(s)
    PROVE  e.vector = s.payload.vector
<1>1. PICK a, b : a = s.payload.entry /\ b = s.payload.vector
  OBVIOUS
<1>2. e = [id |-> a, vector |-> b]
  BY <1>1 DEF EntryOf
<1>3. e.vector = b
  BY <1>2
<1> QED
  BY <1>1, <1>3, Zenon

\* One level of the search holds the entries with that score, and only them.
LEMMA LevelIs ==
    ASSUME NEW q \in Seq(AnyStep), NEW c \in Seq(Entry), NEW f, Matches(c, q, f), NEW v, NEW s \in Int
    PROVE  LevelHolds(Level(c, v, s), q, v, s)
<1>0. MinScore \in Int
  BY MemoryAssumption
<1>1. CASE s < MinScore
  <2>1. Level(c, v, s) = <<>>
    BY <1>1 DEF Level
  <2>2. Hits(q, v, s) = {}
    BY <1>0, <1>1 DEF Hits
  <2>3. <<>> \in Seq(Entry) /\ Len(<<>>) = 0 /\ 1 .. 0 = {}
    OBVIOUS
  <2> QED
    BY <2>1, <2>2, <2>3, FS_EmptySet DEF LevelHolds
<1>2. CASE ~(s < MinScore)
  <2>1. PICK S : S = {e \in ToSet(c) : Cosine(v, e.vector) = s}
    OBVIOUS
  <2>2. PICK p \in Seq(Entry) : p = Picked(c, S) /\ p = Level(c, v, s)
    <3>1. Picked(c, S) \in Seq(Entry)
      BY PickedPlaces
    <3> QED
      BY <1>2, <2>1, <3>1 DEF Level
  <2>3. PICK h : Places(p, c, S, h)
    BY <2>2, PickedPlaces
  <2>4. DOMAIN c = 1 .. Len(c)
    <3>1. c \in Seq(Entry)
      OBVIOUS
    <3> QED
      BY <3>1, LenProperties
  <2>5. \A k \in 1 .. Len(c) : c[k] = EntryOf(q[f[k]]) /\ c[k].vector = q[f[k]].payload.vector /\ f[k] \in StoredIn(q)
    BY EntryVector DEF Matches
  <2>6. \A k \in 1 .. Len(c) : c[k] \in S <=> f[k] \in Hits(q, v, s)
    <3> SUFFICES ASSUME NEW k \in 1 .. Len(c) PROVE c[k] \in S <=> f[k] \in Hits(q, v, s)
      OBVIOUS
    <3>1. c[k] \in ToSet(c)
      BY <2>4 DEF ToSet
    <3>2. c[k] \in S <=> Cosine(v, c[k].vector) = s
      BY <2>1, <3>1
    <3>3. s >= MinScore
      BY <1>0, <1>2
    <3>4. PICK w : w = c[k].vector /\ w = q[f[k]].payload.vector
      BY <2>5
    <3>5. f[k] \in Hits(q, v, s) <=> Cosine(v, w) = s
      BY <2>5, <3>3, <3>4 DEF Hits
    <3> QED
      BY <3>2, <3>4, <3>5
  <2>7. Hits(q, v, s) \subseteq StoredIn(q)
    BY DEF Hits
  <2> DEFINE g == [i \in 1 .. Len(p) |-> f[h[i]]]
  <2>8. ASSUME NEW i \in 1 .. Len(p)
        PROVE  g[i] = f[h[i]] /\ h[i] \in 1 .. Len(c) /\ c[h[i]] \in S /\ g[i] \in Hits(q, v, s) /\ p[i] = c[h[i]]
    <3>1. h[i] \in 1 .. Len(c) /\ c[h[i]] \in S /\ p[i] = c[h[i]]
      BY <2>3 DEF Places
    <3> QED
      BY <2>6, <3>1
  <2>9. g \in [1 .. Len(p) -> Hits(q, v, s)]
    BY <2>8
  <2> HIDE DEF g
  <2>10. \A i, j \in 1 .. Len(p) : g[i] = g[j] => i = j
    <3> SUFFICES ASSUME NEW i \in 1 .. Len(p), NEW j \in 1 .. Len(p), g[i] = g[j] PROVE i = j
      OBVIOUS
    <3>1. \A k, l \in 1 .. Len(c) : f[k] = f[l] => k = l
      BY DEF Matches
    <3>2. h[i] \in 1 .. Len(c) /\ h[j] \in 1 .. Len(c) /\ f[h[i]] = f[h[j]]
      BY <2>8
    <3>3. h[i] = h[j]
      BY <3>1, <3>2
    <3> QED
      BY <2>3, <3>3 DEF Places
  <2>11. \A l \in Hits(q, v, s) : \E i \in 1 .. Len(p) : g[i] = l
    <3> SUFFICES ASSUME NEW l \in Hits(q, v, s) PROVE \E i \in 1 .. Len(p) : g[i] = l
      OBVIOUS
    <3>1. PICK k \in 1 .. Len(c) : f[k] = l
      BY <2>7 DEF Matches
    <3>2. c[k] \in S
      BY <2>6, <3>1
    <3>3. PICK i \in 1 .. Len(p) : h[i] = k
      BY <2>3, <3>2 DEF Places
    <3> QED
      BY <2>8, <3>1, <3>3
  <2>12. Len(p) \in Nat
    BY <2>2
  <2>13. ExistsBijection(1 .. Len(p), Hits(q, v, s))
    <3>1. g \in Bijection(1 .. Len(p), Hits(q, v, s))
      <4>1. DOMAIN g = 1 .. Len(p)
        BY <2>9
      <4>2. IsInjective(g)
        BY <2>10, <4>1 DEF IsInjective
      <4> QED
        BY <2>9, <2>11, <4>2 DEF Bijection, Injection, Surjection
    <3> QED
      BY <3>1 DEF ExistsBijection
  <2>14. IsFiniteSet(Hits(q, v, s)) /\ Cardinality(Hits(q, v, s)) = Len(p)
    <3>1. IsFiniteSet(1 .. Len(p)) /\ Cardinality(1 .. Len(p)) = Len(p)
      <4>1. PICK m \in Nat : m = Len(p)
        BY <2>12
      <4>2. IsFiniteSet(1 .. m) /\ Cardinality(1 .. m) = IF 1 > m THEN 0 ELSE m - 1 + 1
        BY FS_Interval
      <4>3. (IF 1 > m THEN 0 ELSE m - 1 + 1) = m
        OBVIOUS
      <4> QED
        BY <4>1, <4>2, <4>3
    <3> QED
      BY <2>13, <3>1, FS_Bijection
  <2>15. ASSUME NEW k \in 1 .. Len(p)
         PROVE  Cosine(v, p[k].vector) = s /\ \E i \in Hits(q, v, s) : p[k] = EntryOf(q[i])
    <3>1. p[k] = EntryOf(q[g[k]]) /\ g[k] \in Hits(q, v, s)
      BY <2>5, <2>8
    <3>2. p[k].vector = q[g[k]].payload.vector
      BY <3>1, EntryVector
    <3>3. Cosine(v, q[g[k]].payload.vector) = s
      BY <3>1 DEF Hits
    <3> QED
      BY <3>1, <3>2, <3>3
  <2> QED
    BY <2>2, <2>14, <2>15 DEF LevelHolds
<1> QED
  BY <1>1, <1>2

\* Every good entry is in one of the three levels.
LEMMA GoodLevels ==
    ASSUME NEW q, NEW v \in Embedding, \A i \in StoredIn(q) : q[i].payload.vector \in Embedding,
           NEW a, NEW b, NEW d,
           LevelHolds(a, q, v, 1), LevelHolds(b, q, v, 0), LevelHolds(d, q, v, -1)
    PROVE  /\ Cardinality(GoodIn(q, v)) = Len(a) + Len(b) + Len(d)
           /\ \A s \in -1 .. 1 : {i \in GoodIn(q, v) : Cosine(v, q[i].payload.vector) = s} = Hits(q, v, s)
           /\ \A s \in -1 .. 1 : Hits(q, v, s) \subseteq GoodIn(q, v)
<1>1. \A i \in StoredIn(q) : Cosine(v, q[i].payload.vector) \in -1 .. 1
  BY CosineAssumption
<1>2. ASSUME NEW s \in -1 .. 1
      PROVE  /\ {i \in GoodIn(q, v) : Cosine(v, q[i].payload.vector) = s} = Hits(q, v, s)
             /\ Hits(q, v, s) \subseteq GoodIn(q, v)
  BY DEF GoodIn, Hits
<1>3. PICK A, B, C : A = Hits(q, v, 1) /\ B = Hits(q, v, 0) /\ C = Hits(q, v, -1)
  OBVIOUS
<1>4. GoodIn(q, v) = (A \cup B) \cup C
  <2>1. ASSUME NEW i PROVE i \in GoodIn(q, v) <=> i \in A \/ i \in B \/ i \in C
    <3>1. CASE i \in StoredIn(q)
      <4>1. PICK z \in -1 .. 1 : z = Cosine(v, q[i].payload.vector)
        BY <1>1, <3>1
      <4>2. z = 1 \/ z = 0 \/ z = -1
        OBVIOUS
      <4> QED
        BY <1>3, <3>1, <4>1, <4>2 DEF GoodIn, Hits
    <3>2. CASE i \notin StoredIn(q)
      BY <1>3, <3>2 DEF GoodIn, Hits
    <3> QED
      BY <3>1, <3>2
  <2> QED
    BY <2>1
<1>5. A \cap B = {} /\ (A \cup B) \cap C = {}
  BY <1>3 DEF Hits
<1>6. /\ IsFiniteSet(A) /\ IsFiniteSet(B) /\ IsFiniteSet(C)
      /\ Cardinality(A) = Len(a) /\ Cardinality(B) = Len(b) /\ Cardinality(C) = Len(d)
      /\ Len(a) \in Nat /\ Len(b) \in Nat /\ Len(d) \in Nat
  <2>1. a \in Seq(Entry) /\ b \in Seq(Entry) /\ d \in Seq(Entry)
    BY DEF LevelHolds
  <2>2. Len(a) \in Nat /\ Len(b) \in Nat /\ Len(d) \in Nat
    BY <2>1, LenProperties
  <2> QED
    BY <1>3, <2>2 DEF LevelHolds
<1>7. IsFiniteSet(A \cup B) /\ Cardinality(A \cup B) = Len(a) + Len(b)
  <2>1. IsFiniteSet(A \cup B) /\ Cardinality(A \cup B) = Cardinality(A) + Cardinality(B) - Cardinality(A \cap B)
    BY <1>6, FS_Union
  <2>2. Cardinality(A \cap B) = 0
    BY <1>5, FS_EmptySet
  <2> QED
    BY <1>6, <2>1, <2>2
<1>8. Cardinality((A \cup B) \cup C) = Len(a) + Len(b) + Len(d)
  <2>1. Cardinality((A \cup B) \cup C) = Cardinality(A \cup B) + Cardinality(C) - Cardinality((A \cup B) \cap C)
    BY <1>6, <1>7, FS_Union
  <2>2. Cardinality((A \cup B) \cap C) = 0
    BY <1>5, FS_EmptySet
  <2> QED
    BY <1>6, <1>7, <2>1, <2>2
<1> QED
  BY <1>2, <1>4, <1>8

\* The first m entries of the levels a, b and d, one after the other.
Ranks(r, a, b, d, m) ==
    /\ r \in Seq(Entry) /\ Len(r) = m
    /\ \A k \in 1 .. m : r[k] = IF k <= Len(a) THEN a[k]
                                ELSE IF k <= Len(a) + Len(b) THEN b[k - Len(a)]
                                ELSE d[k - Len(a) - Len(b)]

\* Cutting three levels, one after the other, keeps the best ones whole.
LEMMA CutRanks ==
    ASSUME NEW a \in Seq(Entry), NEW b \in Seq(Entry), NEW d \in Seq(Entry), NEW m \in Nat,
           m <= Len(a) + Len(b) + Len(d)
    PROVE  /\ Ranks(SubSeq(a \o b \o d, 1, m), a, b, d, m)
           /\ Len(a \o b \o d) = Len(a) + Len(b) + Len(d)
<1>1. PICK x \in Nat, y \in Nat, z \in Nat : x = Len(a) /\ y = Len(b) /\ z = Len(d)
  OBVIOUS
<1>2. /\ a \o b \in Seq(Entry) /\ Len(a \o b) = x + y
      /\ \A i \in 1 .. x + y : (a \o b)[i] = IF i <= x THEN a[i] ELSE b[i - x]
  BY <1>1, ConcatProperties
<1>3. PICK e \in Seq(Entry) : e = a \o b
  BY <1>2
<1>4. /\ e \o d \in Seq(Entry) /\ Len(e \o d) = x + y + z
      /\ \A i \in 1 .. x + y + z : (e \o d)[i] = IF i <= x + y THEN e[i] ELSE d[i - (x + y)]
  <2>1. Len(e) = x + y
    BY <1>2, <1>3
  <2> QED
    <3>1. /\ e \o d \in Seq(Entry) /\ Len(e \o d) = Len(e) + Len(d)
          /\ \A i \in 1 .. Len(e) + Len(d) : (e \o d)[i] = IF i <= Len(e) THEN e[i] ELSE d[i - Len(e)]
      BY ConcatProperties
    <3>2. Len(e) + Len(d) = x + y + z
      BY <1>1, <2>1
    <3> QED
      BY <2>1, <3>1, <3>2
<1>5. PICK g \in Seq(Entry) : g = e \o d
  BY <1>4
<1>6. \A i \in 1 .. x + y + z : g[i] \in Entry
  BY <1>4, <1>5
<1>7. PICK r : r = SubSeq(g, 1, m)
  OBVIOUS
<1>8. r \in Seq(Entry) /\ Len(r) = m /\ \A i \in 1 .. m : r[i] = g[i]
  <2>1. \A i \in 1 .. m : g[i] \in Entry
    BY <1>1, <1>6
  <2>2. /\ r \in Seq(Entry) /\ Len(r) = IF 1 <= m THEN m - 1 + 1 ELSE 0
        /\ \A i \in 1 .. m - 1 + 1 : r[i] = g[1 + i - 1]
    BY <1>7, <2>1, SubSeqProperties
  <2>3. m - 1 + 1 = m /\ (\A i \in 1 .. m : 1 + i - 1 = i) /\ (IF 1 <= m THEN m - 1 + 1 ELSE 0) = m
    OBVIOUS
  <2> QED
    BY <2>2, <2>3
<1>9. ASSUME NEW k \in 1 .. m
      PROVE  r[k] = IF k <= x THEN a[k] ELSE IF k <= x + y THEN b[k - x] ELSE d[k - x - y]
  <2>1. k \in 1 .. x + y + z /\ r[k] = g[k]
    BY <1>1, <1>8
  <2>2. g[k] = IF k <= x + y THEN e[k] ELSE d[k - (x + y)]
    BY <1>4, <1>5, <2>1
  <2>3. k <= x + y => e[k] = IF k <= x THEN a[k] ELSE b[k - x]
    <3> SUFFICES ASSUME k <= x + y PROVE e[k] = IF k <= x THEN a[k] ELSE b[k - x]
      OBVIOUS
    <3>1. k \in 1 .. x + y
      OBVIOUS
    <3> QED
      BY <1>2, <1>3, <3>1
  <2>4. k <= x => k <= x + y
    OBVIOUS
  <2>5. k - (x + y) = k - x - y
    OBVIOUS
  <2> QED
    BY <2>1, <2>2, <2>3, <2>4, <2>5
<1>10. Ranks(r, a, b, d, m)
  BY <1>1, <1>8, <1>9 DEF Ranks
<1> QED
  BY <1>1, <1>3, <1>4, <1>5, <1>7, <1>10

\* So the cut ranking tells the truth about the collection.
LEMMA RanksAreTruthful ==
    ASSUME NEW q, NEW v \in Embedding, \A i \in StoredIn(q) : q[i].payload.vector \in Embedding,
           NEW a, NEW b, NEW d,
           LevelHolds(a, q, v, 1), LevelHolds(b, q, v, 0), LevelHolds(d, q, v, -1),
           NEW r, NEW m \in Nat, Ranks(r, a, b, d, m),
           m = IF TopK < Len(a) + Len(b) + Len(d) THEN TopK ELSE Len(a) + Len(b) + Len(d)
    PROVE  Truthful(q, v, r)
<1>0. TopK \in Nat
  BY MemoryAssumption
<1>1. PICK x \in Nat, y \in Nat, z \in Nat : x = Len(a) /\ y = Len(b) /\ z = Len(d)
  <2>1. a \in Seq(Entry) /\ b \in Seq(Entry) /\ d \in Seq(Entry)
    BY DEF LevelHolds
  <2> QED
    BY <2>1, LenProperties
<1>2. Cardinality(GoodIn(q, v)) = x + y + z
  BY <1>1, GoodLevels
<1>3. DOMAIN r = 1 .. m /\ Len(r) = m
  BY LenProperties DEF Ranks
<1>4. m <= x + y + z /\ Len(r) = IF Cardinality(GoodIn(q, v)) < TopK THEN Cardinality(GoodIn(q, v)) ELSE TopK
  BY <1>0, <1>1, <1>2, <1>3
<1>5. ASSUME NEW k \in 1 .. m
      PROVE  /\ \E i \in GoodIn(q, v) : r[k] = EntryOf(q[i])
             /\ Cosine(v, r[k].vector) = IF k <= x THEN 1 ELSE IF k <= x + y THEN 0 ELSE -1
  <2>0. r[k] = IF k <= x THEN a[k] ELSE IF k <= x + y THEN b[k - x] ELSE d[k - x - y]
    BY <1>1 DEF Ranks
  <2>9. \A s \in -1 .. 1 : Hits(q, v, s) \subseteq GoodIn(q, v)
    BY GoodLevels
  <2>1. CASE k <= x
    <3>1. k \in 1 .. x /\ r[k] = a[k]
      BY <2>0, <2>1
    <3>2. Cosine(v, a[k].vector) = 1 /\ \E i \in Hits(q, v, 1) : a[k] = EntryOf(q[i])
      BY <1>1, <3>1 DEF LevelHolds
    <3> QED
      BY <2>1, <2>9, <3>1, <3>2
  <2>2. CASE ~(k <= x) /\ k <= x + y
    <3>1. k - x \in 1 .. y /\ r[k] = b[k - x]
      BY <2>0, <2>2
    <3>2. Cosine(v, b[k - x].vector) = 0 /\ \E i \in Hits(q, v, 0) : b[k - x] = EntryOf(q[i])
      BY <1>1, <3>1 DEF LevelHolds
    <3> QED
      BY <2>2, <2>9, <3>1, <3>2
  <2>3. CASE ~(k <= x) /\ ~(k <= x + y)
    <3>1. k - x - y \in 1 .. z /\ r[k] = d[k - x - y]
      BY <1>4, <2>0, <2>3
    <3>2. Cosine(v, d[k - x - y].vector) = -1 /\ \E i \in Hits(q, v, -1) : d[k - x - y] = EntryOf(q[i])
      BY <1>1, <3>1 DEF LevelHolds
    <3> QED
      BY <2>3, <2>9, <3>1, <3>2
  <2> QED
    BY <2>1, <2>2, <2>3
<1>6. ASSUME NEW s \in -1 .. 1, r # <<>>, s > Cosine(v, r[Len(r)].vector)
      PROVE  Cardinality({i \in GoodIn(q, v) : Cosine(v, q[i].payload.vector) = s})
                 = Cardinality({k \in DOMAIN r : Cosine(v, r[k].vector) = s})
  <2>1. m \in 1 .. m
    <3>1. r \in Seq(Entry)
      BY DEF Ranks
    <3>2. m # 0
      BY <1>3, <1>6, <3>1
    <3> QED
      BY <3>2
  <2>2. s > IF m <= x THEN 1 ELSE IF m <= x + y THEN 0 ELSE -1
    BY <1>3, <1>5, <1>6, <2>1
  <2>3. {i \in GoodIn(q, v) : Cosine(v, q[i].payload.vector) = s} = Hits(q, v, s)
    BY GoodLevels
  <2>4. PICK K : K = {k \in DOMAIN r : Cosine(v, r[k].vector) = s}
    OBVIOUS
  <2>5. \A k : k \in K <=> k \in 1 .. m /\ s = IF k <= x THEN 1 ELSE IF k <= x + y THEN 0 ELSE -1
    BY <1>3, <1>5, <2>4
  <2>6. CASE s = 1
    <3>1. m > x
      BY <2>2, <2>6
    <3>2. K = 1 .. x
      <4>1. ASSUME NEW k PROVE k \in K <=> k \in 1 .. x
        <5>1. k \in 1 .. m => (1 = (IF k <= x THEN 1 ELSE IF k <= x + y THEN 0 ELSE -1) <=> k <= x)
          OBVIOUS
        <5>2. k \in 1 .. x <=> k \in 1 .. m /\ k <= x
          BY <3>1
        <5> QED
          BY <2>5, <2>6, <5>1, <5>2
      <4> QED
        BY <4>1
    <3>3. Cardinality(1 .. x) = x
      <4>1. Cardinality(1 .. x) = IF 1 > x THEN 0 ELSE x - 1 + 1
        BY FS_Interval
      <4> QED
        BY <4>1
    <3>4. Cardinality(Hits(q, v, 1)) = x
      BY <1>1 DEF LevelHolds
    <3> QED
      BY <2>3, <2>4, <2>6, <3>2, <3>3, <3>4
  <2>7. CASE s # 1
    <3>1. s = 0 /\ m > x + y
      BY <2>2, <2>7
    <3>2. K = x + 1 .. x + y
      <4>1. ASSUME NEW k PROVE k \in K <=> k \in x + 1 .. x + y
        <5>1. k \in 1 .. m => (0 = (IF k <= x THEN 1 ELSE IF k <= x + y THEN 0 ELSE -1) <=> k > x /\ k <= x + y)
          OBVIOUS
        <5>2. k \in x + 1 .. x + y <=> k \in 1 .. m /\ k > x /\ k <= x + y
          BY <3>1
        <5> QED
          BY <2>5, <3>1, <5>1, <5>2
      <4> QED
        BY <4>1
    <3>3. Cardinality(x + 1 .. x + y) = y
      <4>1. Cardinality(x + 1 .. x + y) = IF x + 1 > x + y THEN 0 ELSE (x + y) - (x + 1) + 1
        BY FS_Interval
      <4> QED
        BY <4>1
    <3>4. Cardinality(Hits(q, v, 0)) = y
      BY <1>1 DEF LevelHolds
    <3> QED
      BY <2>3, <2>4, <3>1, <3>2, <3>3, <3>4
  <2> QED
    BY <2>6, <2>7
<1> QED
  BY <1>3, <1>4, <1>5, <1>6 DEF Truthful

\* A search of what the steps stored answers the truth.
LEMMA SearchTruthful ==
    ASSUME NEW q \in Seq(AnyStep), NEW c \in Seq(Entry), NEW f, Matches(c, q, f), NEW v \in Embedding
    PROVE  Truthful(q, v, Search(c, v))
<1>0. TopK \in Nat
  BY MemoryAssumption
<1>1. PICK a, b, d : a = Level(c, v, 1) /\ b = Level(c, v, 0) /\ d = Level(c, v, -1)
  OBVIOUS
<1>2. LevelHolds(a, q, v, 1) /\ LevelHolds(b, q, v, 0) /\ LevelHolds(d, q, v, -1)
  <2>1. 1 \in Int /\ 0 \in Int /\ -1 \in Int
    OBVIOUS
  <2> QED
    BY <1>1, <2>1, LevelIs
<1>3. a \in Seq(Entry) /\ b \in Seq(Entry) /\ d \in Seq(Entry)
  BY <1>2 DEF LevelHolds
<1>4. PICK m \in Nat : m = IF TopK < Len(a) + Len(b) + Len(d) THEN TopK ELSE Len(a) + Len(b) + Len(d)
  BY <1>0, <1>3
<1>5. m <= Len(a) + Len(b) + Len(d)
  BY <1>0, <1>3, <1>4
<1>6. PICK r : r = SubSeq(a \o b \o d, 1, m)
  OBVIOUS
<1>7. Ranks(r, a, b, d, m) /\ Len(a \o b \o d) = Len(a) + Len(b) + Len(d)
  BY <1>3, <1>5, <1>6, CutRanks
<1>8. Search(c, v) = r
  <2>1. Search(c, v) = SubSeq(a \o b \o d, 1, IF TopK < Len(a \o b \o d) THEN TopK ELSE Len(a \o b \o d))
    BY <1>1 DEF Search, Level
  <2> QED
    BY <1>4, <1>6, <1>7, <2>1
<1>9. \A i \in StoredIn(q) : q[i].payload.vector \in Embedding
  <2> SUFFICES ASSUME NEW i \in StoredIn(q) PROVE q[i].payload.vector \in Embedding
    OBVIOUS
  <2>1. PICK k \in 1 .. Len(c) : f[k] = i
    BY DEF Matches
  <2>2. c[k] = EntryOf(q[i]) /\ c[k] \in Entry
    BY <2>1 DEF Matches
  <2>3. c[k].vector = q[i].payload.vector
    BY <2>2, EntryVector
  <2>4. c[k].vector \in Embedding
    BY <2>2 DEF Entry
  <2> QED
    BY <2>3, <2>4
<1> QED
  BY <1>2, <1>4, <1>7, <1>8, <1>9, RanksAreTruthful

----------------------------------------------------------------------------
(* The invariant.                                                            *)

BeginStep(ns, r) == [run |-> IF ns \subseteq Searching THEN "any" ELSE r, node |-> "begins", payload |-> <<>>]

\* What MemoryIsOwn and SearchIsTruthful say of any steps, nodes and answer.
TellsOwn(q, ns, t) ==
    Len(q) > 0 /\ t.port # "error" =>
        /\ t.port = "saved" =>
               t.about = Latest(SavedIn(q, BeginStep(ns, q[Len(q)].run), q[Len(q)].run, q[Len(q)].payload.id))
        /\ t.port \in {"history", "list"} => t.about = <<>>
        /\ t.port = "cleared" /\ q[Len(q)].node = "clear" => t.about = <<>>
        /\ t.port \notin {"status", "resolved", "assigned"}
TellsFound(q, t) == t.port = "results" => Truthful(q, q[Len(q)].payload.vector, t.about)

MemoryTypes ==
    /\ nodes \in Memories /\ clock \in Nat /\ collection \in Seq(Entry)
    /\ instances = [r \in Run |-> instances[r]]
    /\ \A r \in Run : instances[r] = [n \in nodes |-> instances[r][n]]
    /\ steps \in Seq(AnyStep) /\ Len(steps) <= MaxSteps
Own == \A r \in Run : \A n \in nodes : OwnState(n, instances[r][n])
KeptMessages == "save" \in nodes =>
            \A r \in Run : \A id \in Conversation \cup {""} :
                Messages(instances[r]["save"], id) = Latest(SavedIn(steps, BeginStep(nodes, r), r, id))
Holding == \E f : Matches(collection, steps, f)

MemoryInv == MemoryTypes /\ Own /\ KeptMessages /\ Holding /\ TellsOwn(steps, nodes, told) /\ TellsFound(steps, told)

\* The step with which a run begins is the one the history records.
LEMMA BeginsWith == ASSUME NEW r PROVE Step(r, "begins", <<>>) = BeginStep(nodes, r)
BY DEF Step, BeginStep

\* What was told from own saves and entries is what NodesRemember asks.
LEMMA RemembersThen ==
    ASSUME TellsOwn(steps, nodes, told), TellsFound(steps, told)
    PROVE  NodesRemember
<1>1. ASSUME NEW r PROVE BeganAt(r) = BeganIn(steps, BeginStep(nodes, r))
  <2>1. PICK b : b = BeginStep(nodes, r) /\ b = Step(r, "begins", <<>>)
    BY BeginsWith
  <2>2. BeganAt(r) = CHOOSE i \in 0 .. Len(steps) :
                         (i = 0 \/ steps[i] = b) /\ \A j \in i + 1 .. Len(steps) : steps[j] # b
    BY <2>1 DEF BeganAt, Done
  <2> QED
    BY <2>1, <2>2 DEF BeganIn
<1>2. ASSUME NEW r, NEW id PROVE SavedBy(r, id) = SavedIn(steps, BeginStep(nodes, r), r, id)
  BY <1>1 DEF SavedBy, SavedIn, Done
<1>3. MemoryIsOwn
  <2>1. SUFFICES ASSUME Done > 0, told.port # "error", told.port = "saved"
                 PROVE  told.about = Latest(SavedBy(Now.run, Now.payload.id))
    BY DEF MemoryIsOwn, TellsOwn, Latest, LatestCount, Now, Done
  <2>2. SavedBy(Now.run, Now.payload.id) = SavedIn(steps, BeginStep(nodes, Now.run), Now.run, Now.payload.id)
    BY <1>2
  <2> QED
    BY <2>1, <2>2 DEF TellsOwn, Now, Done
<1>4. SearchIsTruthful
  <2>1. StoredNow = StoredIn(steps)
    BY DEF StoredNow, StoredIn, Removes, Done
  <2> QED
    BY <2>1 DEF SearchIsTruthful, TellsFound, Truthful, GoodIn, EntryOf, Now, Done
<1> QED
  BY <1>3, <1>4 DEF NodesRemember

\* A payload of a node is one of the payloads there are.
LEMMA PayloadIsAny ==
    ASSUME MemoryTypes, NEW n, NEW p \in Payload(n)
    PROVE  /\ p \in AnyPayload
           /\ n = "save" => p = [id |-> p.id, message |-> p.message] /\ p.id \in Conversation \cup {""} /\ p.message \in Nat
           /\ n = "store" => p.entry \in EntryId
           /\ n \in {"store", "search"} => p.vector \in Embedding \cup {<<>>}
<1>1. Len(steps) + 1 \in Nat
  BY DEF MemoryTypes
<1>2. CASE n \in Conversing
  <2>1. p \in [id : Conversation \cup {""}, message : {Len(steps) + 1}]
    BY <1>2 DEF Payload, Conversing, HandingOff, Searching
  <2> QED
    BY <1>1, <1>2, <2>1 DEF AnyPayload, Conversing
<1>3. CASE n = "escalate"
  <2>1. p \in [customer : BOOLEAN, metadata : {"missing", "object", "text"}]
    BY <1>3 DEF Payload, Conversing, HandingOff, Searching
  <2> QED
    BY <1>3, <2>1 DEF AnyPayload
<1>4. CASE n \in HandingOff \ {"escalate"}
  <2>1. p \in [ticket : 0 .. 1, agent : IF n = "assign" THEN {"", "ann"} ELSE {""}]
    BY <1>4 DEF Payload, Conversing, HandingOff, Searching
  <2>2. p \in [ticket : 0 .. 1, agent : {"", "ann"}]
    BY <2>1
  <2> QED
    BY <1>4, <2>2 DEF AnyPayload, HandingOff
<1>5. CASE n \in Searching
  <2>1. p \in [entry : IF n = "delete" THEN EntryId \cup {""} ELSE IF n = "store" THEN EntryId ELSE {""},
               vector : IF n \in {"store", "search"} THEN Embedding \cup {<<>>} ELSE {<<>>}]
    BY <1>5 DEF Payload, Conversing, HandingOff, Searching
  <2>2. p \in [entry : EntryId \cup {""}, vector : Embedding \cup {<<>>}]
    BY <2>1
  <2>3. n = "store" => p.entry \in EntryId
    BY <2>1
  <2>4. p.vector \in Embedding \cup {<<>>}
    BY <2>2
  <2> QED
    BY <1>5, <2>2, <2>3, <2>4 DEF AnyPayload, Searching
<1>6. CASE n \notin Conversing \cup HandingOff \cup Searching
  <2>1. Payload(n) = {[id |-> ""]}
    BY <1>6, Zenon DEF Payload, Conversing, HandingOff, Searching
  <2>2. n \notin {"save", "store", "search"}
    BY <1>6 DEF Conversing, Searching
  <2> QED
    BY <2>1, <2>2 DEF AnyPayload
<1> QED
  BY <1>2, <1>3, <1>4, <1>5, <1>6

\* The state of a new node is one every node may be in.
LEMMA FreshOwn == \A n : OwnState(n, Fresh)
BY DEF OwnState, Instance, Fresh

\* The invariant of the node memories holds at first.
LEMMA InitiallyRemembers == ASSUME MemoryInit PROVE MemoryInv
<1>1. <<>> \in Seq(AnyStep) /\ <<>> \in Seq(Entry) /\ Len(<<>>) = 0 /\ 1 .. 0 = {}
  OBVIOUS
<1>2. MemoryTypes
  <2>1. \A r \in Run : instances[r] = [n \in nodes |-> Fresh]
    BY DEF MemoryInit
  <2>2. instances = [r \in Run |-> instances[r]]
    BY DEF MemoryInit
  <2>3. \A r \in Run : instances[r] = [n \in nodes |-> instances[r][n]]
    BY <2>1
  <2> QED
    BY <1>1, <2>2, <2>3, MemoryAssumption DEF MemoryInit, MemoryTypes
<1>3. \A r \in Run : \A n \in nodes : instances[r][n] = Fresh
  BY DEF MemoryInit
<1>4. Own
  BY <1>3, FreshOwn DEF Own
<1>5. KeptMessages
  <2>1. \A id : Messages(Fresh, id) = <<>>
    BY DEF Messages, Fresh
  <2> QED
    BY <1>3, <2>1, SavedNone, LatestNone DEF KeptMessages, MemoryInit
<1>6. Holding
  <2>1. StoredIn(<<>>) = {}
    BY <1>1 DEF StoredIn
  <2>2. Matches(<<>>, <<>>, [i \in {} |-> i])
    BY <1>1, <2>1 DEF Matches
  <2> QED
    BY <2>2 DEF Holding, MemoryInit
<1>7. TellsOwn(steps, nodes, told) /\ TellsFound(steps, told)
  <2>1. steps = <<>> /\ told.port = "none"
    BY DEF MemoryInit, Answer
  <2> QED
    BY <1>1, <2>1 DEF TellsOwn, TellsFound
<1> QED
  BY <1>2, <1>4, <1>5, <1>6, <1>7 DEF MemoryInv

\* A run that begins, its nodes made anew, keeps it.
LEMMA BeginKeeps ==
    ASSUME MemoryInv, NEW r \in Run, RunBegins(r)
    PROVE  MemoryInv'
<1> USE DEF MemoryInv
<1>1. PICK s : s = BeginStep(nodes, r)
  OBVIOUS
<1>2. s.node = "begins" /\ s.run = (IF nodes \subseteq Searching THEN "any" ELSE r) /\ s.payload = <<>>
  BY <1>1 DEF BeginStep
<1>3. s \in AnyStep
  <2>1. BeginStep(nodes, r) = [run |-> IF nodes \subseteq Searching THEN "any" ELSE r, node |-> "begins", payload |-> <<>>]
    BY DEF BeginStep
  <2>2. <<>> \in AnyPayload
    BY DEF AnyPayload
  <2>3. (IF nodes \subseteq Searching THEN "any" ELSE r) \in Run \cup {"any"}
    OBVIOUS
  <2> QED
    BY <1>1, <2>1, <2>2, <2>3 DEF AnyStep
<1>4. steps \in Seq(AnyStep) /\ collection \in Seq(Entry)
  BY DEF MemoryTypes
<1>5. steps' = Append(steps, s) /\ nodes' = nodes /\ collection' = collection /\ clock' = clock /\ Len(steps) < MaxSteps
  BY <1>1, BeginsWith DEF RunBegins
<1>6. steps' \in Seq(AnyStep) /\ Len(steps') = Len(steps) + 1
  BY <1>3, <1>4, <1>5
<1>7. instances' = [instances EXCEPT ![r] = [n \in nodes |-> Fresh]]
  BY DEF RunBegins
<1>8. /\ instances' = [i \in Run |-> instances'[i]]
      /\ instances'[r] = [n \in nodes |-> Fresh]
      /\ \A i \in Run : i # r => instances'[i] = instances[i]
  <2>1. instances = [i \in Run |-> instances[i]]
    BY DEF MemoryTypes
  <2> QED
    BY <1>7, <2>1
<1>9. MemoryTypes'
  <2>1. \A i \in Run : instances'[i] = [n \in nodes |-> instances'[i][n]]
    <3> SUFFICES ASSUME NEW i \in Run PROVE instances'[i] = [n \in nodes |-> instances'[i][n]]
      OBVIOUS
    <3>1. CASE i = r
      BY <1>8, <3>1
    <3>2. CASE i # r
      <4>1. instances[i] = [n \in nodes |-> instances[i][n]]
        BY DEF MemoryTypes
      <4> QED
        BY <1>8, <3>2, <4>1
    <3> QED
      BY <3>1, <3>2
  <2>2. Len(steps') <= MaxSteps
    BY <1>4, <1>5, <1>6, MemoryAssumption
  <2>3. nodes' \in Memories /\ clock' \in Nat /\ collection' \in Seq(Entry)
    BY <1>5 DEF MemoryTypes
  <2> QED
    BY <1>5, <1>6, <1>8, <2>1, <2>2, <2>3 DEF MemoryTypes
<1>10. Own'
  <2>1. ASSUME NEW i \in Run, NEW n \in nodes PROVE OwnState(n, instances'[i][n])
    <3>1. CASE i = r
      BY <1>8, <3>1, FreshOwn
    <3>2. CASE i # r
      BY <1>8, <3>2 DEF Own
    <3> QED
      BY <3>1, <3>2
  <2> QED
    BY <1>5, <2>1 DEF Own
<1>15. \A id : Messages(Fresh, id) = <<>>
  BY DEF Messages, Fresh
<1>11. KeptMessages'
  <2>1. ASSUME "save" \in nodes, NEW i \in Run, NEW id \in Conversation \cup {""}
        PROVE  Messages(instances'[i]["save"], id) = Latest(SavedIn(steps', BeginStep(nodes, i), i, id))
    <3>1. "save" \notin Searching
      BY DEF Searching
    <3>2. s.run = r
      BY <1>2, <2>1, <3>1
    <3>5. SavedIn(steps', BeginStep(nodes, i), i, id) =
              IF s = BeginStep(nodes, i) THEN <<>>
              ELSE IF s \in Saves(i, id) THEN Append(SavedIn(steps, BeginStep(nodes, i), i, id), s)
              ELSE SavedIn(steps, BeginStep(nodes, i), i, id)
      <4>1. PICK b : b = BeginStep(nodes, i)
        OBVIOUS
      <4>2. SavedIn(Append(steps, s), b, i, id) =
                IF s = b THEN <<>>
                ELSE IF s \in Saves(i, id) THEN Append(SavedIn(steps, b, i, id), s)
                ELSE SavedIn(steps, b, i, id)
        <5>1. PICK q \in Seq(AnyStep) : q = steps
          BY <1>4
        <5>2. SavedIn(Append(q, s), b, i, id) =
                  IF s = b THEN <<>>
                  ELSE IF s \in Saves(i, id) THEN Append(SavedIn(q, b, i, id), s)
                  ELSE SavedIn(q, b, i, id)
          <6> HIDE DEF MemoryInv
          <6> QED
            <7>1. Adds(q, b, s, i, id)
              BY <1>3, SavedAppend
            <7> QED
              BY <7>1 DEF Adds
        <5> QED
          BY <5>1, <5>2, Zenon
      <4> QED
        BY <1>5, <4>1, <4>2, Zenon
    <3>3. CASE i = r
      <4>1. SavedIn(steps', BeginStep(nodes, i), i, id) = <<>>
        BY <1>1, <3>3, <3>5
      <4>2. Messages(instances'[i]["save"], id) = <<>>
        <5>1. instances'[i]["save"] = Fresh
          BY <1>8, <2>1, <3>3
        <5> QED
          BY <1>15, <5>1
      <4> QED
        BY <4>1, <4>2, LatestNone
    <3>4. CASE i # r
      <4>1. s # BeginStep(nodes, i)
        <5>1. BeginStep(nodes, i).run = i
          BY <2>1, <3>1 DEF BeginStep
        <5> QED
          BY <3>2, <3>4, <5>1
      <4>2. s \notin Saves(i, id)
        BY <1>2 DEF Saves
      <4>3. SavedIn(steps', BeginStep(nodes, i), i, id) = SavedIn(steps, BeginStep(nodes, i), i, id)
        BY <3>5, <4>1, <4>2
      <4> QED
        BY <1>8, <2>1, <3>4, <4>3 DEF KeptMessages
    <3> QED
      BY <3>3, <3>4
  <2> QED
    BY <1>5, <2>1 DEF KeptMessages
<1>12. Holding'
  <2>1. PICK f : Matches(collection, steps, f)
    BY DEF Holding
  <2>2. Matches(collection, Append(steps, s), f)
    BY <1>2, <1>3, <1>4, <2>1, MatchesOther
  <2>3. \E g : Matches(collection', steps', g)
    BY <1>5, <2>2
  <2> QED
    BY <2>3 DEF Holding
<1>13. told'.port = "none"
  BY DEF RunBegins, Answer
<1>14. TellsOwn(steps', nodes', told') /\ TellsFound(steps', told')
  BY <1>13 DEF TellsOwn, TellsFound
<1> QED
  BY <1>9, <1>10, <1>11, <1>12, <1>14

\* Time passing keeps it.
LEMMA TimeKeeps ==
    ASSUME MemoryInv, TimePasses \/ UNCHANGED memoryVars
    PROVE  MemoryInv'
<1>1. /\ nodes' = nodes /\ collection' = collection /\ instances' = instances /\ steps' = steps /\ told' = told
      /\ clock' \in Nat
  BY DEF TimePasses, memoryVars, MemoryInv, MemoryTypes
<1>2. MemoryTypes' /\ Own' /\ KeptMessages' /\ Holding'
  BY <1>1 DEF MemoryInv, MemoryTypes, Own, KeptMessages, Holding
<1> QED
  BY <1>1, <1>2 DEF MemoryInv

\* A message: p at the node n of the run r, which answers with t.
LEMMA HandleKeeps ==
    ASSUME MemoryInv, NEW r \in Run, NEW n \in nodes, Handle(r, n)
    PROVE  MemoryInv'
<1> USE DEF MemoryInv
<1>1. PICK p \in Payload(n) :
          /\ told' = NodeAction(instances[r][n], n, p)
          /\ instances' = [instances EXCEPT ![r][n] = told'.inst]
          /\ collection' = CASE n = "store" -> Store(p)
                             [] n = "delete" -> Without(collection, p.entry)
                             [] n = "wipe" -> <<>>
                             [] OTHER -> collection
          /\ steps' = IF told'.port = "error" THEN steps ELSE Append(steps, Step(r, n, p))
  BY DEF Handle
<1>2. PICK s : s = Step(r, n, p)
  OBVIOUS
<1>3. nodes' = nodes /\ clock' = clock /\ Len(steps) < MaxSteps
  BY DEF Handle
<1>4. /\ p \in AnyPayload
      /\ n = "save" => p = [id |-> p.id, message |-> p.message] /\ p.id \in Conversation \cup {""} /\ p.message \in Nat
      /\ n = "store" => p.entry \in EntryId
      /\ n \in {"store", "search"} => p.vector \in Embedding \cup {<<>>}
  BY PayloadIsAny
<1>5. s.node = n /\ s.run = (IF nodes \subseteq Searching THEN "any" ELSE r) /\ s.payload = p
  BY <1>2 DEF Step
<1>6. s \in AnyStep
  <2>1. Step(r, n, p) = [run |-> IF nodes \subseteq Searching THEN "any" ELSE r, node |-> n, payload |-> p]
    BY DEF Step
  <2>2. n \in UNION Memories
    BY DEF MemoryTypes
  <2>3. (IF nodes \subseteq Searching THEN "any" ELSE r) \in Run \cup {"any"}
    OBVIOUS
  <2> QED
    <3>1. PICK u \in Run \cup {"any"} : u = IF nodes \subseteq Searching THEN "any" ELSE r
      BY <2>3
    <3>2. s = [run |-> u, node |-> n, payload |-> p]
      BY <1>2, <2>1, <3>1
    <3>3. n \in (UNION Memories) \cup {"begins"} /\ p \in AnyPayload
      BY <1>4, <2>2
    <3> HIDE DEF MemoryInv
    <3> QED
      BY <3>2, <3>3 DEF AnyStep
<1>7. steps \in Seq(AnyStep) /\ collection \in Seq(Entry)
  BY DEF MemoryTypes
<1>8. OwnState(n, instances[r][n])
  BY DEF Own
<1>9. Answers(n, p, instances[r][n], told')
  BY <1>1, <1>8, EveryAnswer
<1>10. /\ instances' = [i \in Run |-> instances'[i]]
       /\ \A i \in Run : instances'[i] = [k \in nodes |-> instances'[i][k]]
       /\ instances'[r][n] = told'.inst
       /\ \A i \in Run : \A k \in nodes : i # r \/ k # n => instances'[i][k] = instances[i][k]
  <2>1. instances = [i \in Run |-> instances[i]] /\ \A i \in Run : instances[i] = [k \in nodes |-> instances[i][k]]
    BY DEF MemoryTypes
  <2>2. PICK g : g = [instances[r] EXCEPT ![n] = told'.inst]
    OBVIOUS
  <2>3. g = [k \in nodes |-> g[k]] /\ g[n] = told'.inst /\ \A k \in nodes : k # n => g[k] = instances[r][k]
    BY <2>1, <2>2
  <2>4. instances' = [instances EXCEPT ![r] = g]
    BY <1>1, <2>1, <2>2
  <2>5. instances' = [i \in Run |-> instances'[i]] /\ instances'[r] = g /\ \A i \in Run : i # r => instances'[i] = instances[i]
    BY <2>1, <2>4
  <2> QED
    BY <2>1, <2>3, <2>5
<1>11. steps' \in Seq(AnyStep) /\ Len(steps') <= MaxSteps
  <2>1. Append(steps, s) \in Seq(AnyStep) /\ Len(Append(steps, s)) = Len(steps) + 1
    BY <1>6, <1>7
  <2> QED
    BY <1>1, <1>2, <1>3, <1>7, <2>1, MemoryAssumption
<1>12. /\ n = "store" => collection' = Store(p)
       /\ n = "delete" => collection' = Without(collection, p.entry)
       /\ n = "wipe" => collection' = <<>>
       /\ n \notin {"store", "delete", "wipe"} => collection' = collection
  <2>1. CASE n \in {"store", "delete", "wipe"}
    BY <1>1, <2>1
  <2>2. CASE n \notin {"store", "delete", "wipe"}
    BY <1>1, <2>2, Zenon
  <2> QED
    BY <2>1, <2>2
<1>13. Own'
  <2>1. ASSUME NEW i \in Run, NEW k \in nodes PROVE OwnState(k, instances'[i][k])
    <3>1. CASE i = r /\ k = n
      BY <1>9, <1>10, <3>1 DEF Answers
    <3>2. CASE ~(i = r /\ k = n)
      BY <1>10, <3>2 DEF Own
    <3> QED
      BY <3>1, <3>2
  <2> QED
    BY <1>3, <2>1 DEF Own
<1>14. CASE told'.port = "error"
  <2>1. steps' = steps
    BY <1>1, <1>14
  <2>2. collection' = collection
    <3>1. CASE n = "store"
      <4>1. p.vector = <<>>
        BY <1>9, <1>14, <3>1 DEF Answers
      <4> QED
        BY <1>12, <3>1, <4>1 DEF Store
    <3>2. CASE n = "delete"
      <4>1. p.entry = ""
        BY <1>9, <1>14, <3>2 DEF Answers
      <4> QED
        BY <1>12, <3>2, <4>1 DEF Without
    <3>3. CASE n = "wipe"
      BY <1>9, <1>14, <3>3 DEF Answers
    <3> QED
      BY <1>12, <3>1, <3>2, <3>3
  <2>3. MemoryTypes'
    <3>1. nodes \in Memories /\ clock \in Nat
      BY DEF MemoryTypes
    <3> QED
      BY <1>3, <1>7, <1>10, <1>11, <2>2, <3>1 DEF MemoryTypes
  <2>4. KeptMessages'
    <3>1. ASSUME "save" \in nodes, NEW i \in Run, NEW id \in Conversation \cup {""}
          PROVE  Messages(instances'[i]["save"], id) = Latest(SavedIn(steps', BeginStep(nodes, i), i, id))
      <4>1. instances'[i]["save"] = instances[i]["save"]
        <5>1. CASE i = r /\ n = "save"
          <6>1. told'.inst = instances[r][n]
            BY <1>9, <1>14, <5>1 DEF Answers
          <6> QED
            BY <1>10, <5>1, <6>1
        <5>2. CASE ~(i = r /\ n = "save")
          BY <1>10, <3>1, <5>2
        <5> QED
          BY <5>1, <5>2
      <4> QED
        BY <2>1, <3>1, <4>1 DEF KeptMessages
    <3> QED
      BY <1>3, <3>1 DEF KeptMessages
  <2>5. Holding'
    BY <2>1, <2>2 DEF Holding
  <2>6. TellsOwn(steps', nodes', told') /\ TellsFound(steps', told')
    BY <1>14 DEF TellsOwn, TellsFound
  <2> QED
    BY <1>13, <2>3, <2>4, <2>5, <2>6
<1>15. CASE told'.port # "error"
  <2>1. steps' = Append(steps, s)
    BY <1>1, <1>2, <1>15
  <2>2. Len(steps') = Len(steps) + 1 /\ steps'[Len(steps) + 1] = s /\ Len(steps) \in Nat
    BY <1>6, <1>7, <2>1
  <2>3. n # "begins"
    BY <1>9, <1>15 DEF Answers
  <2>4. Holding' /\ collection' \in Seq(Entry)
    <3>1. PICK f : Matches(collection, steps, f)
      BY DEF Holding
    <3>2. PICK q \in Seq(AnyStep), c \in Seq(Entry) : q = steps /\ c = collection
      BY <1>7
    <3>3. Matches(c, q, f) /\ steps' = Append(q, s)
      BY <2>1, <3>1, <3>2
    <3>4. ASSUME NEW d \in Seq(Entry), d = collection', \E g : Matches(d, Append(q, s), g)
          PROVE  Holding' /\ collection' \in Seq(Entry)
      BY <3>3, <3>4 DEF Holding
    <3>5. CASE n = "store"
      <4>1. p.vector # <<>>
        BY <1>9, <1>15, <3>5 DEF Answers
      <4>2. EntryOf(s) = [id |-> p.entry, vector |-> p.vector]
        BY <1>5 DEF EntryOf
      <4>3. EntryOf(s) \in Entry
        <5>1. p.entry \in EntryId /\ p.vector \in Embedding
          BY <1>4, <3>5, <4>1
        <5> QED
          BY <4>2, <5>1 DEF Entry
      <4>4. collection' = Append(c, EntryOf(s))
        BY <1>12, <3>2, <3>5, <4>1, <4>2 DEF Store
      <4>5. Append(c, EntryOf(s)) \in Seq(Entry)
        BY <4>3
      <4>6. \E g : Matches(Append(c, EntryOf(s)), Append(q, s), g)
        <5>1. s.node = "store" /\ s.payload.vector # <<>>
          BY <1>5, <3>5, <4>1
        <5> HIDE DEF MemoryInv
        <5> QED
          BY <1>6, <3>3, <4>3, <5>1, MatchesStore
      <4> QED
        BY <3>4, <4>4, <4>5, <4>6
    <3>6. CASE n = "delete"
      <4>1. p.entry # ""
        BY <1>9, <1>15, <3>6 DEF Answers
      <4>2. collection' = Without(c, p.entry)
        BY <1>12, <3>2, <3>6
      <4>3. Without(c, p.entry) \in Seq(Entry)
        <5>1. Picked(c, {e \in ToSet(c) : e.id # p.entry}) \in Seq(Entry)
          BY PickedPlaces
        <5> QED
          BY <4>1, <5>1 DEF Without
      <4>4. \E g : Matches(Without(c, p.entry), Append(q, s), g)
        <5>1. s.node = "delete" /\ s.payload.entry = p.entry
          BY <1>5, <3>6
        <5>2. s.payload.entry # ""
          BY <4>1, <5>1
        <5> HIDE DEF MemoryInv
        <5>3. \E g : Matches(Without(c, s.payload.entry), Append(q, s), g)
          BY <1>6, <3>3, <5>1, <5>2, MatchesDelete
        <5> QED
          BY <5>1, <5>3
      <4> QED
        BY <3>4, <4>2, <4>3, <4>4
    <3>7. CASE n = "wipe"
      <4>1. collection' = <<>> /\ <<>> \in Seq(Entry)
        BY <1>12, <3>7
      <4>2. \E g : Matches(<<>>, Append(q, s), g)
        BY <1>5, <1>6, <3>7, MatchesWipe
      <4> QED
        BY <3>4, <4>1, <4>2
    <3>8. CASE n \notin {"store", "delete", "wipe"}
      <4>1. collection' = c
        BY <1>12, <3>2, <3>8
      <4>2. Matches(c, Append(q, s), f)
        BY <1>5, <1>6, <3>3, <3>8, MatchesOther
      <4> QED
        BY <3>4, <4>1, <4>2
    <3> QED
      BY <3>5, <3>6, <3>7, <3>8
  <2>5. MemoryTypes'
    <3>1. nodes \in Memories /\ clock \in Nat
      BY DEF MemoryTypes
    <3> QED
      BY <1>3, <1>10, <1>11, <2>4, <3>1 DEF MemoryTypes
  <2>6. ASSUME NEW i \in Run, NEW id
        PROVE  SavedIn(steps', BeginStep(nodes, i), i, id) =
                   IF s \in Saves(i, id) THEN Append(SavedIn(steps, BeginStep(nodes, i), i, id), s)
                   ELSE SavedIn(steps, BeginStep(nodes, i), i, id)
    <3>1. PICK q \in Seq(AnyStep) : q = steps
      BY <1>7
    <3>4. PICK b : b = BeginStep(nodes, i)
      OBVIOUS
    <3>2. s # b
      <4>1. b.node = "begins"
        BY <3>4 DEF BeginStep
      <4> QED
        BY <1>5, <2>3, <4>1
    <3>3. SavedIn(Append(q, s), b, i, id) =
              IF s = b THEN <<>>
              ELSE IF s \in Saves(i, id) THEN Append(SavedIn(q, b, i, id), s)
              ELSE SavedIn(q, b, i, id)
      <4> HIDE DEF MemoryInv
      <4> QED
        <5>1. Adds(q, b, s, i, id)
          BY <1>6, SavedAppend
        <5> QED
          BY <5>1 DEF Adds
    <3> QED
      BY <2>1, <3>1, <3>2, <3>3, <3>4, Zenon
  <2>7. ASSUME NEW i \in Run, NEW id
        PROVE  s \in Saves(i, id) <=> s.run = i /\ n = "save" /\ id = p.id
    <3>1. CASE n = "save"
      <4>5. PICK d, m : d = p.id /\ m = p.message
        OBVIOUS
      <4>1. d = p.id /\ m \in Nat /\ p = [id |-> d, message |-> m]
        BY <1>4, <3>1, <4>5
      <4>2. PICK u : u = s.run
        OBVIOUS
      <4>3. s = [run |-> u, node |-> "save", payload |-> [id |-> d, message |-> m]]
        BY <1>2, <1>5, <3>1, <4>1, <4>2 DEF Step
      <4>4. s \in Saves(i, id) <=> u = i /\ id = d
        BY <4>1, <4>3 DEF Saves
      <4> QED
        BY <3>1, <4>1, <4>2, <4>4
    <3>2. CASE n # "save"
      BY <1>5, <3>2 DEF Saves
    <3> QED
      BY <3>1, <3>2
  <2>8. "save" \in nodes => s.run = r
    BY <1>5 DEF Searching
  <2>9. KeptMessages'
    <3>1. ASSUME "save" \in nodes, NEW i \in Run, NEW id \in Conversation \cup {""}
          PROVE  Messages(instances'[i]["save"], id) = Latest(SavedIn(steps', BeginStep(nodes, i), i, id))
      <4>0. PICK q \in Seq(AnyStep) : q = SavedIn(steps, BeginStep(nodes, i), i, id)
        <5>1. SavedIn(steps, BeginStep(nodes, i), i, id) \in Seq(AnyStep)
          BY <1>6, <1>7, SavedAppend
        <5> QED
          BY <5>1
      <4>1. Messages(instances[i]["save"], id) = Latest(q)
        BY <3>1, <4>0 DEF KeptMessages
      <4>2. CASE i = r /\ n = "save" /\ id = p.id
        <5>1. SavedIn(steps', BeginStep(nodes, i), i, id) = Append(q, s)
          BY <2>6, <2>7, <2>8, <3>1, <4>0, <4>2
        <5>2. Saving(instances[r][n], p, told')
          BY <1>9, <1>15, <4>2 DEF Answers
        <5>3. Messages(told'.inst, id) = Trim(Append(Messages(instances[r][n], id), p.message))
          BY <4>2, <5>2 DEF Saving
        <5>4. Messages(instances'[i]["save"], id) = Trim(Append(Latest(q), p.message))
          BY <1>10, <4>1, <4>2, <5>3
        <5>5. Trim(Append(Latest(q), p.message)) = Latest(Append(q, s))
          <6>1. p.message = s.payload.message
            BY <1>5
          <6> HIDE DEF MemoryInv
          <6> QED
            BY <1>6, <6>1, LatestAppend
        <5> QED
          BY <5>1, <5>4, <5>5
      <4>3. CASE ~(i = r /\ n = "save" /\ id = p.id)
        <5>1. SavedIn(steps', BeginStep(nodes, i), i, id) = q
          BY <2>6, <2>7, <2>8, <3>1, <4>0, <4>3
        <5>2. Messages(instances'[i]["save"], id) = Messages(instances[i]["save"], id)
          <6>1. CASE i = r /\ n = "save"
            <7>1. Saving(instances[r][n], p, told')
              BY <1>9, <1>15, <6>1 DEF Answers
            <7>2. Messages(told'.inst, id) = Messages(instances[r][n], id)
              BY <4>3, <6>1, <7>1 DEF Saving
            <7> QED
              BY <1>10, <6>1, <7>2
          <6>2. CASE ~(i = r /\ n = "save")
            BY <1>10, <3>1, <6>2
          <6> QED
            BY <6>1, <6>2
        <5> QED
          BY <4>1, <5>1, <5>2
      <4> QED
        BY <4>2, <4>3
    <3> QED
      BY <1>3, <3>1 DEF KeptMessages
  <2>10. steps'[Len(steps')] = s
    BY <2>2
  <2>11. TellsOwn(steps', nodes', told')
    <3>1. ASSUME told'.port = "saved"
          PROVE  told'.about = Latest(SavedIn(steps', BeginStep(nodes', s.run), s.run, s.payload.id))
      <4>1. n = "save" /\ Saving(instances[r][n], p, told')
        BY <1>9, <3>1 DEF Answers
      <4>2. s.run = r /\ s.payload.id = p.id /\ p.id \in Conversation \cup {""}
        BY <1>4, <1>5, <2>8, <4>1
      <4>3. Messages(told'.inst, p.id) = told'.about
        BY <4>1 DEF Saving
      <4>4. told'.inst = instances'[r]["save"]
        BY <1>10, <4>1
      <4>5. Messages(instances'[r]["save"], p.id) = Latest(SavedIn(steps', BeginStep(nodes', r), r, p.id))
        BY <1>3, <2>9, <4>1, <4>2 DEF KeptMessages
      <4> QED
        BY <4>2, <4>3, <4>4, <4>5
    <3>2. /\ told'.port \in {"history", "list"} => told'.about = <<>>
          /\ told'.port = "cleared" /\ s.node = "clear" => told'.about = <<>>
          /\ told'.port \notin {"status", "resolved", "assigned"}
      BY <1>5, <1>9 DEF Answers
    <3> QED
      BY <2>10, <3>1, <3>2 DEF TellsOwn
  <2>12. TellsFound(steps', told')
    <3>1. SUFFICES ASSUME told'.port = "results" PROVE Truthful(steps', s.payload.vector, told'.about)
      BY <2>10 DEF TellsFound
    <3>2. n = "search" /\ p.vector # <<>> /\ told'.about = Search(collection, p.vector)
      BY <1>9, <3>1 DEF Answers
    <3>3. p.vector \in Embedding /\ s.payload.vector = p.vector /\ collection' = collection
      BY <1>4, <1>5, <1>12, <3>2
    <3>4. PICK f : Matches(collection, steps', f)
      BY <2>4, <3>3 DEF Holding
    <3>5. PICK q \in Seq(AnyStep), c \in Seq(Entry), v \in Embedding : q = steps' /\ c = collection /\ v = p.vector
      BY <1>7, <1>11, <3>3
    <3>6. Matches(c, q, f)
      BY <3>4, <3>5
    <3>7. Truthful(q, v, Search(c, v))
      <4> HIDE DEF MemoryInv
      <4> QED
        BY <3>6, SearchTruthful
    <3> QED
      BY <3>2, <3>3, <3>5, <3>7
  <2> QED
    BY <1>13, <2>4, <2>5, <2>9, <2>11, <2>12
<1> QED
  BY <1>14, <1>15

MemorySpec == MemoryInit /\ [][MemoryNext]_memoryVars

\* Every step of the node memories keeps it.
LEMMA MemoryStepKeeps ==
    ASSUME MemoryInv, [MemoryNext]_memoryVars
    PROVE  MemoryInv'
<1>1. ASSUME NEW r \in Run, RunBegins(r) PROVE MemoryInv'
  BY <1>1, BeginKeeps
<1>2. ASSUME NEW r \in Run, NEW n \in nodes, Handle(r, n) PROVE MemoryInv'
  BY <1>2, HandleKeeps
<1>3. CASE TimePasses \/ UNCHANGED memoryVars
  BY <1>3, TimeKeeps
<1> QED
  BY <1>1, <1>2, <1>3 DEF MemoryNext

\* So it holds in every state.
LEMMA MemoryInvHolds == MemorySpec => []MemoryInv
<1>1. MemoryInit => MemoryInv
  BY InitiallyRemembers
<1>2. MemoryInv /\ [MemoryNext]_memoryVars => MemoryInv'
  BY MemoryStepKeeps
<1> QED
  BY <1>1, <1>2, PTL DEF MemorySpec

\* What a node says of its store is so, whatever the nodes, the runs and the bounds.
THEOREM MemoryRemembers == MemorySpec => []NodesRemember
<1>1. MemoryInv => NodesRemember
  BY RemembersThen DEF MemoryInv
<1> QED
  BY <1>1, MemoryInvHolds, PTL

\* MemoryInv holds the types.
LEMMA MemoryIsTyped == MemoryInv => MemoryTypeOK
<1> SUFFICES ASSUME MemoryInv PROVE MemoryTypeOK
  OBVIOUS
<1>1. nodes \in Memories /\ clock \in Nat /\ collection \in Seq(Entry)
  BY DEF MemoryInv, MemoryTypes
<1>2. DOMAIN instances = Run /\ \A r \in Run : DOMAIN instances[r] = nodes
  BY DEF MemoryInv, MemoryTypes
<1>3. Len(steps) \in 0 .. MaxSteps
  <2>1. steps \in Seq(AnyStep) /\ Len(steps) <= MaxSteps
    BY DEF MemoryInv, MemoryTypes
  <2> QED
    BY <2>1, MemoryAssumption
<1> QED
  BY <1>1, <1>2, <1>3 DEF MemoryTypeOK, Entry

\* Every variable of the stateful nodes keeps its type: the states of the node instances
\* (conversation_memory.rs, human_handoff.rs, vector_store.rs), the steps taken and what
\* the nodes told.
THEOREM MemoryTyped == MemorySpec => []MemoryTypeOK
  BY MemoryIsTyped, MemoryInvHolds, PTL

----------------------------------------------------------------------------
(* The egress policy, for any addresses, names, ranges and limits.           *)

EgressSpec == EgressInit /\ [][EgressNext]_egressVars

Trip == [via : {"http", "database", "mqtt"}, tls : BOOLEAN,
         at : {"start", "look-up", "vet", "drive", "connect", "read", "done"},
         host : Destination \cup HostName, found : SUBSET Destination,
         redirects : 0 .. MaxRedirects, body : 0 .. MaxResponseBytes]

\* The policy lets a connection of trip t to an address that was asked for as
\* host, or does not get to see it.
Permitted(t, host, address) ==
    \/ policy.mode = "permissive"
    \/ address \notin BlockedRanges \/ address \in policy.allowNets
    \/ host \in policy.allowHosts
    \/ t.via # "http" /\ t.tls /\ host \in HostName

\* What was found is permitted as long as it is carried from the look-up to the
\* connection; an address in a URL was checked before; a driver is left with a
\* name only if TLS verifies it.
OnItsWay(t) ==
    /\ t.at \in {"look-up", "read"} => t.via = "http"
    /\ t.at \in {"vet", "drive"} => t.via # "http"
    /\ t.at = "look-up" => CheckUrl(t.host)
    /\ t.at = "drive" /\ t.found = {} => t.tls /\ t.host \in HostName
    /\ t.at \in {"drive", "connect"} => \A a \in t.found : Permitted(t, t.host, a)

EgressInv ==
    /\ policy \in Policies /\ trip \in Trip
    /\ reached \subseteq (Destination \cup HostName) \X Destination
    /\ OnItsWay(trip)
    /\ \A c \in reached : Permitted(trip, c[1], c[2])

\* Nothing is found and nothing reached before the first step.
LEMMA EgressInitReady == EgressInit => EgressInv
<1> SUFFICES ASSUME EgressInit PROVE EgressInv
  OBVIOUS
<1>1. PICK via \in {"http", "database", "mqtt"}, tls \in BOOLEAN, host \in Destination \cup HostName :
          trip = [via |-> via, tls |-> tls, at |-> "start", host |-> host, found |-> {},
                  redirects |-> 0, body |-> 0]
  BY DEF EgressInit
<1>2. trip \in Trip /\ OnItsWay(trip)
  BY <1>1, EgressAssumption DEF Trip, OnItsWay
<1> QED
  BY <1>2 DEF EgressInit, EgressInv

\* A trip that goes on within the same means, and reaches nothing new.
LEMMA GoesOn ==
    ASSUME EgressInv, NEW STATE new, Goes(new), new \in Trip, OnItsWay(new),
           new.via = trip.via, new.tls = trip.tls, UNCHANGED reached
    PROVE  EgressInv'
<1>1. trip' = new /\ policy' = policy /\ reached' = reached
  BY DEF Goes
<1>2. OnItsWay(trip)'
  BY <1>1 DEF OnItsWay, CheckUrl, CheckIp, Permitted
<1>3. \A c \in reached' : Permitted(trip, c[1], c[2])'
  BY <1>1 DEF EgressInv, Permitted
<1> QED
  BY <1>1, <1>2, <1>3 DEF EgressInv

\* A refused trip carries nothing.
LEMMA RefusedIsOnItsWay ==
    ASSUME EgressInv
    PROVE  /\ Refused \in Trip /\ OnItsWay(Refused)
           /\ Refused.via = trip.via /\ Refused.tls = trip.tls
<1>1. trip \in Trip
  BY DEF EgressInv
<1> QED
  BY <1>1 DEF Refused, Trip, OnItsWay

\* What the resolver leaves of a name's addresses is permitted.
LEMMA FilteredIsPermitted ==
    ASSUME NEW STATE t, NEW host, NEW addrs, policy \in Policies,
           NEW a \in FilterResolved(host, addrs)
    PROVE  a \in addrs /\ Permitted(t, host, a)
  BY DEF FilterResolved, HostAllowed, CheckIp, Permitted

\* Every step keeps the trip on its way.
LEMMA EgressStepKeeps == EgressInv /\ [EgressNext]_egressVars => EgressInv'
<1> SUFFICES ASSUME EgressInv, [EgressNext]_egressVars PROVE EgressInv'
  OBVIOUS
<1>1. trip \in Trip /\ policy \in Policies /\ OnItsWay(trip)
  BY DEF EgressInv
<1>2. ASSUME Goes(Refused), UNCHANGED reached PROVE EgressInv'
  BY <1>2, RefusedIsOnItsWay, GoesOn
<1>3. CASE SetOut
  <2>1. CASE trip.via # "http"
    <3> DEFINE new == [trip EXCEPT !.at = "vet"]
    <3>1. new \in Trip /\ OnItsWay(new) /\ new.via = trip.via /\ new.tls = trip.tls
      BY <1>1, <2>1 DEF Trip, OnItsWay
    <3>2. Goes(new) /\ UNCHANGED reached
      BY <1>3, <2>1 DEF SetOut
    <3> HIDE DEF new
    <3> QED
      BY <3>1, <3>2, GoesOn
  <2>2. CASE trip.via = "http" /\ CheckUrl(trip.host)
    <3> DEFINE new == [trip EXCEPT !.at = "look-up"]
    <3>1. new \in Trip /\ OnItsWay(new) /\ new.via = trip.via /\ new.tls = trip.tls
      BY <1>1, <2>2 DEF Trip, OnItsWay
    <3>2. Goes(new) /\ UNCHANGED reached
      BY <1>3, <2>2 DEF SetOut
    <3> HIDE DEF new
    <3> QED
      BY <3>1, <3>2, GoesOn
  <2>3. CASE trip.via = "http" /\ ~CheckUrl(trip.host)
    BY <1>2, <1>3, <2>3 DEF SetOut
  <2> QED
    BY <2>1, <2>2, <2>3
<1>4. CASE LookUp
  <2>1. PICK addrs \in SUBSET Destination :
            LET found == IF trip.host \in Destination THEN {trip.host}
                         ELSE FilterResolved(trip.host, addrs)
            IN  Goes(IF found = {} THEN Refused ELSE [trip EXCEPT !.at = "connect", !.found = found])
    BY <1>4 DEF LookUp
  <2> DEFINE found == IF trip.host \in Destination THEN {trip.host} ELSE FilterResolved(trip.host, addrs)
             new == [trip EXCEPT !.at = "connect", !.found = found]
  <2>2. trip.at = "look-up" /\ UNCHANGED reached
    BY <1>4 DEF LookUp
  <2>3. ASSUME NEW a \in found PROVE a \in Destination /\ Permitted(new, trip.host, a)
    <3>1. CASE trip.host \in Destination
      BY <1>1, <2>2, <2>3, <3>1 DEF OnItsWay, CheckUrl, CheckIp, Permitted
    <3>2. CASE trip.host \notin Destination
      BY <1>1, <2>3, <3>2, FilteredIsPermitted
    <3> QED
      BY <3>1, <3>2
  <2>4. found \in SUBSET Destination
    BY <2>3
  <2> HIDE DEF found
  <2>5. new \in Trip /\ new.via = trip.via /\ new.tls = trip.tls
    BY <1>1, <2>4 DEF Trip
  <2>6. OnItsWay(new)
    BY <1>1, <2>3 DEF Trip, OnItsWay
  <2>7. CASE found = {}
    BY <1>2, <2>1, <2>2, <2>7 DEF found
  <2>8. CASE found # {}
    <3>1. Goes(new)
      BY <2>1, <2>8 DEF found
    <3> HIDE DEF new
    <3> QED
      BY <2>2, <2>5, <2>6, <3>1, GoesOn
  <2> QED
    BY <2>7, <2>8
<1>5. CASE Vet
  <2>1. PICK addrs \in SUBSET Destination :
            LET found == IF trip.host \in Destination
                         THEN {trip.host} \cap {a \in Destination : CheckIp(a)}
                         ELSE FilterResolved(trip.host, addrs)
                keeps == trip.tls \/ trip.host \in Destination
            IN  \/ found = {} /\ Goes(Refused)
                \/ \E first \in found :
                    Goes([trip EXCEPT !.at = "drive",
                                      !.found = IF keeps /\ trip.host \in HostName THEN {} ELSE {first}])
    BY <1>5 DEF Vet
  <2> DEFINE found == IF trip.host \in Destination
                      THEN {trip.host} \cap {a \in Destination : CheckIp(a)}
                      ELSE FilterResolved(trip.host, addrs)
             keeps == trip.tls \/ trip.host \in Destination
  <2>2. trip.at = "vet" /\ UNCHANGED reached
    BY <1>5 DEF Vet
  <2>3. CASE Goes(Refused)
    BY <1>2, <2>2, <2>3
  <2>4. ASSUME NEW first \in found,
               Goes([trip EXCEPT !.at = "drive",
                                 !.found = IF keeps /\ trip.host \in HostName THEN {} ELSE {first}])
        PROVE  EgressInv'
    <3> DEFINE left == IF keeps /\ trip.host \in HostName THEN {} ELSE {first}
               new == [trip EXCEPT !.at = "drive", !.found = left]
    <3>1. first \in Destination /\ Permitted(new, trip.host, first)
      <4>1. CASE trip.host \in Destination
        BY <1>1, <2>4, <4>1 DEF CheckIp, Permitted
      <4>2. CASE trip.host \notin Destination
        BY <1>1, <2>4, <4>2, FilteredIsPermitted
      <4> QED
        BY <4>1, <4>2
    <3>2. left \in SUBSET Destination /\ (left = {} => trip.tls /\ trip.host \in HostName)
      BY <3>1, EgressAssumption
    <3>3. \A a \in left : a = first
      OBVIOUS
    <3>4. Goes(new)
      BY <2>4
    <3> HIDE DEF left
    <3>5. new \in Trip /\ new.via = trip.via /\ new.tls = trip.tls
      BY <1>1, <3>2 DEF Trip
    <3>6. OnItsWay(new)
      <4>1. new.at = "drive" /\ new.host = trip.host /\ new.found = left /\ new.via # "http"
        BY <1>1, <2>2 DEF Trip, OnItsWay
      <4> QED
        BY <3>1, <3>2, <3>3, <3>5, <4>1 DEF OnItsWay
    <3> HIDE DEF new
    <3> QED
      BY <2>2, <3>4, <3>5, <3>6, GoesOn
  <2> QED
    BY <2>1, <2>3, <2>4
<1>6. CASE Drive
  <2>1. PICK addrs \in SUBSET Destination :
            Goes([trip EXCEPT !.at = "connect", !.found = IF @ = {} THEN addrs ELSE @])
    BY <1>6 DEF Drive
  <2> DEFINE found == IF trip.found = {} THEN addrs ELSE trip.found
             new == [trip EXCEPT !.at = "connect", !.found = found]
  <2>2. trip.at = "drive" /\ UNCHANGED reached
    BY <1>6 DEF Drive
  <2>3. Goes(new)
    BY <2>1
  <2>4. found \in SUBSET Destination
    BY <1>1 DEF Trip
  <2>5. \A a \in found : Permitted(new, trip.host, a)
    BY <1>1, <2>2 DEF OnItsWay, Permitted, Trip
  <2> HIDE DEF found
  <2>6. new \in Trip /\ new.via = trip.via /\ new.tls = trip.tls
    BY <1>1, <2>4 DEF Trip
  <2>7. OnItsWay(new)
    BY <1>1, <2>5 DEF Trip, OnItsWay
  <2> HIDE DEF new
  <2> QED
    BY <2>2, <2>3, <2>6, <2>7, GoesOn
<1>7. CASE ConnectTo
  <2>1. CASE Goes(Refused) /\ UNCHANGED reached
    BY <1>2, <2>1
  <2>2. ASSUME NEW a \in trip.found, reached' = reached \cup {<<trip.host, a>>},
               Goes([trip EXCEPT !.at = IF trip.via = "http" THEN "read" ELSE "done", !.found = {}])
        PROVE  EgressInv'
    <3> DEFINE new == [trip EXCEPT !.at = IF trip.via = "http" THEN "read" ELSE "done", !.found = {}]
    <3>1. new \in Trip /\ new.via = trip.via /\ new.tls = trip.tls /\ OnItsWay(new)
      BY <1>1 DEF Trip, OnItsWay
    <3>2. trip' = new /\ policy' = policy
      BY <2>2 DEF Goes
    <3>3. trip.at = "connect" /\ Permitted(trip, trip.host, a)
      BY <1>1, <1>7 DEF ConnectTo, OnItsWay
    <3> HIDE DEF new
    <3>4. OnItsWay(trip)'
      BY <3>1, <3>2 DEF OnItsWay, CheckUrl, CheckIp, Permitted
    <3>5. ASSUME NEW c \in reached' PROVE Permitted(trip, c[1], c[2])'
      <4>1. Permitted(trip, c[1], c[2])
        <5>1. CASE c \in reached
          BY <5>1 DEF EgressInv
        <5>2. CASE c = <<trip.host, a>>
          BY <3>3, <5>2
        <5> QED
          BY <2>2, <3>5, <5>1, <5>2
      <4> QED
        BY <3>1, <3>2, <4>1 DEF Permitted
    <3>6. reached' \subseteq (Destination \cup HostName) \X Destination
      BY <1>1, <2>2 DEF EgressInv, Trip
    <3> QED
      BY <1>1, <3>1, <3>2, <3>4, <3>5, <3>6 DEF EgressInv
  <2> QED
    BY <1>7, <2>1, <2>2 DEF ConnectTo
<1>8. CASE Redirected
  <2>1. PICK host \in Destination \cup HostName :
            Goes(IF trip.redirects = MaxRedirects \/ ~CheckUrl(host) THEN Refused
                 ELSE [trip EXCEPT !.at = "look-up", !.host = host, !.redirects = @ + 1])
    BY <1>8 DEF Redirected
  <2>2. trip.at = "read" /\ UNCHANGED reached
    BY <1>8 DEF Redirected
  <2>3. CASE trip.redirects = MaxRedirects \/ ~CheckUrl(host)
    BY <1>2, <2>1, <2>2, <2>3
  <2>4. CASE trip.redirects # MaxRedirects /\ CheckUrl(host)
    <3> DEFINE more == trip.redirects + 1
               new == [trip EXCEPT !.at = "look-up", !.host = host, !.redirects = more]
    <3>1. more \in 0 .. MaxRedirects
      BY <1>1, <2>4, EgressAssumption DEF Trip
    <3>2. Goes(new)
      BY <2>1, <2>4
    <3> HIDE DEF more
    <3>3. new \in Trip /\ new.via = trip.via /\ new.tls = trip.tls
      BY <1>1, <3>1 DEF Trip
    <3>4. OnItsWay(new)
      BY <1>1, <2>2, <2>4 DEF Trip, OnItsWay
    <3> HIDE DEF new
    <3> QED
      BY <2>2, <3>2, <3>3, <3>4, GoesOn
  <2> QED
    BY <2>3, <2>4
<1>9. CASE ReadBytes
  <2>1. PICK chunk \in 1 .. MaxResponseBytes + 1 :
            Goes(IF trip.body + chunk > MaxResponseBytes THEN [Refused EXCEPT !.body = 0]
                 ELSE [trip EXCEPT !.body = @ + chunk])
    BY <1>9 DEF ReadBytes
  <2>2. trip.at = "read" /\ UNCHANGED reached
    BY <1>9 DEF ReadBytes
  <2>3. CASE trip.body + chunk > MaxResponseBytes
    <3> DEFINE new == [Refused EXCEPT !.body = 0]
    <3>1. Goes(new)
      BY <2>1, <2>3
    <3>2. new \in Trip /\ new.via = trip.via /\ new.tls = trip.tls /\ OnItsWay(new)
      <4>1. PICK r : r = Refused
        OBVIOUS
      <4>2. r \in Trip /\ OnItsWay(r) /\ r.via = trip.via /\ r.tls = trip.tls
        BY <4>1, RefusedIsOnItsWay
      <4>3. 0 \in 0 .. MaxResponseBytes
        BY EgressAssumption
      <4>4. new = [r EXCEPT !.body = 0]
        BY <4>1
      <4>5. r.at = "done"
        BY <1>1, <4>1 DEF Refused, Trip
      <4> HIDE DEF new
      <4> QED
        BY <4>2, <4>3, <4>4, <4>5 DEF Trip, OnItsWay
    <3> HIDE DEF new
    <3> QED
      BY <2>2, <3>1, <3>2, GoesOn
  <2>4. CASE ~(trip.body + chunk > MaxResponseBytes)
    <3> DEFINE more == trip.body + chunk
               new == [trip EXCEPT !.body = more]
    <3>1. more \in 0 .. MaxResponseBytes
      BY <1>1, <2>4, EgressAssumption DEF Trip
    <3>2. Goes(new)
      BY <2>1, <2>4
    <3> HIDE DEF more
    <3>3. new \in Trip /\ new.via = trip.via /\ new.tls = trip.tls
      BY <1>1, <3>1 DEF Trip
    <3>4. OnItsWay(new)
      BY <1>1, <2>2 DEF Trip, OnItsWay
    <3> HIDE DEF new
    <3> QED
      BY <2>2, <3>2, <3>3, <3>4, GoesOn
  <2> QED
    BY <2>3, <2>4
<1>10. CASE BodyEnds
  <2> DEFINE new == [trip EXCEPT !.at = "done"]
  <2>1. new \in Trip /\ new.via = trip.via /\ new.tls = trip.tls /\ OnItsWay(new)
    BY <1>1 DEF Trip, OnItsWay
  <2>2. Goes(new) /\ UNCHANGED reached
    BY <1>10 DEF BodyEnds
  <2> HIDE DEF new
  <2> QED
    BY <2>1, <2>2, GoesOn
<1>11. CASE UNCHANGED egressVars
  BY <1>11 DEF egressVars, EgressInv, OnItsWay, CheckUrl, CheckIp, Permitted
<1> QED
  BY <1>3, <1>4, <1>5, <1>6, <1>7, <1>8, <1>9, <1>10, <1>11 DEF EgressNext

\* Under a strict policy every connection goes to an address that is not
\* blocked, unless the operator excepted the address or the host, or TLS
\* verified the name and the driver resolved it: whatever the names resolve to
\* at each look-up, and wherever redirects lead.
THEOREM EgressIsGuarded == EgressSpec => []ReachesOnlyAllowed
<1>1. EgressInv => ReachesOnlyAllowed
  BY DEF EgressInv, Permitted, ReachesOnlyAllowed
<1> QED
  BY <1>1, EgressInitReady, EgressStepKeeps, PTL DEF EgressSpec

----------------------------------------------------------------------------
(* One connection to the event stream, for any flows and any channel.        *)

SocketSpec == SocketInit /\ [][SocketNext]_socketVars

EventId == Mine \cup Theirs \cup Trace
Showing == {shown[i] : i \in DOMAIN shown}

SocketTypes ==
    /\ rows \subseteq Mine \cup Theirs
    /\ emitted \in Seq(EventId) /\ Len(emitted) <= MaxEvents
    /\ socket \in {"closed", "select", "look-up", "send", "over"}
    /\ cursor \in 0 .. Len(emitted)
    /\ DOMAIN ownership \subseteq EventId
    /\ shown \in Seq(1 .. Len(emitted)) /\ passed \subseteq 1 .. Len(emitted)

\* What the connection remembers: whose a flow is, or that the look-up of an
\* own flow went wrong.
Remembers ==
    \A id \in DOMAIN ownership :
        /\ ownership[id] \in BOOLEAN
        /\ ownership[id] => id \in Mine
        /\ ~ownership[id] /\ id \in Mine => id \in misjudged

\* The event at the cursor, between the look-up and the sending.
AtCursor ==
    /\ socket \in {"look-up", "send"} => cursor > 0
    /\ socket = "send" => emitted[cursor] \in Mine

\* What was sent is of own flows, in order, and before the event that is being
\* worked on.
ShownInOrder ==
    /\ \A i \in DOMAIN shown : emitted[shown[i]] \in Mine
    /\ \A i, j \in DOMAIN shown : i < j => shown[i] < shown[j]
    /\ \A i \in DOMAIN shown : shown[i] <= cursor
    /\ socket \in {"look-up", "send"} => \A i \in DOMAIN shown : shown[i] < cursor

\* An event of an own flow, up to the one that is being worked on, is sent or
\* has a reason to be missing.
Accounted(e) == emitted[e] \in Mine => e \in passed \/ emitted[e] \in misjudged \/ e \in Showing
NothingMissing ==
    /\ socket = "select" => \A e \in 1 .. cursor : Accounted(e)
    /\ socket \in {"look-up", "send"} => \A e \in 1 .. cursor - 1 : Accounted(e)

SocketInv == SocketTypes /\ Remembers /\ AtCursor /\ ShownInOrder /\ NothingMissing

\* Before the connection is made there is nothing to show.
LEMMA SocketInitReady == SocketInit => SocketInv
<1> SUFFICES ASSUME SocketInit PROVE SocketInv
  OBVIOUS
<1>1. emitted = << >> /\ shown = << >> /\ ownership = << >> /\ DOMAIN ownership = {} /\ DOMAIN shown = {}
  BY DEF SocketInit
<1>2. SocketTypes
  BY <1>1, SocketAssumption DEF SocketInit, SocketTypes
<1> QED
  BY <1>1, <1>2 DEF SocketInit, SocketInv, Remembers, AtCursor, ShownInOrder, NothingMissing

\* Every step keeps what was shown, remembered and passed over in step.
LEMMA SocketStepKeeps == SocketInv /\ [SocketNext]_socketVars => SocketInv'
<1> SUFFICES ASSUME SocketInv, [SocketNext]_socketVars PROVE SocketInv'
  OBVIOUS
<1>0. SocketTypes /\ Remembers /\ AtCursor /\ ShownInOrder /\ NothingMissing
  BY DEF SocketInv
<1>1. ASSUME NEW id \in EventId, EngineEmits(id) PROVE SocketInv'
  <2>1. /\ emitted' = Append(emitted, id) /\ Len(emitted) < MaxEvents
        /\ UNCHANGED <<rows, socket, cursor, ownership, shown, passed, misjudged>>
    BY <1>1 DEF EngineEmits
  <2>2. emitted' \in Seq(EventId) /\ Len(emitted') = Len(emitted) + 1
    BY <1>0, <1>1, <2>1 DEF SocketTypes
  <2>3. \A e \in 1 .. Len(emitted) : emitted'[e] = emitted[e]
    BY <1>0, <1>1, <2>1 DEF SocketTypes
  <2>4. Len(emitted) \in Nat /\ cursor \in 0 .. Len(emitted) /\ \A i \in DOMAIN shown : shown[i] \in 1 .. Len(emitted)
    BY <1>0 DEF SocketTypes
  <2>5. SocketTypes'
    <3>1. shown' \in Seq(1 .. Len(emitted'))
      BY <1>0, <2>1, <2>2, <2>4 DEF SocketTypes
    <3>2. Len(emitted') <= MaxEvents
      BY <2>1, <2>2, <2>4, SocketAssumption
    <3> QED
      BY <1>0, <2>1, <2>2, <2>4, <3>1, <3>2 DEF SocketTypes
  <2>6. Remembers'
    BY <1>0, <2>1 DEF Remembers
  <2>7. AtCursor'
    BY <1>0, <2>1, <2>3, <2>4 DEF AtCursor
  <2>8. ShownInOrder'
    BY <1>0, <2>1, <2>3, <2>4 DEF ShownInOrder
  <2>9. NothingMissing'
    BY <1>0, <2>1, <2>3, <2>4 DEF NothingMissing, Accounted, Showing
  <2> QED
    BY <2>5, <2>6, <2>7, <2>8, <2>9 DEF SocketInv
<1>2. ASSUME NEW f \in Mine \cup Theirs, DeleteRow(f) PROVE SocketInv'
  <2>1. /\ rows' \subseteq rows
        /\ UNCHANGED <<emitted, socket, cursor, ownership, shown, passed, misjudged>>
    BY <1>2 DEF DeleteRow
  <2> QED
    BY <1>0, <2>1 DEF SocketInv, SocketTypes, Remembers, AtCursor, ShownInOrder, NothingMissing, Accounted, Showing
<1>3. CASE Upgrade
  <2>1. /\ socket = "closed" /\ socket' = "select" /\ cursor' = Len(emitted) /\ passed' = 1 .. Len(emitted)
        /\ UNCHANGED <<rows, emitted, ownership, shown, misjudged>>
    BY <1>3 DEF Upgrade
  <2>2. Len(emitted) \in Nat /\ \A i \in DOMAIN shown : shown[i] \in 1 .. Len(emitted)
    BY <1>0 DEF SocketTypes
  <2>3. SocketTypes'
    BY <1>0, <2>1, <2>2 DEF SocketTypes
  <2>4. Remembers' /\ AtCursor'
    BY <1>0, <2>1 DEF Remembers, AtCursor
  <2>5. ShownInOrder'
    BY <1>0, <2>1, <2>2 DEF ShownInOrder
  <2>6. NothingMissing'
    BY <2>1 DEF NothingMissing, Accounted
  <2> QED
    BY <2>3, <2>4, <2>5, <2>6 DEF SocketInv
<1>4. CASE Lagged
  <2>1. /\ socket = "select" /\ Len(emitted) > cursor + Capacity /\ cursor' = Len(emitted) - Capacity
        /\ passed' = passed \cup (cursor + 1 .. cursor')
        /\ UNCHANGED <<rows, emitted, socket, ownership, shown, misjudged>>
    BY <1>4 DEF Lagged
  <2>2. /\ Len(emitted) \in Nat /\ cursor \in 0 .. Len(emitted) /\ Capacity \in Nat \ {0}
        /\ \A i \in DOMAIN shown : shown[i] \in 1 .. Len(emitted)
    BY <1>0, SocketAssumption DEF SocketTypes
  <2>3. cursor' \in 0 .. Len(emitted) /\ cursor < cursor'
    BY <2>1, <2>2
  <2>4. SocketTypes'
    <3>1. cursor + 1 .. cursor' \subseteq 1 .. Len(emitted)
      BY <2>2, <2>3
    <3> QED
      BY <1>0, <2>1, <2>3, <3>1 DEF SocketTypes
  <2>5. Remembers' /\ AtCursor'
    BY <1>0, <2>1 DEF Remembers, AtCursor
  <2>6. ShownInOrder'
    BY <1>0, <2>1, <2>2, <2>3 DEF ShownInOrder
  <2>7. ASSUME NEW e \in 1 .. cursor' PROVE Accounted(e)'
    <3>1. CASE e \in 1 .. cursor
      BY <1>0, <2>1, <3>1 DEF NothingMissing, Accounted, Showing
    <3>2. CASE e \notin 1 .. cursor
      <4>1. e \in cursor + 1 .. cursor'
        BY <2>2, <2>3, <2>7, <3>2
      <4> QED
        BY <2>1, <4>1 DEF Accounted
    <3> QED
      BY <3>1, <3>2
  <2>8. NothingMissing'
    BY <2>1, <2>7 DEF NothingMissing
  <2> QED
    BY <2>4, <2>5, <2>6, <2>8 DEF SocketInv
<1>5. CASE Receive
  <2>1. /\ socket = "select" /\ cursor < Len(emitted) /\ cursor' = cursor + 1
        /\ UNCHANGED <<rows, emitted, ownership, shown, passed, misjudged>>
    BY <1>5 DEF Receive
  <2>2. /\ Len(emitted) \in Nat /\ cursor \in 0 .. Len(emitted)
        /\ \A i \in DOMAIN shown : shown[i] \in 1 .. Len(emitted)
    BY <1>0 DEF SocketTypes
  <2>3. cursor' \in 1 .. Len(emitted) /\ cursor < cursor' /\ cursor' - 1 = cursor
    BY <2>1, <2>2
  <2>4. PICK id : id = emitted[cursor']
    OBVIOUS
  <2>5. socket' = IF id \notin DOMAIN ownership THEN "look-up"
                  ELSE IF ownership[id] THEN "send" ELSE "select"
    BY <1>5, <2>4 DEF Receive
  <2>6. socket' \in {"look-up", "send", "select"}
    BY <2>5
  <2>7. SocketTypes'
    BY <1>0, <2>1, <2>2, <2>3, <2>6 DEF SocketTypes
  <2>8. Remembers'
    BY <1>0, <2>1 DEF Remembers
  <2>9. AtCursor'
    BY <1>0, <2>1, <2>3, <2>4, <2>5 DEF AtCursor, Remembers
  <2>10. \A i \in DOMAIN shown : shown[i] \in Nat /\ shown[i] <= cursor
    BY <1>0, <2>2 DEF ShownInOrder
  <2>11. ShownInOrder'
    BY <1>0, <2>1, <2>2, <2>3, <2>10 DEF ShownInOrder
  <2>12. ASSUME NEW e \in 1 .. cursor PROVE Accounted(e)'
    BY <1>0, <2>1, <2>12 DEF NothingMissing, Accounted, Showing
  <2>13. CASE socket' = "select"
    <3>1. emitted'[cursor'] \in Mine => emitted'[cursor'] \in misjudged'
      BY <1>0, <2>1, <2>4, <2>5, <2>13 DEF Remembers
    <3>2. ASSUME NEW e \in 1 .. cursor' PROVE Accounted(e)'
      <4>1. e \in 1 .. cursor \/ e = cursor'
        BY <2>1, <2>2, <3>2
      <4> QED
        BY <2>12, <3>1, <4>1 DEF Accounted
    <3>3. NothingMissing'
      BY <2>13, <3>2 DEF NothingMissing
    <3> QED
      BY <2>7, <2>8, <2>9, <2>11, <3>3 DEF SocketInv
  <2>14. CASE socket' \in {"look-up", "send"}
    <3>1. NothingMissing'
      BY <2>3, <2>12, <2>14 DEF NothingMissing
    <3> QED
      BY <2>7, <2>8, <2>9, <2>11, <3>1 DEF SocketInv
  <2> QED
    BY <2>6, <2>13, <2>14
<1>6. CASE GetFlowOwner
  <2>1. PICK id : id = emitted[cursor]
    OBVIOUS
  <2>2. PICK owned \in BOOLEAN :
            /\ owned => id \in rows \cap Mine
            /\ ownership' = [i \in DOMAIN ownership \cup {id} |-> IF i = id THEN owned ELSE ownership[i]]
            /\ socket' = IF owned THEN "send" ELSE "select"
            /\ misjudged' = IF id \in Mine /\ ~owned THEN misjudged \cup {id} ELSE misjudged
    BY <1>6, <2>1 DEF GetFlowOwner
  <2>3. socket = "look-up" /\ UNCHANGED <<rows, emitted, cursor, shown, passed>>
    BY <1>6 DEF GetFlowOwner
  <2>4. /\ Len(emitted) \in Nat /\ cursor \in 1 .. Len(emitted)
        /\ \A i \in DOMAIN shown : shown[i] \in 1 .. Len(emitted)
    BY <1>0, <2>3 DEF SocketTypes, AtCursor
  <2>5. id \in EventId
    BY <1>0, <2>1, <2>4 DEF SocketTypes
  <2>6. SocketTypes'
    BY <1>0, <2>2, <2>3, <2>5 DEF SocketTypes
  <2>7. Remembers'
    BY <1>0, <2>2 DEF Remembers
  <2>8. AtCursor'
    BY <1>0, <2>1, <2>2, <2>3, <2>4 DEF AtCursor
  <2>9. ShownInOrder'
    BY <1>0, <2>2, <2>3 DEF ShownInOrder
  <2>10. ASSUME NEW e \in 1 .. cursor - 1 PROVE Accounted(e)'
    BY <1>0, <2>2, <2>3, <2>10 DEF NothingMissing, Accounted, Showing
  <2>11. ASSUME ~owned, NEW e \in 1 .. cursor PROVE Accounted(e)'
    <3>1. e \in 1 .. cursor - 1 \/ e = cursor
      BY <2>4, <2>11
    <3>2. CASE e \in 1 .. cursor - 1
      BY <2>10, <3>2
    <3>3. CASE e = cursor
      BY <2>1, <2>2, <2>3, <2>11, <3>3 DEF Accounted
    <3> QED
      BY <3>1, <3>2, <3>3
  <2>12. NothingMissing'
    BY <2>2, <2>3, <2>10, <2>11 DEF NothingMissing
  <2> QED
    BY <2>6, <2>7, <2>8, <2>9, <2>12 DEF SocketInv
<1>7. CASE SendEvent
  <2>1. /\ socket = "send" /\ shown' = Append(shown, cursor) /\ socket' = "select"
        /\ UNCHANGED <<rows, emitted, cursor, ownership, passed, misjudged>>
    BY <1>7 DEF SendEvent
  <2>2. /\ Len(emitted) \in Nat /\ cursor \in 1 .. Len(emitted)
        /\ shown \in Seq(1 .. Len(emitted)) /\ DOMAIN shown = 1 .. Len(shown) /\ Len(shown) \in Nat
        /\ \A i \in DOMAIN shown : shown[i] \in 1 .. Len(emitted)
    BY <1>0, <2>1 DEF SocketTypes, AtCursor
  <2>3. /\ shown' \in Seq(1 .. Len(emitted))
        /\ DOMAIN shown' = 1 .. Len(shown) + 1
        /\ \A i \in 1 .. Len(shown) : shown'[i] = shown[i]
        /\ shown'[Len(shown) + 1] = cursor
    BY <2>1, <2>2
  <2>4. SocketTypes'
    BY <1>0, <2>1, <2>3 DEF SocketTypes
  <2>5. Remembers' /\ AtCursor'
    BY <1>0, <2>1 DEF Remembers, AtCursor
  <2>6. \A i \in DOMAIN shown : shown[i] < cursor /\ emitted[shown[i]] \in Mine
    BY <1>0, <2>1 DEF ShownInOrder
  <2>7. ShownInOrder'
    <3>1. ASSUME NEW i \in DOMAIN shown' PROVE emitted[shown'[i]] \in Mine /\ shown'[i] <= cursor
      <4>1. i \in 1 .. Len(shown) \/ i = Len(shown) + 1
        BY <2>2, <2>3, <3>1
      <4>2. emitted[cursor] \in Mine
        BY <1>0, <2>1 DEF AtCursor
      <4> QED
        BY <2>2, <2>3, <2>6, <4>1, <4>2
    <3>2. ASSUME NEW i \in DOMAIN shown', NEW j \in DOMAIN shown', i < j PROVE shown'[i] < shown'[j]
      <4>1. i \in 1 .. Len(shown) /\ (j \in 1 .. Len(shown) \/ j = Len(shown) + 1)
        BY <2>2, <2>3, <3>2
      <4>2. CASE j \in 1 .. Len(shown)
        BY <1>0, <2>2, <2>3, <3>2, <4>1, <4>2 DEF ShownInOrder
      <4>3. CASE j = Len(shown) + 1
        BY <2>2, <2>3, <2>6, <4>1, <4>3
      <4> QED
        BY <4>1, <4>2, <4>3
    <3> QED
      BY <2>1, <3>1, <3>2 DEF ShownInOrder
  <2>8. cursor \in Showing' /\ Showing \subseteq Showing'
    <3>1. cursor \in Showing'
      BY <2>2, <2>3, Len(shown) + 1 \in DOMAIN shown' DEF Showing
    <3>2. ASSUME NEW i \in DOMAIN shown PROVE shown[i] \in Showing'
      BY <2>2, <2>3, <3>2, i \in DOMAIN shown', shown'[i] = shown[i] DEF Showing
    <3> QED
      BY <3>1, <3>2 DEF Showing
  <2>9. ASSUME NEW e \in 1 .. cursor PROVE Accounted(e)'
    <3>1. e \in 1 .. cursor - 1 \/ e = cursor
      BY <2>2, <2>9
    <3>2. CASE e = cursor
      BY <2>8, <3>2 DEF Accounted
    <3>3. CASE e \in 1 .. cursor - 1
      <4>1. Accounted(e)
        BY <1>0, <2>1, <3>3 DEF NothingMissing
      <4> QED
        BY <2>1, <2>8, <4>1 DEF Accounted
    <3> QED
      BY <3>1, <3>2, <3>3
  <2>10. NothingMissing'
    BY <2>1, <2>9 DEF NothingMissing
  <2> QED
    BY <2>4, <2>5, <2>7, <2>10 DEF SocketInv
<1>8. CASE Leave
  <2>1. socket' = "over" /\ UNCHANGED <<rows, emitted, cursor, ownership, shown, passed, misjudged>>
    BY <1>8 DEF Leave
  <2> QED
    BY <1>0, <2>1 DEF SocketInv, SocketTypes, Remembers, AtCursor, ShownInOrder, NothingMissing
<1>9. CASE UNCHANGED socketVars
  BY <1>0, <1>9 DEF socketVars, SocketInv, SocketTypes, Remembers, AtCursor, ShownInOrder, NothingMissing,
                    Accounted, Showing
<1> QED
  BY <1>1, <1>2, <1>3, <1>4, <1>5, <1>6, <1>7, <1>8, <1>9 DEF SocketNext, EventId

\* The user gets events of own flows only, each once and in order, and none is
\* missing but those the connection was behind for, or whose flow's look-up
\* failed or came after the row was gone.
THEOREM SocketIsHonest == SocketSpec => []SocketShowsOwn
<1>1. SocketInv => SocketShowsOwn
  <2> SUFFICES ASSUME SocketInv PROVE SocketShowsOwn
    OBVIOUS
  <2>1. Len(shown) \in Nat /\ DOMAIN shown = 1 .. Len(shown)
    BY DEF SocketInv, SocketTypes
  <2>2. ASSUME NEW i \in 1 .. Len(shown) - 1 PROVE shown[i] < shown[i + 1]
    <3>1. i \in DOMAIN shown /\ i + 1 \in DOMAIN shown /\ i < i + 1
      BY <2>1, <2>2
    <3> QED
      BY <3>1 DEF SocketInv, ShownInOrder
  <2> QED
    BY <2>2 DEF SocketInv, ShownInOrder, NothingMissing, Accounted, Showing, SocketShowsOwn
<1> QED
  BY <1>1, SocketInitReady, SocketStepKeeps, PTL DEF SocketSpec

----------------------------------------------------------------------------
(* The registry of tables, for any tables, reports and number of             *)
(* publications.                                                             *)

LanceSpec == LanceInit /\ [][LanceNext]_lanceVars

Generation == 0 .. MaxPublished
Plan == [source : Source, generation : Generation, shape : {"all", "some"}]
ReportState ==
    [node : {"new", "source", "filter", "execute", "lookup", "fold", "insert", "result", "rotate",
             "materialize", "done"},
     id : Source \cup {0},
     envelope : [handle : Nat, source : Source \cup {0}, generation : Generation],
     plan : Nat, data : Generation]

\* The data is of the table as it was published last, if the generation is.
\* A generation that is not the last one never becomes it again: what is known
\* is never greater than the last.
FreshData(source, generation, data) == sources[source] = generation => data = generation
KnownData(source, generation) == source \in Source /\ generation <= sources[source]

TablesOK ==
    /\ sources \in [Source -> Generation] /\ named \in Source \cup {0}
    /\ next \in Nat \ {0}
    /\ DOMAIN plans \cap DOMAIN results = {} /\ DOMAIN plans \cup DOMAIN results = 1 .. next - 1
    /\ \A h \in DOMAIN plans : plans[h] \in Plan /\ KnownData(plans[h].source, plans[h].generation)
    /\ \A h \in DOMAIN results : results[h] \in Generation

CacheOK ==
    \A k \in DOMAIN cache :
        /\ KnownData(k[1], k[2]) /\ k[2] \in Generation
        /\ cache[k] \in Generation /\ FreshData(k[1], k[2], cache[k])

\* What a report carries from one node to the next.
Carries(p) ==
    /\ p.node = "source" => p.id \in Source
    /\ p.node \in {"filter", "execute"} => p.envelope.handle \in DOMAIN plans
    /\ p.node \in {"filter", "rotate", "materialize"} => KnownData(p.envelope.source, p.envelope.generation)
    /\ p.node \in {"lookup", "fold", "insert", "result"} => p.plan \in DOMAIN plans
    /\ p.node \in {"insert", "result"} => FreshData(plans[p.plan].source, plans[p.plan].generation, p.data)
    /\ p.node \in {"rotate", "materialize"} =>
          /\ p.envelope.handle \in DOMAIN results
          /\ FreshData(p.envelope.source, p.envelope.generation, results[p.envelope.handle])

LanceInv ==
    /\ TablesOK /\ CacheOK
    /\ reports \in [Report -> ReportState]
    /\ \A r \in Report : Carries(reports[r])
    /\ exported.data = exported.current

\* Generations are bounded, so one of them is the greatest.
LEMMA GreatestIsThere ==
    ASSUME NEW M \in Nat, NEW S, S \subseteq 0 .. M, S # {}
    PROVE  Greatest(S) \in S /\ \A y \in S : y <= Greatest(S)
<1> DEFINE Above == {x .. M : x \in S}
<1>1. IsWellFoundedOn(StrictSubsetOrdering(Nat), FiniteSubsetsOf(Nat))
  BY FS_StrictSubsetOrderingWellFounded, Zenon
<1>2. Above \subseteq FiniteSubsetsOf(Nat)
  <2> SUFFICES ASSUME NEW n \in S PROVE n .. M \in SUBSET Nat /\ IsFiniteSet(n .. M)
    BY DEF FiniteSubsetsOf
  <2> QED
    BY FS_Interval
<1>3. Above # {}
  OBVIOUS
<1>4. PICK least \in Above : \A y \in Above : ~(<<y, least>> \in StrictSubsetOrdering(Nat))
  <2> HIDE DEF Above
  <2> QED
    BY <1>1, <1>2, <1>3, WFMin, Zenon
<1>5. PICK x \in S : least = x .. M
  BY <1>4
<1>6. ASSUME NEW y \in S, ~(y <= x) PROVE FALSE
  <2>1. x \in 0 .. M /\ y \in 0 .. M /\ x < y
    BY <1>6
  <2>2. y .. M \subseteq x .. M /\ x \in x .. M /\ x \notin y .. M
    BY <2>1
  <2>3. <<y .. M, x .. M>> \in StrictSubsetOrdering(Nat)
    BY <2>1, <2>2 DEF StrictSubsetOrdering
  <2> QED
    BY <1>4, <1>5, <2>3
<1> QED
  BY <1>6 DEF Greatest

\* Nothing is published, planned or cached at first.
LEMMA LanceInitReady == LanceInit => LanceInv
<1> SUFFICES ASSUME LanceInit PROVE LanceInv
  OBVIOUS
<1>1. DOMAIN plans = {} /\ DOMAIN results = {} /\ DOMAIN cache = {}
  BY DEF LanceInit
<1>2. 0 \in Generation
  BY LanceAssumption DEF Generation
<1>3. TablesOK /\ CacheOK
  BY <1>1, <1>2 DEF LanceInit, TablesOK, CacheOK
<1> DEFINE new == [Begin EXCEPT !.node = "new"]
<1>4. new \in ReportState /\ new.node = "new"
  BY <1>2 DEF Begin, NoEnvelope, ReportState
<1>5. reports = [r \in Report |-> new]
  BY DEF LanceInit
<1>6. exported.data = exported.current
  BY DEF LanceInit, Nothing
<1> HIDE DEF new
<1> QED
  BY <1>3, <1>4, <1>5, <1>6 DEF LanceInv, Carries

\* A new handle changes nothing about the old ones.
Grows ==
    /\ UNCHANGED <<sources, named>>
    /\ \A h \in DOMAIN plans : h \in DOMAIN plans' /\ plans'[h] = plans[h]
    /\ \A h \in DOMAIN results : h \in DOMAIN results' /\ results'[h] = results[h]

\* A plan that is put becomes the newest one and leaves the others.
LEMMA PlanIsPut ==
    ASSUME LanceInv, NEW plan \in Plan, KnownData(plan.source, plan.generation), PutPlan(plan),
           UNCHANGED <<sources, named>>
    PROVE  TablesOK' /\ Grows /\ next \in DOMAIN plans' /\ plans'[next] = plan
<1>1. /\ next \in Nat \ {0} /\ DOMAIN plans \cap DOMAIN results = {}
      /\ DOMAIN plans \cup DOMAIN results = 1 .. next - 1
      /\ \A h \in DOMAIN plans : plans[h] \in Plan /\ KnownData(plans[h].source, plans[h].generation)
  BY DEF LanceInv, TablesOK
<1>2. plans' = Inserted(plans, next, plan) /\ next' = next + 1 /\ results' = results
  BY DEF PutPlan
<1>3. next \notin DOMAIN plans /\ next \notin DOMAIN results
  BY <1>1
<1>4. /\ DOMAIN plans' = DOMAIN plans \cup {next} /\ plans'[next] = plan
      /\ \A h \in DOMAIN plans : plans'[h] = plans[h]
  BY <1>2, <1>3 DEF Inserted
<1>5. DOMAIN plans' \cup DOMAIN results' = 1 .. next' - 1
  BY <1>1, <1>2, <1>4
<1>6. TablesOK'
  BY <1>1, <1>2, <1>3, <1>4, <1>5 DEF LanceInv, TablesOK, KnownData
<1> QED
  BY <1>2, <1>4, <1>6 DEF Grows

\* So does a result.
LEMMA ResultIsPut ==
    ASSUME LanceInv, NEW data \in Generation, PutResult(data), UNCHANGED <<sources, named>>
    PROVE  TablesOK' /\ Grows /\ next \in DOMAIN results' /\ results'[next] = data
<1>1. /\ next \in Nat \ {0} /\ DOMAIN plans \cap DOMAIN results = {}
      /\ DOMAIN plans \cup DOMAIN results = 1 .. next - 1
      /\ \A h \in DOMAIN results : results[h] \in Generation
  BY DEF LanceInv, TablesOK
<1>2. results' = Inserted(results, next, data) /\ next' = next + 1 /\ plans' = plans
  BY DEF PutResult
<1>3. next \notin DOMAIN plans /\ next \notin DOMAIN results
  BY <1>1
<1>4. /\ DOMAIN results' = DOMAIN results \cup {next} /\ results'[next] = data
      /\ \A h \in DOMAIN results : results'[h] = results[h]
  BY <1>2, <1>3 DEF Inserted
<1>5. DOMAIN plans' \cup DOMAIN results' = 1 .. next' - 1
  BY <1>1, <1>2, <1>4
<1>6. TablesOK'
  BY <1>1, <1>2, <1>3, <1>4, <1>5 DEF LanceInv, TablesOK, KnownData
<1> QED
  BY <1>2, <1>4, <1>6 DEF Grows

\* A report that is not at work is not touched by new handles.
LEMMA CarriedOn ==
    ASSUME NEW p, Carries(p), Grows
    PROVE  Carries(p)'
  BY DEF Carries, Grows, KnownData, FreshData

\* What one node makes of its report decides what becomes of the invariant.
LEMMA OneReport ==
    ASSUME LanceInv, NEW r \in Report, NEW p \in ReportState, Advance(r, p), Carries(p)',
           Grows, TablesOK', CacheOK', (exported.data = exported.current)'
    PROVE  LanceInv'
<1>1. reports \in [Report -> ReportState] /\ reports' = [reports EXCEPT ![r] = p]
  BY DEF LanceInv, Advance
<1>2. ASSUME NEW q \in Report PROVE Carries(reports[q])'
  <2>1. CASE q = r
    <3>1. reports'[q] = p
      BY <1>1, <2>1
    <3> QED
      BY <3>1 DEF Carries, KnownData, FreshData
  <2>2. CASE q # r
    <3>1. reports'[q] = reports[q]
      BY <1>1, <2>2
    <3>2. PICK old : old = reports[q]
      OBVIOUS
    <3>3. Carries(old)
      BY <3>2 DEF LanceInv
    <3>4. Carries(old)'
      BY <3>3, CarriedOn
    <3> QED
      BY <3>1, <3>2, <3>4 DEF Carries, KnownData, FreshData
  <2> QED
    BY <2>1, <2>2
<1> QED
  BY <1>1, <1>2 DEF LanceInv

\* The cache stays as good as it is while no table is published.
LEMMA CacheStays ==
    ASSUME CacheOK, UNCHANGED <<sources, cache>>
    PROVE  CacheOK'
  BY DEF CacheOK, KnownData, FreshData

\* A report that ends carries nothing.
LEMMA EndCarriesNothing ==
    /\ [Begin EXCEPT !.node = "done"] \in ReportState
    /\ Carries([Begin EXCEPT !.node = "done"])'
<1>1. 0 \in Generation
  BY LanceAssumption DEF Generation
<1> QED
  BY <1>1 DEF Begin, NoEnvelope, ReportState, Carries

\* A table published anew has a generation above every known one: what was
\* fresh of it is stale, and nothing stale becomes fresh.
LEMMA PublishKeeps ==
    ASSUME LanceInv, NEW s \in Source, Publish(s)
    PROVE  LanceInv'
<1> DEFINE all == {sources[x] : x \in Source}
<1>1. sources \in [Source -> Generation] /\ TablesOK /\ CacheOK
  BY DEF LanceInv, TablesOK
<1>2. all \subseteq 0 .. MaxPublished /\ sources[s] \in all
  BY <1>1 DEF Generation
<1>3. PICK g : g = Greatest(all)
  OBVIOUS
<1>4. g \in Generation /\ \A x \in Source : sources[x] <= g
  <2>1. Greatest(all) \in all /\ \A y \in all : y <= Greatest(all)
    <3> HIDE DEF all
    <3> QED
      BY <1>2, GreatestIsThere, LanceAssumption
  <2> QED
    BY <1>2, <1>3, <2>1 DEF Generation
<1>5. /\ g + 1 <= MaxPublished /\ named' = s /\ sources' = [sources EXCEPT ![s] = g + 1]
      /\ cache' = [k \in {k \in DOMAIN cache : k[1] # s} |-> cache[k]]
      /\ UNCHANGED <<plans, results, next, reports, exported>>
  BY <1>3 DEF Publish
<1>6. g + 1 \in Generation
  BY <1>4, <1>5, LanceAssumption DEF Generation
<1>7. /\ sources' \in [Source -> Generation] /\ sources'[s] = g + 1
      /\ \A x \in Source : x # s => sources'[x] = sources[x]
  BY <1>1, <1>5, <1>6
<1>8. ASSUME NEW x \in Source, NEW old \in Generation, old <= sources[x]
      PROVE  old <= sources'[x] /\ (sources'[x] = old => sources[x] = old)
  <2>1. sources[x] \in Nat /\ sources[x] <= g /\ g \in Nat /\ old \in Nat
    BY <1>1, <1>4, LanceAssumption DEF Generation
  <2> QED
    BY <1>7, <1>8, <2>1
<1>9. TablesOK'
  <2>1. ASSUME NEW h \in DOMAIN plans PROVE plans[h] \in Plan /\ KnownData(plans[h].source, plans[h].generation)'
    BY <1>1, <1>5, <1>8 DEF TablesOK, KnownData, Plan
  <2> QED
    BY <1>1, <1>5, <1>7, <2>1 DEF TablesOK, KnownData
<1>10. CacheOK'
  <2>1. DOMAIN cache' \subseteq DOMAIN cache /\ \A k \in DOMAIN cache' : cache'[k] = cache[k]
    BY <1>5
  <2>2. ASSUME NEW k \in DOMAIN cache'
        PROVE  /\ (KnownData(k[1], k[2]))' /\ k[2] \in Generation
               /\ cache'[k] \in Generation /\ FreshData(k[1], k[2], cache[k])'
    BY <1>1, <1>8, <2>1 DEF CacheOK, KnownData, FreshData
  <2> QED
    BY <2>2 DEF CacheOK, KnownData, FreshData
<1>11. ASSUME NEW r \in Report PROVE Carries(reports[r])'
  <2>1. PICK p : p = reports[r]
    OBVIOUS
  <2>2. p \in ReportState /\ Carries(p)
    BY <2>1 DEF LanceInv
  <2>3. p.envelope.generation \in Generation /\ \A h \in DOMAIN plans : plans[h].generation \in Generation /\ KnownData(plans[h].source, plans[h].generation)
    BY <1>1, <2>2 DEF ReportState, TablesOK, Plan
  <2>4. Carries(p)'
    BY <1>5, <1>8, <2>2, <2>3 DEF Carries, KnownData, FreshData
  <2> QED
    BY <1>5, <2>1, <2>4 DEF Carries, KnownData, FreshData
<1> QED
  BY <1>5, <1>9, <1>10, <1>11 DEF LanceInv

\* Every node of every report, and every publication, keeps the registry sound.
LEMMA LanceStepKeeps == LanceInv /\ [LanceNext]_lanceVars => LanceInv'
<1> SUFFICES ASSUME LanceInv, [LanceNext]_lanceVars PROVE LanceInv'
  OBVIOUS
<1>1. TablesOK /\ CacheOK /\ exported.data = exported.current
  BY DEF LanceInv
<1>2. 0 \in Generation
  BY LanceAssumption DEF Generation
<1>3. ASSUME UNCHANGED <<sources, named, plans, results, next>> PROVE TablesOK' /\ Grows
  BY <1>1, <1>3 DEF TablesOK, KnownData, Grows
<1>4. ASSUME NEW r \in Report, Ends(r), UNCHANGED <<sources, named, plans, results, cache, next>>,
             (exported.data = exported.current)'
      PROVE  LanceInv'
  <2> DEFINE end == [Begin EXCEPT !.node = "done"]
  <2>1. end \in ReportState /\ Carries(end)'
    BY EndCarriesNothing
  <2>2. Advance(r, end)
    BY <1>4 DEF Ends
  <2>3. CacheOK'
    BY <1>1, <1>4, CacheStays
  <2> HIDE DEF end
  <2> QED
    BY <1>3, <1>4, <2>1, <2>2, <2>3, OneReport
<1>5. ASSUME NEW r \in Report PROVE reports[r] \in ReportState /\ Carries(reports[r])
  BY DEF LanceInv
<1>6. ASSUME NEW r \in Report, CreateSource(r) PROVE LanceInv'
  <2>1. UNCHANGED <<sources, named, plans, results, cache, next, exported>>
    BY <1>6 DEF CreateSource
  <2>2. CASE named = 0
    BY <1>1, <1>4, <1>6, <2>1, <2>2 DEF CreateSource
  <2>3. CASE named # 0
    <3>1. PICK p : p = [Begin EXCEPT !.id = named]
      OBVIOUS
    <3>2. named \in Source
      BY <1>1, <2>3 DEF TablesOK
    <3>3. p \in ReportState /\ p.node = "source" /\ p.id \in Source
      BY <1>2, <3>1, <3>2 DEF Begin, NoEnvelope, ReportState
    <3>4. Advance(r, p)
      BY <1>6, <2>3, <3>1 DEF CreateSource
    <3>5. Carries(p)'
      BY <3>3 DEF Carries
    <3>6. CacheOK' /\ TablesOK' /\ Grows
      BY <1>1, <1>3, <2>1, CacheStays
    <3> QED
      BY <1>1, <2>1, <3>3, <3>4, <3>5, <3>6, OneReport
  <2> QED
    BY <2>2, <2>3
<1>7. ASSUME NEW r \in Report, SourceNode(r) PROVE LanceInv'
  <2>1. PICK s : s = reports[r].id
    OBVIOUS
  <2>2. s \in Source /\ reports[r].node = "source"
    BY <1>5, <1>7, <2>1 DEF SourceNode, At, Carries
  <2>3. PICK g : g = sources[s]
    OBVIOUS
  <2>4. g \in Generation /\ g <= g
    BY <1>1, <2>2, <2>3 DEF TablesOK, Generation
  <2>5. PICK plan : plan = [source |-> s, generation |-> g, shape |-> "all"]
    OBVIOUS
  <2>6. plan \in Plan /\ KnownData(plan.source, plan.generation)
    BY <2>2, <2>3, <2>4, <2>5 DEF Plan, KnownData
  <2>7. PutPlan(plan) /\ UNCHANGED <<sources, named, cache, exported>>
    BY <1>7, <2>1, <2>3, <2>5 DEF SourceNode
  <2>8. PICK handle : handle = next
    OBVIOUS
  <2>9. TablesOK' /\ Grows /\ handle \in DOMAIN plans'
    BY <2>6, <2>7, <2>8, PlanIsPut
  <2>10. PICK old : old = reports[r]
    OBVIOUS
  <2>11. PICK p : p = [old EXCEPT !.node = "filter",
                                 !.envelope = [handle |-> handle, source |-> s, generation |-> g]]
    OBVIOUS
  <2>12. Advance(r, p)
    BY <1>7, <2>1, <2>3, <2>8, <2>10, <2>11 DEF SourceNode, Envelope
  <2>13. handle \in Nat
    BY <1>1, <2>8 DEF TablesOK
  <2>14. /\ p \in ReportState /\ p.node = "filter"
         /\ p.envelope = [handle |-> handle, source |-> s, generation |-> g]
    BY <1>5, <2>2, <2>4, <2>10, <2>11, <2>13 DEF ReportState
  <2>15. Carries(p)'
    BY <2>2, <2>3, <2>4, <2>7, <2>9, <2>14 DEF Carries, KnownData
  <2>16. CacheOK'
    BY <1>1, <2>7, CacheStays
  <2> QED
    BY <1>1, <2>7, <2>9, <2>12, <2>14, <2>15, <2>16, OneReport
<1>8. ASSUME NEW r \in Report, RefinePlan(r) PROVE LanceInv'
  <2>1. PICK old : old = reports[r]
    OBVIOUS
  <2>2. PICK e : e = old.envelope
    OBVIOUS
  <2>3. /\ old \in ReportState /\ old.node = "filter"
        /\ e.handle \in DOMAIN plans /\ KnownData(e.source, e.generation) /\ e.generation \in Generation
    BY <1>5, <1>8, <2>1, <2>2 DEF RefinePlan, At, Carries, ReportState
  <2>4. UNCHANGED <<sources, named, cache, exported>>
    BY <1>8 DEF RefinePlan
  <2>5. CASE ~CheckHandle(e)
    BY <1>1, <1>4, <1>8, <2>1, <2>2, <2>4, <2>5 DEF RefinePlan
  <2>6. CASE CheckHandle(e)
    <3>1. PICK shape \in {"all", "some"} :
              /\ PutPlan([plans[e.handle] EXCEPT !.shape = shape])
              /\ Advance(r, [old EXCEPT !.node = "execute", !.envelope = Envelope(e.source, e.generation)])
      BY <1>8, <2>1, <2>2, <2>6 DEF RefinePlan
    <3>2. PICK base : base = plans[e.handle]
      OBVIOUS
    <3>3. base \in Plan /\ KnownData(base.source, base.generation)
      BY <1>1, <2>3, <3>2 DEF TablesOK
    <3>4. PICK plan : plan = [base EXCEPT !.shape = shape]
      OBVIOUS
    <3>5. plan \in Plan /\ plan.source = base.source /\ plan.generation = base.generation
      BY <3>3, <3>4 DEF Plan
    <3>6. PutPlan(plan)
      BY <3>1, <3>2, <3>4
    <3>7. PICK handle : handle = next
      OBVIOUS
    <3>8. TablesOK' /\ Grows /\ handle \in DOMAIN plans'
      BY <2>4, <3>3, <3>5, <3>6, <3>7, PlanIsPut
    <3>9. PICK p : p = [old EXCEPT !.node = "execute",
                 !.envelope = [handle |-> handle, source |-> e.source, generation |-> e.generation]]
      OBVIOUS
    <3>10. Advance(r, p)
      BY <3>1, <3>7, <3>9 DEF Envelope
    <3>11. handle \in Nat
      BY <1>1, <3>7 DEF TablesOK
    <3>12. p \in ReportState /\ p.node = "execute" /\ p.envelope.handle = handle
      BY <2>3, <3>9, <3>11 DEF ReportState, KnownData
    <3>13. Carries(p)'
      BY <3>8, <3>12 DEF Carries
    <3>14. CacheOK'
      BY <1>1, <2>4, CacheStays
    <3> QED
      BY <1>1, <2>4, <3>8, <3>10, <3>12, <3>13, <3>14, OneReport
  <2> QED
    BY <2>5, <2>6
<1>9. ASSUME NEW r \in Report, ResolvePlan(r) PROVE LanceInv'
  <2>1. UNCHANGED <<sources, named, plans, results, cache, next, exported>>
    BY <1>9 DEF ResolvePlan
  <2>2. CASE ~CheckHandle(reports[r].envelope)
    BY <1>1, <1>4, <1>9, <2>1, <2>2 DEF ResolvePlan
  <2>3. CASE CheckHandle(reports[r].envelope)
    <3>1. PICK old : old = reports[r]
      OBVIOUS
    <3>2. old \in ReportState /\ old.envelope.handle \in DOMAIN plans /\ old.envelope.handle \in Nat
      BY <1>5, <1>9, <3>1 DEF ResolvePlan, At, Carries, ReportState
    <3>3. PICK p : p = [old EXCEPT !.node = "lookup", !.plan = old.envelope.handle]
      OBVIOUS
    <3>4. p \in ReportState /\ p.node = "lookup" /\ p.plan = old.envelope.handle
      BY <3>2, <3>3 DEF ReportState
    <3>5. Advance(r, p)
      BY <1>9, <2>3, <3>1, <3>3 DEF ResolvePlan
    <3>6. Carries(p)'
      BY <2>1, <3>2, <3>4 DEF Carries
    <3>7. CacheOK' /\ TablesOK' /\ Grows
      BY <1>1, <1>3, <2>1, CacheStays
    <3> QED
      BY <1>1, <2>1, <3>4, <3>5, <3>6, <3>7, OneReport
  <2> QED
    BY <2>2, <2>3
<1>10. ASSUME NEW r \in Report, LookUpCache(r) PROVE LanceInv'
  <2>1. UNCHANGED <<sources, named, plans, results, cache, next, exported>>
    BY <1>10 DEF LookUpCache
  <2>2. PICK old : old = reports[r]
    OBVIOUS
  <2>3. old \in ReportState /\ old.plan \in DOMAIN plans
    BY <1>5, <1>10, <2>2 DEF LookUpCache, At, Carries
  <2>4. PICK plan : plan = plans[old.plan]
    OBVIOUS
  <2>5. PICK key : key = <<plan.source, plan.generation, plan.shape>>
    OBVIOUS
  <2>6. PICK p : p = IF key \in DOMAIN cache THEN [old EXCEPT !.node = "result", !.data = cache[key]]
                     ELSE [old EXCEPT !.node = "fold"]
    OBVIOUS
  <2>7. Advance(r, p)
    BY <1>10, <2>2, <2>4, <2>5, <2>6 DEF LookUpCache, PhysicalKey
  <2>8. p \in ReportState /\ Carries(p)'
    <3>1. CASE key \in DOMAIN cache
      <4>1. cache[key] \in Generation /\ FreshData(plan.source, plan.generation, cache[key])
        BY <1>1, <2>5, <3>1 DEF CacheOK
      <4>2. p \in ReportState /\ p.node = "result" /\ p.data = cache[key] /\ p.plan = old.plan
        BY <2>3, <2>6, <3>1, <4>1 DEF ReportState
      <4> QED
        BY <2>1, <2>3, <2>4, <4>1, <4>2 DEF Carries, FreshData
    <3>2. CASE key \notin DOMAIN cache
      <4>1. p \in ReportState /\ p.node = "fold" /\ p.plan = old.plan
        BY <2>3, <2>6, <3>2 DEF ReportState
      <4> QED
        BY <2>1, <2>3, <4>1 DEF Carries
    <3> QED
      BY <3>1, <3>2
  <2>9. CacheOK' /\ TablesOK' /\ Grows
    BY <1>1, <1>3, <2>1, CacheStays
  <2> QED
    BY <1>1, <2>1, <2>7, <2>8, <2>9, OneReport
<1>11. ASSUME NEW r \in Report, FoldBatch(r) PROVE LanceInv'
  <2>1. UNCHANGED <<sources, named, plans, results, cache, next, exported>>
    BY <1>11 DEF FoldBatch
  <2>2. PICK old : old = reports[r]
    OBVIOUS
  <2>3. old \in ReportState /\ old.plan \in DOMAIN plans
    BY <1>5, <1>11, <2>2 DEF FoldBatch, At, Carries
  <2>4. PICK plan : plan = plans[old.plan]
    OBVIOUS
  <2>5. plan \in Plan /\ sources[plan.source] \in Generation
    BY <1>1, <2>3, <2>4 DEF TablesOK, Plan
  <2>6. PICK p : p = [old EXCEPT !.node = "insert", !.data = sources[plan.source]]
    OBVIOUS
  <2>7. Advance(r, p)
    BY <1>11, <2>2, <2>4, <2>6 DEF FoldBatch
  <2>8. p \in ReportState /\ p.node = "insert" /\ p.data = sources[plan.source] /\ p.plan = old.plan
    BY <2>3, <2>5, <2>6 DEF ReportState
  <2>9. Carries(p)'
    BY <2>1, <2>3, <2>4, <2>8 DEF Carries, FreshData
  <2>10. CacheOK' /\ TablesOK' /\ Grows
    BY <1>1, <1>3, <2>1, CacheStays
  <2> QED
    BY <1>1, <2>1, <2>7, <2>8, <2>9, <2>10, OneReport
<1>12. ASSUME NEW r \in Report, InsertResult(r) PROVE LanceInv'
  <2>1. UNCHANGED <<sources, named, plans, results, next, exported>>
    BY <1>12 DEF InsertResult
  <2>2. PICK old : old = reports[r]
    OBVIOUS
  <2>3. PICK plan : plan = plans[old.plan]
    OBVIOUS
  <2>4. /\ old \in ReportState /\ old.plan \in DOMAIN plans
        /\ FreshData(plan.source, plan.generation, old.data)
    BY <1>5, <1>12, <2>2, <2>3 DEF InsertResult, At, Carries
  <2>5. plan \in Plan /\ KnownData(plan.source, plan.generation)
    BY <1>1, <2>3, <2>4 DEF TablesOK
  <2>6. PICK key : key = <<plan.source, plan.generation, plan.shape>>
    OBVIOUS
  <2>7. cache' = Inserted(cache, key, old.data)
    BY <1>12, <2>2, <2>3, <2>6 DEF InsertResult, PhysicalKey
  <2>8. CacheOK'
    <3>1. ASSUME NEW k \in DOMAIN cache'
          PROVE  /\ KnownData(k[1], k[2]) /\ k[2] \in Generation
                 /\ cache'[k] \in Generation /\ FreshData(k[1], k[2], cache'[k])
      <4>1. CASE k = key
        <5>1. cache'[k] = old.data /\ k[1] = plan.source /\ k[2] = plan.generation
          BY <2>6, <2>7, <4>1 DEF Inserted
        <5> QED
          BY <2>4, <2>5, <5>1 DEF ReportState, Plan
      <4>2. CASE k # key
        <5>1. k \in DOMAIN cache /\ cache'[k] = cache[k]
          BY <2>7, <3>1, <4>2 DEF Inserted
        <5> QED
          BY <1>1, <5>1 DEF CacheOK
      <4> QED
        BY <4>1, <4>2
    <3> QED
      BY <2>1, <3>1 DEF CacheOK, KnownData, FreshData
  <2>9. PICK p : p = [old EXCEPT !.node = "result"]
    OBVIOUS
  <2>10. Advance(r, p)
    BY <1>12, <2>2, <2>9 DEF InsertResult
  <2>11. p \in ReportState /\ p.node = "result" /\ p.data = old.data /\ p.plan = old.plan
    BY <2>4, <2>9 DEF ReportState
  <2>12. Carries(p)'
    BY <2>1, <2>3, <2>4, <2>11 DEF Carries, FreshData
  <2>13. TablesOK' /\ Grows
    BY <1>3, <2>1
  <2> QED
    BY <1>1, <2>1, <2>8, <2>10, <2>11, <2>12, <2>13, OneReport
<1>13. ASSUME NEW r \in Report, PutExecuted(r) PROVE LanceInv'
  <2>1. UNCHANGED <<sources, named, cache, exported>>
    BY <1>13 DEF PutExecuted
  <2>2. PICK old : old = reports[r]
    OBVIOUS
  <2>3. PICK plan : plan = plans[old.plan]
    OBVIOUS
  <2>4. /\ old \in ReportState /\ old.plan \in DOMAIN plans
        /\ FreshData(plan.source, plan.generation, old.data)
    BY <1>5, <1>13, <2>2, <2>3 DEF PutExecuted, At, Carries
  <2>5. plan \in Plan /\ KnownData(plan.source, plan.generation)
    BY <1>1, <2>3, <2>4 DEF TablesOK
  <2>6. PutResult(old.data) /\ old.data \in Generation
    BY <1>13, <2>2, <2>4 DEF PutExecuted, ReportState
  <2>7. PICK handle : handle = next
    OBVIOUS
  <2>8. TablesOK' /\ Grows /\ handle \in DOMAIN results' /\ results'[handle] = old.data
    BY <2>1, <2>6, <2>7, ResultIsPut
  <2>9. PICK p : p = [old EXCEPT !.node = "rotate",
            !.envelope = [handle |-> handle, source |-> plan.source, generation |-> plan.generation]]
    OBVIOUS
  <2>10. Advance(r, p)
    BY <1>13, <2>2, <2>3, <2>7, <2>9 DEF PutExecuted, Envelope
  <2>11. handle \in Nat
    BY <1>1, <2>7 DEF TablesOK
  <2>12. /\ p \in ReportState /\ p.node = "rotate"
         /\ p.envelope = [handle |-> handle, source |-> plan.source, generation |-> plan.generation]
    BY <2>4, <2>5, <2>9, <2>11 DEF ReportState, Plan
  <2>13. Carries(p)'
    BY <2>1, <2>4, <2>5, <2>8, <2>12 DEF Carries, KnownData, FreshData
  <2>14. CacheOK'
    BY <1>1, <2>1, CacheStays
  <2> QED
    BY <1>1, <2>1, <2>8, <2>10, <2>12, <2>13, <2>14, OneReport
<1>14. ASSUME NEW r \in Report, ReviewResult(r) PROVE LanceInv'
  <2>1. PICK old : old = reports[r]
    OBVIOUS
  <2>2. PICK e : e = old.envelope
    OBVIOUS
  <2>3. /\ old \in ReportState /\ old.node = "rotate"
        /\ e.handle \in DOMAIN results /\ KnownData(e.source, e.generation) /\ e.generation \in Generation
        /\ FreshData(e.source, e.generation, results[e.handle])
    BY <1>5, <1>14, <2>1, <2>2 DEF ReviewResult, At, Carries, ReportState
  <2>4. UNCHANGED <<sources, named, cache, exported>>
    BY <1>14 DEF ReviewResult
  <2>5. CASE ~CheckHandle(e)
    BY <1>1, <1>4, <1>14, <2>1, <2>2, <2>4, <2>5 DEF ReviewResult
  <2>6. CASE CheckHandle(e)
    <3>1. PICK data : data = results[e.handle]
      OBVIOUS
    <3>2. data \in Generation
      BY <1>1, <2>3, <3>1 DEF TablesOK
    <3>3. PutResult(data)
      BY <1>14, <2>1, <2>2, <2>6, <3>1 DEF ReviewResult
    <3>4. PICK handle : handle = next
      OBVIOUS
    <3>5. TablesOK' /\ Grows /\ handle \in DOMAIN results' /\ results'[handle] = data
      BY <2>4, <3>2, <3>3, <3>4, ResultIsPut
    <3>6. PICK p : p = [old EXCEPT !.node = "materialize",
                 !.envelope = [handle |-> handle, source |-> e.source, generation |-> e.generation]]
      OBVIOUS
    <3>7. Advance(r, p)
      BY <1>14, <2>1, <2>2, <2>6, <3>4, <3>6 DEF ReviewResult, Envelope
    <3>8. handle \in Nat
      BY <1>1, <3>4 DEF TablesOK
    <3>9. /\ p \in ReportState /\ p.node = "materialize"
          /\ p.envelope = [handle |-> handle, source |-> e.source, generation |-> e.generation]
      BY <2>3, <3>6, <3>8 DEF ReportState, KnownData
    <3>10. Carries(p)'
      BY <2>3, <2>4, <3>1, <3>5, <3>9 DEF Carries, KnownData, FreshData
    <3>11. CacheOK'
      BY <1>1, <2>4, CacheStays
    <3> QED
      BY <1>1, <2>4, <3>5, <3>7, <3>9, <3>10, <3>11, OneReport
  <2> QED
    BY <2>5, <2>6
<1>15. ASSUME NEW r \in Report, Materialize(r) PROVE LanceInv'
  <2>1. PICK e : e = reports[r].envelope
    OBVIOUS
  <2>2. FreshData(e.source, e.generation, results[e.handle])
    BY <1>5, <1>15, <2>1 DEF Materialize, At, Carries
  <2>3. exported' = IF ~CheckHandle(e) THEN Nothing
                    ELSE [source |-> e.source, data |-> results[e.handle], current |-> sources[e.source]]
    BY <1>15, <2>1 DEF Materialize
  <2>4. (exported.data = exported.current)'
    BY <2>2, <2>3 DEF Nothing, CheckHandle, FreshData
  <2> QED
    BY <1>4, <1>15, <2>4 DEF Materialize
<1>16. CASE UNCHANGED lanceVars
  BY <1>16 DEF lanceVars, LanceInv, TablesOK, CacheOK, Carries, KnownData, FreshData
<1> QED
  BY PublishKeeps, <1>6, <1>7, <1>8, <1>9, <1>10, <1>11, <1>12, <1>13, <1>14, <1>15, <1>16 DEF LanceNext

\* What is exported was folded from the table as it was published last, and no
\* entry of the cache that can still be looked up is older than its table,
\* however folds and publications overlap.
THEOREM TablesAreFresh == LanceSpec => []FreshTables
<1>1. LanceInv => FreshTables
  BY DEF LanceInv, CacheOK, FreshData, FreshTables
<1> QED
  BY <1>1, LanceInitReady, LanceStepKeeps, PTL DEF LanceSpec

----------------------------------------------------------------------------
(* The directory of one plugin, for any set of commands.                     *)

FilesSpec == PluginFilesInit /\ [][PluginFilesNext]_pluginFileVars

FileContent == Command \cup {0, Torn}
Folder == [there : BOOLEAN, wasm : FileContent, manifest : FileContent]
CommandState ==
    [at : {"new", "make", "wasm", "manifest", "register", "clean", "remove", "done"},
     writing : BOOLEAN, said : {"nothing", "installed", "removed", "failed"}]

FilesTypes ==
    /\ folder \in Folder
    /\ commands \in [Command -> CommandState]
    /\ boot \in [at : {"new", "scanned", "ready"}, saw : Command \cup {0}, runs : Folder]
    /\ alone \in BOOLEAN /\ faulty \in BOOLEAN

\* Commands speak once, at their end; finitely many have spoken, whatever the
\* set of commands is.
Sayers(text) == {c \in Command : commands[c].said = text}
Spoken ==
    /\ \A c \in Command : commands[c].at # "done" => commands[c].said = "nothing"
    /\ IsFiniteSet(Sayers("installed")) /\ IsFiniteSet(Sayers("removed"))
Balance == Cardinality(Sayers("installed")) - Cardinality(Sayers("removed"))

\* The directory in any state that a process may have been killed in.
FolderFits ==
    /\ folder.manifest \in Command => folder.wasm \in {0, folder.manifest}
    /\ ~folder.there => folder.wasm = 0 /\ folder.manifest = 0

\* The directory while nobody works on it.
AtRest ==
    ~faulty => /\ folder.there => folder.manifest \in Command /\ folder.wasm = folder.manifest
               /\ Balance = IF folder.there THEN 1 ELSE 0

\* The directory while command c works on it, by how far c is.
InProgress(c) ==
    /\ CommandAt(c, "make") => ~folder.there
    /\ CommandAt(c, "wasm") =>
          folder.there /\ folder.manifest = 0 /\ folder.wasm = IF commands[c].writing THEN Torn ELSE 0
    /\ CommandAt(c, "manifest") =>
          folder.there /\ folder.wasm = c /\ folder.manifest = IF commands[c].writing THEN Torn ELSE 0
    /\ CommandAt(c, "register") => folder.there /\ folder.wasm = c /\ folder.manifest = c
    /\ CommandAt(c, "clean") => folder.manifest \notin Command
    /\ CommandAt(c, "remove") => folder.there
    /\ ~faulty => Balance = IF CommandAt(c, "remove") THEN 1 ELSE 0

\* What holds as long as commands and starts have followed one another.
InTurn ==
    /\ FolderFits
    /\ boot.runs.wasm = boot.runs.manifest
    /\ Starting => Running = {} /\ boot.saw = Registered
    /\ \A c, d \in Running : c = d
    /\ Running = {} => AtRest
    /\ \A c \in Running : InProgress(c)

FilesInv == FilesTypes /\ Spoken /\ (alone => InTurn)

\* No command has begun, and there is no directory.
LEMMA FilesInitReady == PluginFilesInit => FilesInv
<1> SUFFICES ASSUME PluginFilesInit PROVE FilesInv
  OBVIOUS
<1>1. FilesTypes
  BY DEF PluginFilesInit, FilesTypes, Folder, FileContent, CommandState, Gone
<1>2. Running = {} /\ Sayers("installed") = {} /\ Sayers("removed") = {}
  BY DEF PluginFilesInit, Running, Sayers
<1>3. Spoken /\ Balance = 0
  BY <1>2, FS_EmptySet DEF PluginFilesInit, Spoken, Balance
<1>4. InTurn
  BY <1>2, <1>3, CommandAssumption DEF PluginFilesInit, InTurn, FolderFits, AtRest, Starting, Gone
<1> QED
  BY <1>1, <1>3, <1>4 DEF FilesInv

\* A command that goes on, or ends without success, leaves the balance.
LEMMA SaysNoMore ==
    ASSUME FilesInv, NEW c \in Command, commands[c].at # "done",
           NEW new \in CommandState, commands' = [commands EXCEPT ![c] = new],
           new.said \in {"nothing", "failed"}, new.at # "done" => new.said = "nothing"
    PROVE  /\ commands' \in [Command -> CommandState] /\ Spoken' /\ Balance' = Balance
           /\ commands'[c] = new /\ \A d \in Command : d # c => commands'[d] = commands[d]
<1>1. commands \in [Command -> CommandState] /\ commands[c].said = "nothing" /\ Spoken
  BY DEF FilesInv, FilesTypes, Spoken
<1>2. /\ commands' \in [Command -> CommandState] /\ commands'[c] = new
      /\ \A d \in Command : d # c => commands'[d] = commands[d]
  BY <1>1
<1>3. Sayers("installed")' = Sayers("installed") /\ Sayers("removed")' = Sayers("removed")
  BY <1>1, <1>2 DEF Sayers
<1> QED
  BY <1>1, <1>2, <1>3 DEF Spoken, Balance

\* A command that succeeds is one more of its kind.
LEMMA SaysInstalled ==
    ASSUME FilesInv, NEW c \in Command, commands[c].at # "done",
           NEW new \in CommandState, commands' = [commands EXCEPT ![c] = new],
           new.said = "installed", new.at = "done"
    PROVE  /\ commands' \in [Command -> CommandState] /\ Spoken' /\ Balance' = Balance + 1
           /\ commands'[c] = new /\ \A d \in Command : d # c => commands'[d] = commands[d]
<1>1. commands \in [Command -> CommandState] /\ commands[c].said = "nothing" /\ Spoken
  BY DEF FilesInv, FilesTypes, Spoken
<1>2. /\ commands' \in [Command -> CommandState] /\ commands'[c] = new
      /\ \A d \in Command : d # c => commands'[d] = commands[d]
  BY <1>1
<1>3. /\ Sayers("installed")' = Sayers("installed") \cup {c} /\ c \notin Sayers("installed")
      /\ Sayers("removed")' = Sayers("removed")
  BY <1>1, <1>2 DEF Sayers
<1>4. IsFiniteSet(Sayers("installed")) /\ IsFiniteSet(Sayers("removed"))
  BY <1>1 DEF Spoken
<1>5. /\ IsFiniteSet(Sayers("installed")')
      /\ Cardinality(Sayers("installed")') = Cardinality(Sayers("installed")) + 1
  BY <1>3, <1>4, FS_AddElement
<1>6. Cardinality(Sayers("installed")) \in Nat /\ Cardinality(Sayers("removed")) \in Nat
  BY <1>4, FS_CardinalityType
<1>7. Balance' = Balance + 1
  BY <1>3, <1>5, <1>6 DEF Balance
<1>8. Spoken'
  BY <1>1, <1>2, <1>3, <1>5 DEF Spoken
<1> QED
  BY <1>2, <1>7, <1>8

\* A command that says it removed a plugin takes one from the balance.
LEMMA SaysRemoved ==
    ASSUME FilesInv, NEW c \in Command, commands[c].at # "done",
           NEW new \in CommandState, commands' = [commands EXCEPT ![c] = new],
           new.said = "removed", new.at = "done"
    PROVE  /\ commands' \in [Command -> CommandState] /\ Spoken' /\ Balance' = Balance - 1
           /\ commands'[c] = new /\ \A d \in Command : d # c => commands'[d] = commands[d]
<1>1. commands \in [Command -> CommandState] /\ commands[c].said = "nothing" /\ Spoken
  BY DEF FilesInv, FilesTypes, Spoken
<1>2. /\ commands' \in [Command -> CommandState] /\ commands'[c] = new
      /\ \A d \in Command : d # c => commands'[d] = commands[d]
  BY <1>1
<1>3. /\ Sayers("removed")' = Sayers("removed") \cup {c} /\ c \notin Sayers("removed")
      /\ Sayers("installed")' = Sayers("installed")
  BY <1>1, <1>2 DEF Sayers
<1>4. IsFiniteSet(Sayers("installed")) /\ IsFiniteSet(Sayers("removed"))
  BY <1>1 DEF Spoken
<1>5. /\ IsFiniteSet(Sayers("removed")')
      /\ Cardinality(Sayers("removed")') = Cardinality(Sayers("removed")) + 1
  BY <1>3, <1>4, FS_AddElement
<1>6. Cardinality(Sayers("installed")) \in Nat /\ Cardinality(Sayers("removed")) \in Nat
  BY <1>4, FS_CardinalityType
<1>7. Balance' = Balance - 1
  BY <1>3, <1>5, <1>6 DEF Balance
<1>8. Spoken'
  BY <1>1, <1>2, <1>3, <1>5 DEF Spoken
<1> QED
  BY <1>2, <1>7, <1>8

\* The one command that works goes on.
LEMMA WorkGoesOn ==
    ASSUME FilesInv, NEW c \in Command, Running \subseteq {c}, ~Starting, UNCHANGED boot,
           boot.runs.wasm = boot.runs.manifest,
           commands'[c].at \notin {"new", "done"},
           \A d \in Command : d # c => commands'[d] = commands[d],
           FolderFits', InProgress(c)'
    PROVE  InTurn'
<1>1. Running' = {c}
  BY DEF Running
<1> QED
  BY <1>1 DEF InTurn, Starting

\* The one command that works ends.
LEMMA WorkEnds ==
    ASSUME FilesInv, NEW c \in Command, Running \subseteq {c}, ~Starting, UNCHANGED boot,
           boot.runs.wasm = boot.runs.manifest,
           commands'[c].at = "done",
           \A d \in Command : d # c => commands'[d] = commands[d],
           FolderFits', AtRest'
    PROVE  InTurn'
<1>1. Running' = {}
  BY DEF Running
<1> QED
  BY <1>1 DEF InTurn, Starting

\* A command at work is the only one, and no server is starting.
LEMMA OnlyOne ==
    ASSUME FilesInv, alone, NEW c \in Running
    PROVE  Running \subseteq {c} /\ ~Starting /\ FolderFits /\ InProgress(c) /\ boot.runs.wasm = boot.runs.manifest
  BY DEF FilesInv, InTurn

\* A command that enters alone finds the directory at rest.
LEMMA EntersAlone ==
    ASSUME FilesInv, Enters(Running, Starting), alone'
    PROVE  /\ alone /\ Running = {} /\ ~Starting /\ FolderFits /\ AtRest
           /\ boot.runs.wasm = boot.runs.manifest
  BY DEF FilesInv, InTurn, Enters, FilesTypes

\* How a command goes on, in the terms of its actions.
Others(c) == \A d \in Command : d # c => commands'[d] = commands[d]

\* A command that goes on to its next step disturbs no other and says nothing.
LEMMA Steps ==
    ASSUME FilesInv, NEW c \in Command, commands[c].at # "done",
           NEW at \in {"make", "wasm", "manifest", "register", "clean", "remove"}, NextStep(c, at)
    PROVE  /\ commands' \in [Command -> CommandState] /\ Spoken' /\ Balance' = Balance /\ Others(c)
           /\ commands'[c].at = at /\ commands'[c].writing = FALSE
<1>1. commands[c] \in CommandState /\ commands \in [Command -> CommandState] /\ commands[c].said = "nothing"
  BY DEF FilesInv, FilesTypes, Spoken
<1>2. PICK new : new = [commands[c] EXCEPT !.at = at, !.writing = FALSE]
  OBVIOUS
<1>3. new \in CommandState /\ new.at = at /\ new.writing = FALSE /\ new.said = "nothing"
  BY <1>1, <1>2 DEF CommandState
<1>4. commands' = [commands EXCEPT ![c] = new]
  BY <1>1, <1>2 DEF NextStep
<1> QED
  BY <1>3, <1>4, SaysNoMore DEF Others

\* So does one that begins to write.
LEMMA Writes ==
    ASSUME FilesInv, NEW c \in Command, commands[c].at # "done",
           commands' = [commands EXCEPT ![c].writing = TRUE]
    PROVE  /\ commands' \in [Command -> CommandState] /\ Spoken' /\ Balance' = Balance /\ Others(c)
           /\ commands'[c].at = commands[c].at /\ commands'[c].writing = TRUE
<1>1. commands[c] \in CommandState /\ commands \in [Command -> CommandState] /\ commands[c].said = "nothing"
  BY DEF FilesInv, FilesTypes, Spoken
<1>2. PICK new : new = [commands[c] EXCEPT !.writing = TRUE]
  OBVIOUS
<1>3. new \in CommandState /\ new.at = commands[c].at /\ new.writing = TRUE /\ new.said = "nothing"
  BY <1>1, <1>2 DEF CommandState
<1>4. commands' = [commands EXCEPT ![c] = new]
  BY <1>1, <1>2
<1> QED
  BY <1>3, <1>4, SaysNoMore DEF Others

\* A command that ends says so, and the balance follows what it says.
LEMMA Ending ==
    ASSUME FilesInv, NEW c \in Command, commands[c].at # "done",
           NEW text \in {"nothing", "failed", "installed", "removed"}, Says(c, text)
    PROVE  /\ commands' \in [Command -> CommandState] /\ Spoken' /\ Others(c) /\ commands'[c].at = "done"
           /\ Balance' = CASE text = "installed" -> Balance + 1
                           [] text = "removed" -> Balance - 1
                           [] OTHER -> Balance
<1>1. commands[c] \in CommandState /\ commands \in [Command -> CommandState]
  BY DEF FilesInv, FilesTypes
<1>2. PICK new : new = [commands[c] EXCEPT !.at = "done", !.said = text]
  OBVIOUS
<1>3. new \in CommandState /\ new.at = "done" /\ new.said = text
  BY <1>1, <1>2 DEF CommandState
<1>4. commands' = [commands EXCEPT ![c] = new]
  BY <1>1, <1>2 DEF Says
<1>5. CASE text = "installed"
  BY <1>3, <1>4, <1>5, SaysInstalled DEF Others
<1>6. CASE text = "removed"
  BY <1>3, <1>4, <1>6, SaysRemoved DEF Others
<1>7. CASE text \in {"nothing", "failed"}
  BY <1>3, <1>4, <1>7, SaysNoMore DEF Others
<1> QED
  BY <1>5, <1>6, <1>7

\* Every step of a command keeps the invariant.
LEMMA CommandKeeps ==
    ASSUME FilesInv, NEW c \in Command,
           \/ InstallBegins(c) \/ MakeFolder(c) \/ RegisterInstalled(c) \/ RemoveBegins(c)
           \/ RemoveFolder(c) \/ RemoveFails(c) \/ Killed(c)
    PROVE  FilesInv'
<1>1. /\ folder \in Folder /\ commands \in [Command -> CommandState] /\ commands[c] \in CommandState
      /\ boot \in [at : {"new", "scanned", "ready"}, saw : Command \cup {0}, runs : Folder]
      /\ alone \in BOOLEAN /\ faulty \in BOOLEAN
  BY DEF FilesInv, FilesTypes
<1>2. 0 \notin Command
  BY CommandAssumption
<1>3. ASSUME UNCHANGED <<folder, boot>>, alone' \in BOOLEAN, faulty' \in BOOLEAN,
             commands' \in [Command -> CommandState]
      PROVE  FilesTypes'
  BY <1>1, <1>3 DEF FilesTypes
<1>4. CASE InstallBegins(c)
  <2>1. commands[c].at = "new" /\ Enters(Running, Starting) /\ UNCHANGED <<folder, boot, faulty>>
    BY <1>4 DEF InstallBegins, CommandAt
  <2>2. alone' \in BOOLEAN
    BY <1>1, <2>1 DEF Enters
  <2>3. CASE ~folder.there /\ NextStep(c, "make")
    <3>1. /\ commands' \in [Command -> CommandState] /\ Spoken' /\ Balance' = Balance /\ Others(c)
          /\ commands'[c].at = "make"
      BY <2>1, <2>3, Steps
    <3>2. FilesTypes'
      BY <1>1, <1>3, <2>1, <2>2, <3>1
    <3>3. ASSUME alone' PROVE InTurn'
      <4>1. Running = {} /\ ~Starting /\ FolderFits /\ AtRest /\ boot.runs.wasm = boot.runs.manifest
        BY <2>1, <3>3, EntersAlone
      <4>2. FolderFits'
        BY <2>1, <4>1 DEF FolderFits
      <4>3. InProgress(c)'
        BY <2>1, <2>3, <3>1, <4>1 DEF InProgress, CommandAt, AtRest
      <4> QED
        BY <2>1, <3>1, <4>1, <4>2, <4>3, WorkGoesOn DEF Others
    <3> QED
      BY <3>1, <3>2, <3>3 DEF FilesInv
  <2>4. CASE Says(c, "failed")
    <3>1. /\ commands' \in [Command -> CommandState] /\ Spoken' /\ Balance' = Balance /\ Others(c)
          /\ commands'[c].at = "done"
      BY <2>1, <2>4, Ending
    <3>2. FilesTypes'
      BY <1>1, <1>3, <2>1, <2>2, <3>1
    <3>3. ASSUME alone' PROVE InTurn'
      <4>1. Running = {} /\ ~Starting /\ FolderFits /\ AtRest /\ boot.runs.wasm = boot.runs.manifest
        BY <2>1, <3>3, EntersAlone
      <4>2. FolderFits' /\ AtRest'
        BY <2>1, <3>1, <4>1 DEF FolderFits, AtRest
      <4> QED
        BY <2>1, <3>1, <4>1, <4>2, WorkEnds DEF Others
    <3> QED
      BY <3>1, <3>2, <3>3 DEF FilesInv
  <2> QED
    BY <1>4, <2>3, <2>4 DEF InstallBegins
<1>5. CASE RemoveBegins(c)
  <2>1. commands[c].at = "new" /\ Enters(Running, Starting) /\ UNCHANGED <<folder, boot, faulty>>
    BY <1>5 DEF RemoveBegins, CommandAt
  <2>2. alone' \in BOOLEAN
    BY <1>1, <2>1 DEF Enters
  <2>3. CASE Registered # 0 /\ NextStep(c, "remove")
    <3>1. /\ commands' \in [Command -> CommandState] /\ Spoken' /\ Balance' = Balance /\ Others(c)
          /\ commands'[c].at = "remove"
      BY <2>1, <2>3, Steps
    <3>2. FilesTypes'
      BY <1>1, <1>3, <2>1, <2>2, <3>1
    <3>3. ASSUME alone' PROVE InTurn'
      <4>1. Running = {} /\ ~Starting /\ FolderFits /\ AtRest /\ boot.runs.wasm = boot.runs.manifest
        BY <2>1, <3>3, EntersAlone
      <4>2. FolderFits'
        BY <2>1, <4>1 DEF FolderFits
      <4>3. folder.there
        BY <1>1, <1>2, <2>3, <4>1 DEF Registered, FolderFits, Folder
      <4>4. InProgress(c)'
        BY <2>1, <3>1, <4>1, <4>3 DEF InProgress, CommandAt, AtRest
      <4> QED
        BY <2>1, <3>1, <4>1, <4>2, <4>4, WorkGoesOn DEF Others
    <3> QED
      BY <3>1, <3>2, <3>3 DEF FilesInv
  <2>4. CASE Says(c, "failed")
    <3>1. /\ commands' \in [Command -> CommandState] /\ Spoken' /\ Balance' = Balance /\ Others(c)
          /\ commands'[c].at = "done"
      BY <2>1, <2>4, Ending
    <3>2. FilesTypes'
      BY <1>1, <1>3, <2>1, <2>2, <3>1
    <3>3. ASSUME alone' PROVE InTurn'
      <4>1. Running = {} /\ ~Starting /\ FolderFits /\ AtRest /\ boot.runs.wasm = boot.runs.manifest
        BY <2>1, <3>3, EntersAlone
      <4>2. FolderFits' /\ AtRest'
        BY <2>1, <3>1, <4>1 DEF FolderFits, AtRest
      <4> QED
        BY <2>1, <3>1, <4>1, <4>2, WorkEnds DEF Others
    <3> QED
      BY <3>1, <3>2, <3>3 DEF FilesInv
  <2> QED
    BY <1>5, <2>3, <2>4 DEF RemoveBegins
<1>6. CASE MakeFolder(c)
  <2>1. commands[c].at = "make" /\ c \in Running /\ UNCHANGED <<boot, alone, faulty>>
    BY <1>6 DEF MakeFolder, CommandAt, Quiet, Running
  <2>2. CASE folder' = [folder EXCEPT !.there = TRUE] /\ NextStep(c, "wasm")
    <3>1. /\ commands' \in [Command -> CommandState] /\ Spoken' /\ Balance' = Balance /\ Others(c)
          /\ commands'[c].at = "wasm" /\ commands'[c].writing = FALSE
      BY <2>1, <2>2, Steps
    <3>2. /\ folder' \in Folder /\ folder'.there = TRUE /\ folder'.wasm = folder.wasm
          /\ folder'.manifest = folder.manifest
      BY <1>1, <2>2 DEF Folder
    <3>3. FilesTypes'
      BY <1>1, <2>1, <3>1, <3>2 DEF FilesTypes
    <3>4. ASSUME alone' PROVE InTurn'
      <4>1. /\ Running \subseteq {c} /\ ~Starting /\ FolderFits /\ InProgress(c)
            /\ boot.runs.wasm = boot.runs.manifest
        BY <2>1, <3>4, OnlyOne
      <4>2. folder.wasm = 0 /\ folder.manifest = 0
        BY <2>1, <4>1 DEF FolderFits, InProgress, CommandAt
      <4>3. FolderFits'
        BY <1>2, <3>2, <4>2 DEF FolderFits
      <4>4. InProgress(c)'
        BY <2>1, <3>1, <3>2, <4>1, <4>2 DEF InProgress, CommandAt
      <4> QED
        BY <2>1, <3>1, <4>1, <4>3, <4>4, WorkGoesOn DEF Others
    <3> QED
      BY <3>1, <3>3, <3>4 DEF FilesInv
  <2>3. CASE UNCHANGED folder /\ NextStep(c, "clean")
    <3>1. /\ commands' \in [Command -> CommandState] /\ Spoken' /\ Balance' = Balance /\ Others(c)
          /\ commands'[c].at = "clean"
      BY <2>1, <2>3, Steps
    <3>2. FilesTypes'
      BY <1>1, <1>3, <2>1, <2>3, <3>1
    <3>3. ASSUME alone' PROVE InTurn'
      <4>1. /\ Running \subseteq {c} /\ ~Starting /\ FolderFits /\ InProgress(c)
            /\ boot.runs.wasm = boot.runs.manifest
        BY <2>1, <3>3, OnlyOne
      <4>2. folder.manifest = 0
        BY <2>1, <4>1 DEF FolderFits, InProgress, CommandAt
      <4>3. FolderFits'
        BY <2>3, <4>1 DEF FolderFits
      <4>4. InProgress(c)'
        BY <1>2, <2>1, <2>3, <3>1, <4>1, <4>2 DEF InProgress, CommandAt
      <4> QED
        BY <2>1, <3>1, <4>1, <4>3, <4>4, WorkGoesOn DEF Others
    <3> QED
      BY <3>1, <3>2, <3>3 DEF FilesInv
  <2> QED
    BY <1>6, <2>2, <2>3 DEF MakeFolder
<1>7. CASE RegisterInstalled(c)
  <2>1. commands[c].at = "register" /\ c \in Running /\ UNCHANGED <<folder, boot, alone, faulty>>
    BY <1>7 DEF RegisterInstalled, CommandAt, Quiet, Running
  <2>2. PICK text \in {"installed", "failed"} :
            Says(c, text) /\ text = IF Registered # 0 THEN "installed" ELSE "failed"
    BY <1>7 DEF RegisterInstalled
  <2>3. /\ commands' \in [Command -> CommandState] /\ Spoken' /\ Others(c) /\ commands'[c].at = "done"
        /\ text = "installed" => Balance' = Balance + 1
    BY <2>1, <2>2, Ending
  <2>4. FilesTypes'
    BY <1>1, <1>3, <2>1, <2>3
  <2>5. ASSUME alone' PROVE InTurn'
    <3>1. /\ Running \subseteq {c} /\ ~Starting /\ FolderFits /\ InProgress(c)
          /\ boot.runs.wasm = boot.runs.manifest
      BY <2>1, <2>5, OnlyOne
    <3>2. folder.there /\ folder.wasm = c /\ folder.manifest = c /\ (~faulty => Balance = 0)
      BY <2>1, <3>1 DEF InProgress, CommandAt
    <3>3. text = "installed"
      BY <1>2, <2>2, <3>2 DEF Registered
    <3>4. FolderFits' /\ AtRest'
      BY <2>1, <2>3, <3>1, <3>2, <3>3 DEF FolderFits, AtRest
    <3> QED
      BY <2>1, <2>3, <3>1, <3>4, WorkEnds DEF Others
  <2> QED
    BY <2>3, <2>4, <2>5 DEF FilesInv
<1>8. CASE RemoveFolder(c)
  <2>1. /\ commands[c].at \in {"clean", "remove"} /\ c \in Running /\ UNCHANGED <<boot, alone, faulty>>
        /\ folder' = Gone
    BY <1>8 DEF RemoveFolder, Quiet, Running
  <2>2. folder' \in Folder /\ ~folder'.there /\ folder'.wasm = 0 /\ folder'.manifest = 0
    BY <2>1 DEF Gone, Folder, FileContent
  <2>3. PICK text \in {"removed", "failed"} :
            Says(c, text) /\ text = IF folder.there /\ CommandAt(c, "remove") THEN "removed" ELSE "failed"
    BY <1>8 DEF RemoveFolder, Removed
  <2>4. /\ commands' \in [Command -> CommandState] /\ Spoken' /\ Others(c) /\ commands'[c].at = "done"
        /\ text = "removed" => Balance' = Balance - 1
        /\ text = "failed" => Balance' = Balance
    BY <2>1, <2>3, Ending
  <2>5. FilesTypes'
    BY <1>1, <2>1, <2>2, <2>4 DEF FilesTypes
  <2>6. ASSUME alone' PROVE InTurn'
    <3>1. /\ Running \subseteq {c} /\ ~Starting /\ FolderFits /\ InProgress(c)
          /\ boot.runs.wasm = boot.runs.manifest
      BY <2>1, <2>6, OnlyOne
    <3>2. FolderFits'
      BY <2>2, <1>2 DEF FolderFits
    <3>3. ~faulty => Balance' = 0
      <4>1. CASE CommandAt(c, "remove")
        BY <2>3, <2>4, <3>1, <4>1 DEF InProgress
      <4>2. CASE ~CommandAt(c, "remove")
        BY <2>3, <2>4, <3>1, <4>2 DEF InProgress
      <4> QED
        BY <4>1, <4>2
    <3>4. AtRest'
      BY <2>1, <2>2, <3>3 DEF AtRest
    <3> QED
      BY <2>1, <2>4, <3>1, <3>2, <3>4, WorkEnds DEF Others
  <2> QED
    BY <2>4, <2>5, <2>6 DEF FilesInv
<1>9. CASE RemoveFails(c) \/ Killed(c)
  <2>1. PICK text \in {"nothing", "failed"} : Says(c, text)
    BY <1>9 DEF RemoveFails, Killed
  <2>2. c \in Running /\ faulty' = TRUE /\ UNCHANGED <<folder, boot, alone>>
    BY <1>9 DEF RemoveFails, Killed, Running
  <2>3. /\ commands' \in [Command -> CommandState] /\ Spoken' /\ Others(c) /\ commands'[c].at = "done"
    BY <2>1, <2>2, Ending DEF Running
  <2>4. FilesTypes'
    BY <1>1, <1>3, <2>2, <2>3
  <2>5. ASSUME alone' PROVE InTurn'
    <3>1. Running \subseteq {c} /\ ~Starting /\ FolderFits /\ boot.runs.wasm = boot.runs.manifest
      BY <2>2, <2>5, OnlyOne
    <3>2. FolderFits' /\ AtRest'
      BY <2>2, <3>1 DEF FolderFits, AtRest
    <3> QED
      BY <2>2, <2>3, <3>1, <3>2, WorkEnds DEF Others
  <2> QED
    BY <2>3, <2>4, <2>5 DEF FilesInv
<1> QED
  BY <1>4, <1>5, <1>6, <1>7, <1>8, <1>9

\* One file of the directory is written over or removed.
LEMMA OneFile ==
    ASSUME FilesInv, NEW f \in File, NEW text \in FileContent, folder' = [folder EXCEPT ![f] = text]
    PROVE  /\ folder' \in Folder /\ folder'.there = folder.there
           /\ f = "wasm" => folder'.wasm = text /\ folder'.manifest = folder.manifest
           /\ f = "manifest" => folder'.manifest = text /\ folder'.wasm = folder.wasm
<1>1. folder \in Folder
  BY DEF FilesInv, FilesTypes
<1>2. CASE f = "wasm"
  BY <1>1, <1>2 DEF Folder
<1>3. CASE f = "manifest"
  BY <1>1, <1>3 DEF Folder
<1> QED
  BY <1>2, <1>3 DEF File

\* Every step of a command with one of the files keeps the invariant.
LEMMA FileKeeps ==
    ASSUME FilesInv, NEW c \in Command, NEW f \in File,
           WriteBegins(c, f) \/ WriteEnds(c, f) \/ RemoveFile(c, f)
    PROVE  FilesInv'
<1>1. /\ folder \in Folder /\ commands \in [Command -> CommandState] /\ commands[c] \in CommandState
      /\ boot \in [at : {"new", "scanned", "ready"}, saw : Command \cup {0}, runs : Folder]
      /\ alone \in BOOLEAN /\ faulty \in BOOLEAN
  BY DEF FilesInv, FilesTypes
<1>2. 0 \notin Command /\ Torn \notin Command
  BY CommandAssumption DEF Torn
<1>3. UNCHANGED <<boot, alone, faulty>>
  BY DEF WriteBegins, WriteEnds, RemoveFile, Quiet
<1>4. ASSUME folder' \in Folder, commands' \in [Command -> CommandState] PROVE FilesTypes'
  BY <1>1, <1>3, <1>4 DEF FilesTypes
<1>5. ASSUME commands[c].at = f, UNCHANGED folder, NextStep(c, "clean")
      PROVE  FilesInv'
  <2>1. c \in Running
    BY <1>5 DEF Running, File
  <2>2. /\ commands' \in [Command -> CommandState] /\ Spoken' /\ Balance' = Balance /\ Others(c)
        /\ commands'[c].at = "clean"
    BY <1>5, Steps DEF File
  <2>3. FilesTypes'
    BY <1>1, <1>4, <1>5, <2>2
  <2>4. ASSUME alone' PROVE InTurn'
    <3>1. /\ Running \subseteq {c} /\ ~Starting /\ FolderFits /\ InProgress(c)
          /\ boot.runs.wasm = boot.runs.manifest
      BY <1>3, <2>1, <2>4, OnlyOne
    <3>2. FolderFits'
      BY <1>5, <3>1 DEF FolderFits
    <3>3. folder.manifest \notin Command
      BY <1>2, <1>5, <3>1 DEF InProgress, CommandAt, File
    <3>4. ~faulty => Balance = 0
      BY <1>5, <3>1 DEF InProgress, CommandAt, File
    <3>5. InProgress(c)'
      BY <1>3, <1>5, <2>2, <3>3, <3>4 DEF InProgress, CommandAt
    <3> QED
      BY <1>3, <2>2, <3>1, <3>2, <3>5, WorkGoesOn DEF Others
  <2> QED
    BY <2>2, <2>3, <2>4 DEF FilesInv
<1>6. CASE WriteBegins(c, f)
  <2>1. commands[c].at = f /\ ~commands[c].writing /\ c \in Running
    BY <1>6 DEF WriteBegins, CommandAt, Running, File
  <2>2. CASE /\ folder.there /\ folder' = [folder EXCEPT ![f] = Torn]
             /\ commands' = [commands EXCEPT ![c].writing = TRUE]
    <3>1. /\ commands' \in [Command -> CommandState] /\ Spoken' /\ Balance' = Balance /\ Others(c)
          /\ commands'[c].at = f /\ commands'[c].writing = TRUE
      BY <2>1, <2>2, Writes DEF File
    <3>2. Torn \in FileContent
      BY DEF FileContent
    <3>3. /\ folder' \in Folder /\ folder'.there = folder.there
          /\ f = "wasm" => folder'.wasm = Torn /\ folder'.manifest = folder.manifest
          /\ f = "manifest" => folder'.manifest = Torn /\ folder'.wasm = folder.wasm
      BY <2>2, <3>2, OneFile
    <3>4. FilesTypes'
      BY <1>4, <3>1, <3>3
    <3>5. ASSUME alone' PROVE InTurn'
      <4>1. /\ Running \subseteq {c} /\ ~Starting /\ FolderFits /\ InProgress(c)
            /\ boot.runs.wasm = boot.runs.manifest
        BY <1>3, <2>1, <3>5, OnlyOne
      <4>2. f = "wasm" => folder.manifest = 0
        BY <2>1, <4>1 DEF InProgress, CommandAt
      <4>3. folder'.manifest \notin Command /\ folder'.there
        BY <1>2, <2>2, <3>3, <4>2 DEF File
      <4>4. FolderFits'
        BY <4>3 DEF FolderFits
      <4>5. ~faulty => Balance = 0
        BY <2>1, <4>1 DEF InProgress, CommandAt, File
      <4>6. f = "manifest" => folder.wasm = c
        BY <2>1, <4>1 DEF InProgress, CommandAt
      <4>7. InProgress(c)'
        BY <1>3, <2>2, <3>1, <3>3, <4>2, <4>5, <4>6 DEF InProgress, CommandAt, File
      <4> QED
        BY <1>3, <3>1, <4>1, <4>4, <4>7, WorkGoesOn DEF Others, File
    <3> QED
      BY <3>1, <3>4, <3>5 DEF FilesInv
  <2> QED
    BY <1>5, <1>6, <2>1, <2>2 DEF WriteBegins
<1>7. CASE WriteEnds(c, f)
  <2>1. commands[c].at = f /\ commands[c].writing /\ c \in Running
    BY <1>7 DEF WriteEnds, CommandAt, Running, File
  <2>2. CASE /\ \E text \in CASE folder[f] = Torn -> {c}
                              [] folder[f] = 0 -> {0}
                              [] OTHER -> {c, Torn} : folder' = [folder EXCEPT ![f] = text]
             /\ NextStep(c, IF f = "wasm" THEN "manifest" ELSE "register")
    <3>1. PICK text \in FileContent :
              folder' = [folder EXCEPT ![f] = text] /\ (folder[f] = Torn => text = c)
      <4>1. CASE folder[f] = Torn
        <5>1. (CASE folder[f] = Torn -> {c} [] folder[f] = 0 -> {0} [] OTHER -> {c, Torn}) = {c}
          BY <4>1 DEF Torn
        <5> QED
          BY <2>2, <5>1 DEF FileContent
      <4>2. CASE folder[f] # Torn /\ folder[f] = 0
        BY <2>2, <4>2 DEF FileContent
      <4>3. CASE folder[f] # Torn /\ folder[f] # 0
        BY <2>2, <4>3 DEF FileContent
      <4> QED
        BY <4>1, <4>2, <4>3
    <3>2. PICK at \in {"manifest", "register"} :
              NextStep(c, at) /\ at = IF f = "wasm" THEN "manifest" ELSE "register"
      BY <2>2
    <3>3. /\ commands' \in [Command -> CommandState] /\ Spoken' /\ Balance' = Balance /\ Others(c)
          /\ commands'[c].at = at /\ commands'[c].writing = FALSE
      BY <2>1, <3>2, Steps DEF File
    <3>4. /\ folder' \in Folder /\ folder'.there = folder.there
          /\ f = "wasm" => folder'.wasm = text /\ folder'.manifest = folder.manifest
          /\ f = "manifest" => folder'.manifest = text /\ folder'.wasm = folder.wasm
      BY <3>1, OneFile
    <3>5. FilesTypes'
      BY <1>4, <3>3, <3>4
    <3>6. ASSUME alone' PROVE InTurn'
      <4>1. /\ Running \subseteq {c} /\ ~Starting /\ FolderFits /\ InProgress(c)
            /\ boot.runs.wasm = boot.runs.manifest
        BY <1>3, <2>1, <3>6, OnlyOne
      <4>2. folder.there /\ (~faulty => Balance = 0)
        BY <2>1, <4>1 DEF InProgress, CommandAt, File
      <4>3. CASE f = "wasm"
        <5>1. folder.manifest = 0 /\ folder.wasm = Torn
          BY <2>1, <4>1, <4>3 DEF InProgress, CommandAt
        <5>2. folder'.wasm = c /\ folder'.manifest = 0
          BY <3>1, <3>4, <4>3, <5>1
        <5>3. FolderFits'
          BY <1>2, <3>4, <4>2, <5>2 DEF FolderFits
        <5>4. InProgress(c)'
          BY <1>3, <3>2, <3>3, <3>4, <4>2, <4>3, <5>2 DEF InProgress, CommandAt
        <5> QED
          BY <1>3, <3>3, <4>1, <5>3, <5>4, WorkGoesOn DEF Others
      <4>4. CASE f = "manifest"
        <5>1. folder.wasm = c /\ folder.manifest = Torn
          BY <2>1, <4>1, <4>4 DEF InProgress, CommandAt
        <5>2. folder'.wasm = c /\ folder'.manifest = c
          BY <3>1, <3>4, <4>4, <5>1
        <5>3. FolderFits'
          BY <3>4, <4>2, <5>2 DEF FolderFits
        <5>4. InProgress(c)'
          BY <1>3, <3>2, <3>3, <3>4, <4>2, <4>4, <5>2 DEF InProgress, CommandAt
        <5> QED
          BY <1>3, <3>3, <4>1, <5>3, <5>4, WorkGoesOn DEF Others
      <4> QED
        BY <4>3, <4>4 DEF File
    <3> QED
      BY <3>3, <3>5, <3>6 DEF FilesInv
  <2> QED
    BY <1>5, <1>7, <2>1, <2>2 DEF WriteEnds
<1>8. CASE RemoveFile(c, f)
  <2>1. /\ commands[c].at \in {"clean", "remove"} /\ c \in Running
        /\ folder' = [folder EXCEPT ![f] = 0] /\ UNCHANGED commands
    BY <1>8 DEF RemoveFile, Running
  <2>2. 0 \in FileContent
    BY DEF FileContent
  <2>3. /\ folder' \in Folder /\ folder'.there = folder.there
        /\ f = "wasm" => folder'.wasm = 0 /\ folder'.manifest = folder.manifest
        /\ f = "manifest" => folder'.manifest = 0 /\ folder'.wasm = folder.wasm
    BY <2>1, <2>2, OneFile
  <2>4. FilesTypes' /\ Spoken'
    BY <1>1, <1>4, <2>1, <2>3 DEF FilesInv, Spoken, Sayers
  <2>5. ASSUME alone' PROVE InTurn'
    <3>1. /\ Running \subseteq {c} /\ ~Starting /\ FolderFits /\ InProgress(c)
          /\ boot.runs.wasm = boot.runs.manifest
      BY <1>3, <2>1, <2>5, OnlyOne
    <3>2. FolderFits'
      BY <1>2, <2>3, <3>1 DEF FolderFits, File
    <3>3. Balance' = Balance
      BY <2>1 DEF Balance, Sayers
    <3>4. InProgress(c)'
      BY <1>2, <1>3, <2>1, <2>3, <3>1, <3>3 DEF InProgress, CommandAt, File
    <3> QED
      BY <1>3, <2>1, <3>1, <3>2, <3>4, WorkGoesOn
  <2> QED
    BY <2>4, <2>5 DEF FilesInv
<1> QED
  BY <1>6, <1>7, <1>8

\* The scan and the start of the server keep the invariant.
LEMMA StartKeeps == FilesInv /\ (Scan \/ RegisterPlugins \/ RestartServer) => FilesInv'
<1> SUFFICES ASSUME FilesInv, Scan \/ RegisterPlugins \/ RestartServer PROVE FilesInv'
  OBVIOUS
<1>1. /\ folder \in Folder /\ commands \in [Command -> CommandState]
      /\ boot \in [at : {"new", "scanned", "ready"}, saw : Command \cup {0}, runs : Folder]
      /\ alone \in BOOLEAN /\ faulty \in BOOLEAN
  BY DEF FilesInv, FilesTypes
<1>2. UNCHANGED <<folder, commands, faulty>>
  BY DEF Scan, RegisterPlugins, RestartServer
<1>3. Gone \in Folder /\ Gone.wasm = Gone.manifest
  BY DEF Gone, Folder, FileContent
<1>4. Spoken' /\ Running' = Running /\ Balance' = Balance
  BY <1>2 DEF FilesInv, Spoken, Sayers, Running, Balance
<1>5. ASSUME InTurn, UNCHANGED alone
      PROVE  FolderFits' /\ (Running' = {} => AtRest') /\ \A c \in Running' : InProgress(c)'
  BY <1>2, <1>4, <1>5 DEF InTurn, FolderFits, AtRest, InProgress, CommandAt
<1>6. CASE Scan
  <2>1. /\ boot.at = "new" /\ boot' = [boot EXCEPT !.at = "scanned", !.saw = Registered]
        /\ alone' = (alone /\ Running = {})
    BY <1>6 DEF Scan, Enters
  <2>2. Registered \in Command \cup {0}
    BY DEF Registered
  <2>3. FilesTypes'
    BY <1>1, <1>2, <2>1, <2>2 DEF FilesTypes
  <2>4. ASSUME alone' PROVE InTurn'
    <3>1. alone /\ InTurn /\ Running = {}
      BY <1>1, <2>1, <2>4 DEF FilesInv
    <3>2. FolderFits' /\ (Running' = {} => AtRest') /\ \A c \in Running' : InProgress(c)'
      BY <1>5, <2>4, <3>1
    <3>3. boot'.runs = boot.runs /\ boot'.saw = Registered
      BY <1>1, <2>1
    <3>4. Registered' = Registered
      BY <1>2 DEF Registered
    <3> QED
      BY <1>4, <3>1, <3>2, <3>3, <3>4 DEF InTurn
  <2> QED
    BY <1>4, <2>3, <2>4 DEF FilesInv
<1>7. CASE RegisterPlugins
  <2>1. PICK ran \in Folder : ran = IF boot.saw # 0 /\ folder.wasm \in Command
                     THEN [there |-> TRUE, wasm |-> folder.wasm, manifest |-> boot.saw] ELSE Gone
    BY <1>1, <1>3 DEF Folder, FileContent
  <2>2. boot.at = "scanned" /\ boot' = [boot EXCEPT !.at = "ready", !.runs = ran] /\ UNCHANGED alone
    BY <1>7, <2>1 DEF RegisterPlugins
  <2>3. FilesTypes'
    BY <1>1, <1>2, <2>2 DEF FilesTypes
  <2>4. ASSUME alone' PROVE InTurn'
    <3>1. alone /\ InTurn /\ boot.saw = Registered
      BY <2>2, <2>4 DEF FilesInv, InTurn, Starting
    <3>2. FolderFits' /\ (Running' = {} => AtRest') /\ \A c \in Running' : InProgress(c)'
      BY <1>5, <2>2, <3>1
    <3>3. ran.wasm = ran.manifest
      <4>1. CASE boot.saw # 0 /\ folder.wasm \in Command
        <5>1. boot.saw = folder.manifest /\ folder.manifest \in Command /\ folder.wasm # 0
          BY <3>1, <4>1, CommandAssumption DEF Registered
        <5> QED
          BY <2>1, <3>1, <4>1, <5>1 DEF InTurn, FolderFits
      <4>2. CASE ~(boot.saw # 0 /\ folder.wasm \in Command)
        BY <1>3, <2>1, <4>2
      <4> QED
        BY <4>1, <4>2
    <3>4. boot'.runs = ran /\ boot'.at = "ready"
      BY <1>1, <2>2
    <3> QED
      BY <1>4, <3>1, <3>2, <3>3, <3>4 DEF InTurn, Starting
  <2> QED
    BY <1>4, <2>3, <2>4 DEF FilesInv
<1>8. CASE RestartServer
  <2>1. boot' = [at |-> "new", saw |-> 0, runs |-> Gone] /\ UNCHANGED alone
    BY <1>8 DEF RestartServer
  <2>2. FilesTypes'
    BY <1>1, <1>2, <1>3, <2>1 DEF FilesTypes
  <2>3. ASSUME alone' PROVE InTurn'
    <3>1. InTurn
      BY <2>1, <2>3 DEF FilesInv
    <3>2. FolderFits' /\ (Running' = {} => AtRest') /\ \A c \in Running' : InProgress(c)'
      BY <1>5, <2>1, <3>1
    <3> QED
      BY <1>3, <1>4, <2>1, <3>1, <3>2 DEF InTurn, Starting
  <2> QED
    BY <1>4, <2>2, <2>3 DEF FilesInv
<1> QED
  BY <1>6, <1>7, <1>8

\* Every step of the commands and of the start keeps the directory's invariant.
LEMMA FilesKept == FilesInv /\ [PluginFilesNext]_pluginFileVars => FilesInv'
<1> SUFFICES ASSUME FilesInv, [PluginFilesNext]_pluginFileVars PROVE FilesInv'
  OBVIOUS
<1>1. CASE UNCHANGED pluginFileVars
  BY <1>1 DEF pluginFileVars, FilesInv, FilesTypes, Spoken, Sayers, Balance, InTurn, FolderFits,
              AtRest, InProgress, CommandAt, Running, Starting, Registered
<1> QED
  BY <1>1, CommandKeeps, FileKeeps, StartKeeps DEF PluginFilesNext

\* As long as commands and starts follow one another, no manifest stands beside
\* a module that is torn or of another build, wherever a process was killed,
\* and no server runs such a pair; and without a fault the directory is there
\* exactly if the last word on it was "installed".
THEOREM FilesAreWhole == FilesSpec => []PluginsAreWhole
<1>1. FilesInv => PluginsAreWhole
  <2> SUFFICES ASSUME FilesInv, alone
               PROVE  /\ folder.manifest \in Command => folder.wasm \in {0, folder.manifest}
                      /\ boot.runs.wasm = boot.runs.manifest
                      /\ ~faulty /\ Running = {} =>
                          /\ folder.there => folder.manifest \in Command /\ folder.wasm = folder.manifest
                          /\ Saying("installed") - Saying("removed") = IF folder.there THEN 1 ELSE 0
    BY DEF PluginsAreWhole
  <2>1. InTurn
    BY DEF FilesInv
  <2>2. Balance = Saying("installed") - Saying("removed")
    BY DEF Balance, Sayers, Saying
  <2> QED
    BY <2>1, <2>2 DEF InTurn, FolderFits, AtRest
<1> QED
  BY <1>1, FilesKept, FilesInitReady, PTL DEF FilesSpec

----------------------------------------------------------------------------
(* The token buckets, for any clients, proxies, quota and window.            *)

RateSpec == RateInit /\ [][RateNext]_rateVars

\* g is the list of sums of the first values of f.
AreSums(g, f, N) ==
    g \in [0 .. N -> Nat] /\ g[0] = 0 /\ \A k \in 1 .. N : g[k] = g[k - 1] + f[k]

\* A finite list of numbers has sums, and GrantSums computes them.
LEMMA SumsExist ==
    ASSUME NEW N \in Nat, NEW f \in [1 .. N -> Nat]
    PROVE  \E g : AreSums(g, f, N)
<1> DEFINE T == {n \in Nat : n <= N => \E g : AreSums(g, f, n)}
<1>1. 0 \in T
  <2> DEFINE g == [k \in 0 .. 0 |-> 0]
  <2>1. AreSums(g, f, 0)
    BY DEF AreSums
  <2> QED
    BY <2>1
<1>2. ASSUME NEW n \in Nat, n \in T PROVE n + 1 \in T
  <2> SUFFICES ASSUME n + 1 <= N PROVE \E g : AreSums(g, f, n + 1)
    OBVIOUS
  <2>1. PICK g : AreSums(g, f, n)
    BY <1>2
  <2> DEFINE h == [k \in 0 .. n + 1 |-> IF k = n + 1 THEN g[n] + f[n + 1] ELSE g[k]]
  <2>2. f[n + 1] \in Nat /\ g \in [0 .. n -> Nat] /\ g[0] = 0 /\ \A k \in 1 .. n : g[k] = g[k - 1] + f[k]
    BY <2>1 DEF AreSums
  <2>3. h \in [0 .. n + 1 -> Nat] /\ h[0] = 0
    BY <2>2
  <2>4. ASSUME NEW k \in 1 .. n + 1 PROVE h[k] = h[k - 1] + f[k]
    <3>1. CASE k = n + 1
      BY <2>2, <3>1
    <3>2. CASE k # n + 1
      <4>1. k \in 1 .. n /\ k - 1 \in 0 .. n /\ k - 1 # n + 1
        BY <2>4, <3>2
      <4> QED
        BY <2>2, <3>2, <4>1
    <3> QED
      BY <3>1, <3>2
  <2> HIDE DEF h
  <2> QED
    BY <2>3, <2>4 DEF AreSums
<1>3. Nat \subseteq T
  <2> HIDE DEF T
  <2> QED
    BY <1>1, <1>2, Numbers!NumberInduction
<1> QED
  BY <1>3

\* GrantSums adds up the requests granted in the last ticks.
LEMMA SumsAreSums ==
    ASSUME NEW f \in [1 .. Window -> Nat]
    PROVE  AreSums(GrantSums(f), f, Window)
<1> DEFINE Unfold(g) == [j \in 0 .. Window |-> IF j = 0 THEN 0 ELSE g[j - 1] + f[j]]
<1>1. Window \in Nat
  BY RateAssumption
<1>2. PICK g : AreSums(g, f, Window)
  BY <1>1, SumsExist
<1>3. g = Unfold(g)
  BY <1>1, <1>2 DEF AreSums
<1>4. GrantSums(f) = Unfold(GrantSums(f))
  <2>1. GrantSums(f) = CHOOSE sum : sum = Unfold(sum)
    BY DEF GrantSums
  <2> HIDE DEF Unfold
  <2> QED
    BY <1>3, <2>1
<1>5. PICK s : s = GrantSums(f)
  OBVIOUS
<1>6. s = Unfold(s)
  BY <1>4, <1>5
<1> DEFINE T == {n \in Nat : n <= Window => s[n] = g[n]}
<1>7. 0 \in T
  BY <1>1, <1>2, <1>6 DEF AreSums
<1>8. ASSUME NEW n \in Nat, n \in T PROVE n + 1 \in T
  <2> SUFFICES ASSUME n + 1 <= Window PROVE s[n + 1] = g[n + 1]
    OBVIOUS
  <2>1. n + 1 \in 1 .. Window /\ (n + 1) - 1 = n /\ n + 1 # 0 /\ s[n] = g[n]
    BY <1>1, <1>8
  <2>2. s[n + 1] = s[n] + f[n + 1]
    <3>1. s = [j \in 0 .. Window |-> IF j = 0 THEN 0 ELSE s[j - 1] + f[j]]
      BY <1>6
    <3>2. n + 1 \in 0 .. Window
      BY <2>1
    <3> QED
      BY <2>1, <3>1, <3>2
  <2>3. g[n + 1] = g[n] + f[n + 1]
    BY <1>2, <2>1 DEF AreSums
  <2> QED
    BY <2>1, <2>2, <2>3
<1>9. Nat \subseteq T
  <2> HIDE DEF T
  <2> QED
    BY <1>7, <1>8, Numbers!NumberInduction
<1>10. \A n \in 0 .. Window : s[n] = g[n]
  BY <1>9
<1>11. s = g
  BY <1>2, <1>6, <1>10 DEF AreSums
<1> QED
  BY <1>2, <1>5, <1>11

Older(f2, f, N) == \A i \in 1 .. N : f2[i] = IF i = 1 THEN 0 ELSE f[i - 1]

\* A tick makes every grant one tick older, and a grant counts in every sum.
LEMMA SumsShift ==
    ASSUME NEW N \in Nat, NEW f, NEW f2, NEW g, NEW g2, AreSums(g, f, N), AreSums(g2, f2, N),
           Older(f2, f, N)
    PROVE  \A j \in 1 .. N : g2[j] = g[j - 1]
<1> DEFINE T == {n \in Nat : n + 1 <= N => g2[n + 1] = g[n]}
<1>1. 0 \in T
  <2> SUFFICES ASSUME 1 <= N PROVE g2[1] = g[0]
    OBVIOUS
  <2>1. 1 \in 1 .. N /\ 1 - 1 = 0
    OBVIOUS
  <2>2. g2[1] = g2[0] + f2[1] /\ g2[0] = 0 /\ g[0] = 0 /\ f2[1] = 0
    BY <2>1 DEF AreSums, Older
  <2> QED
    BY <2>2
<1>2. ASSUME NEW n \in Nat, n \in T PROVE n + 1 \in T
  <2> SUFFICES ASSUME n + 2 <= N PROVE g2[n + 2] = g[n + 1]
    OBVIOUS
  <2>1. /\ n + 2 \in 1 .. N /\ n + 1 \in 1 .. N /\ (n + 2) - 1 = n + 1 /\ (n + 1) - 1 = n
        /\ n + 2 # 1 /\ g2[n + 1] = g[n]
    BY <1>2
  <2>2. g2[n + 2] = g2[n + 1] + f2[n + 2] /\ g[n + 1] = g[n] + f[n + 1]
    BY <2>1 DEF AreSums
  <2>3. f2[n + 2] = f[n + 1]
    BY <2>1 DEF Older
  <2> QED
    BY <2>1, <2>2, <2>3
<1>3. Nat \subseteq T
  <2> HIDE DEF T
  <2> QED
    BY <1>1, <1>2, Numbers!NumberInduction
<1> SUFFICES ASSUME NEW j \in 1 .. N PROVE g2[j] = g[j - 1]
  OBVIOUS
<1>4. j - 1 \in Nat /\ (j - 1) + 1 = j /\ j <= N
  OBVIOUS
<1> QED
  BY <1>3, <1>4

\* One more request granted now adds one to every sum.
LEMMA SumsBump ==
    ASSUME NEW N \in Nat, NEW f, NEW f2, NEW g, NEW g2, AreSums(g, f, N), AreSums(g2, f2, N),
           \A i \in 1 .. N : f2[i] = IF i = 1 THEN f[1] + 1 ELSE f[i], f \in [1 .. N -> Nat]
    PROVE  \A j \in 1 .. N : g2[j] = g[j] + 1
<1> DEFINE T == {n \in Nat : n + 1 <= N => g2[n + 1] = g[n + 1] + 1}
<1>1. 0 \in T
  <2> SUFFICES ASSUME 1 <= N PROVE g2[1] = g[1] + 1
    OBVIOUS
  <2>1. 1 \in 1 .. N /\ 1 - 1 = 0
    OBVIOUS
  <2>2. g2[1] = g2[0] + f2[1] /\ g[1] = g[0] + f[1] /\ g2[0] = 0 /\ g[0] = 0 /\ f2[1] = f[1] + 1 /\ f[1] \in Nat
    BY <2>1 DEF AreSums
  <2> QED
    BY <2>2
<1>2. ASSUME NEW n \in Nat, n \in T PROVE n + 1 \in T
  <2> SUFFICES ASSUME n + 2 <= N PROVE g2[n + 2] = g[n + 2] + 1
    OBVIOUS
  <2>1. /\ n + 2 \in 1 .. N /\ n + 1 \in 0 .. N /\ (n + 2) - 1 = n + 1
        /\ n + 2 # 1 /\ g2[n + 1] = g[n + 1] + 1
    BY <1>2
  <2>2. g2[n + 2] = g2[n + 1] + f2[n + 2] /\ g[n + 2] = g[n + 1] + f[n + 2] /\ g[n + 1] \in Nat
    BY <2>1 DEF AreSums
  <2>3. f2[n + 2] = f[n + 2] /\ f[n + 2] \in Nat
    BY <2>1
  <2> QED
    BY <2>1, <2>2, <2>3
<1>3. Nat \subseteq T
  <2> HIDE DEF T
  <2> QED
    BY <1>1, <1>2, Numbers!NumberInduction
<1> SUFFICES ASSUME NEW j \in 1 .. N PROVE g2[j] = g[j] + 1
  OBVIOUS
<1>4. j - 1 \in Nat /\ (j - 1) + 1 = j /\ j <= N
  OBVIOUS
<1> QED
  BY <1>3, <1>4
----------------------------------------------------------------------------
\* What an address could spend now.
Held(b) == IF b = NoBucket THEN Full ELSE Refilled(b)

\* In each window of j ticks, a client's grants and what its bucket holds are
\* worth at least j refills and at most a bucket and j - 1 refills.
Fits(g, u) ==
    \A j \in 1 .. Window :
        /\ j * MaxRequests <= g[j] * Window + u
        /\ g[j] * Window + u <= Full + (j - 1) * MaxRequests

RefusedWithQuota ==
    ~answer.allowed => answer.client \in Client /\ Recent(answer.client) >= MaxRequests

RateInv ==
    MaxRequests > 0 =>
        /\ \A c \in Client : Fits(GrantSums(granted[c]), Held(buckets[c]))
        /\ RefusedWithQuota

\* The numbers of the limiter.
LEMMA RateNumbers ==
    /\ Window \in Nat \ {0} /\ MaxRequests \in Nat
    /\ Full \in Nat /\ Full = MaxRequests * Window /\ StaleThreshold = 2 * Window /\ StaleThreshold \in Nat
<1>1. Window \in Nat \ {0} /\ MaxRequests \in Nat
  BY RateAssumption
<1>2. MaxRequests * Window \in Nat
  BY <1>1
<1> QED
  BY <1>1, <1>2 DEF Full, StaleThreshold

\* A product grows with its first factor.
LEMMA Monotone ==
    ASSUME NEW a \in Nat, NEW b \in Nat, NEW m \in Nat, a <= b
    PROVE  a * m <= b * m /\ a * m \in Nat /\ b * m \in Nat
<1>1. PICK d \in Nat : b = a + d
  <2>1. b - a \in Nat /\ b = a + (b - a)
    OBVIOUS
  <2> QED
    BY <2>1
<1>2. d * m \in Nat /\ a * m \in Nat
  OBVIOUS
<1>3. b * m = a * m + d * m
  BY <1>1
<1> QED
  BY <1>2, <1>3

\* j refills fit in the bucket.
LEMMA RefillsFit ==
    ASSUME NEW j \in 1 .. Window
    PROVE  /\ MaxRequests <= j * MaxRequests /\ j * MaxRequests <= Full
           /\ (j - 1) * MaxRequests \in Nat /\ j * MaxRequests \in Nat
           /\ j * MaxRequests = (j - 1) * MaxRequests + MaxRequests
<1>1. Window \in Nat /\ MaxRequests \in Nat /\ Full = MaxRequests * Window /\ j \in Nat /\ 1 <= j /\ j <= Window
  BY RateNumbers
<1>2. j * MaxRequests <= Window * MaxRequests /\ j * MaxRequests \in Nat
  BY <1>1, Monotone
<1>3. j - 1 \in Nat
  BY <1>1
<1>4. (j - 1) * MaxRequests \in Nat
  BY <1>1, <1>3
<1>5. j * MaxRequests = (j - 1) * MaxRequests + MaxRequests
  BY <1>1
<1>6. Window * MaxRequests = MaxRequests * Window
  BY <1>1
<1> QED
  BY <1>1, <1>2, <1>4, <1>5, <1>6

\* Before any request every sum fits.
LEMMA FitsAtFirst ==
    ASSUME NEW f \in [1 .. Window -> Nat], \A i \in 1 .. Window : f[i] = 0
    PROVE  Fits(GrantSums(f), Full)
<1>1. PICK g : g = GrantSums(f)
  OBVIOUS
<1>2. AreSums(g, f, Window)
  BY <1>1, SumsAreSums
<1>3. \A j \in 0 .. Window : g[j] = 0
  <2> DEFINE T == {n \in Nat : n <= Window => g[n] = 0}
  <2>1. 0 \in T
    BY <1>2 DEF AreSums
  <2>2. ASSUME NEW n \in Nat, n \in T PROVE n + 1 \in T
    <3> SUFFICES ASSUME n + 1 <= Window PROVE g[n + 1] = 0
      OBVIOUS
    <3>1. n + 1 \in 1 .. Window /\ (n + 1) - 1 = n /\ g[n] = 0 /\ Window \in Nat
      BY <2>2, RateNumbers
    <3>2. g[n + 1] = g[n] + f[n + 1]
      BY <1>2, <3>1 DEF AreSums
    <3> QED
      BY <3>1, <3>2
  <2>3. Nat \subseteq T
    <3> HIDE DEF T
    <3> QED
      BY <2>1, <2>2, Numbers!NumberInduction
  <2> QED
    BY <2>3
<1>4. ASSUME NEW j \in 1 .. Window
      PROVE j * MaxRequests <= g[j] * Window + Full /\ g[j] * Window + Full <= Full + (j - 1) * MaxRequests
  <2>1. g[j] = 0 /\ Window \in Nat /\ Full \in Nat
    BY <1>3, RateNumbers
  <2>2. g[j] * Window = 0
    BY <2>1
  <2>3. j * MaxRequests <= Full /\ (j - 1) * MaxRequests \in Nat /\ j * MaxRequests \in Nat
    BY RefillsFit
  <2> QED
    BY <2>1, <2>2, <2>3
<1> QED
  BY <1>1, <1>4 DEF Fits

\* A refill of m, cut off at full, moves the bucket from u to u2: the bounds of
\* the grants y and the bucket together move by m.
LEMMA RefillKeepsBounds ==
    ASSUME NEW x \in Nat, NEW y \in Nat, NEW m \in Nat, NEW full \in Nat, NEW u \in Nat, NEW u2 \in Nat,
           u2 <= u + m, u2 = full \/ u2 = u + m, x + m <= y + u, y + u <= full + x, x + m + m <= full
    PROVE  x + m + m <= y + u2 /\ y + u2 <= full + x + m
OBVIOUS

\* A tick: the grants age, and the bucket gains a refill unless it is full.
LEMMA FitsAfterTick ==
    ASSUME NEW f \in [1 .. Window -> Nat], NEW f2 \in [1 .. Window -> Nat],
           Older(f2, f, Window),
           NEW u \in 0 .. Full, NEW u2, u2 = IF u + MaxRequests < Full THEN u + MaxRequests ELSE Full,
           Fits(GrantSums(f), u)
    PROVE  Fits(GrantSums(f2), u2)
<1>1. PICK g : g = GrantSums(f)
  OBVIOUS
<1>2. PICK g2 : g2 = GrantSums(f2)
  OBVIOUS
<1>3. AreSums(g, f, Window) /\ AreSums(g2, f2, Window)
  BY <1>1, <1>2, SumsAreSums
<1>4. \A j \in 1 .. Window : g2[j] = g[j - 1]
  <2>1. Window \in Nat
    BY RateNumbers
  <2> QED
    BY <1>3, <2>1, SumsShift
<1>5. Window \in Nat \ {0} /\ MaxRequests \in Nat /\ Full \in Nat /\ u \in Nat /\ u <= Full
  BY RateNumbers
<1>6. ASSUME NEW j \in 1 .. Window
      PROVE j * MaxRequests <= g2[j] * Window + u2 /\ g2[j] * Window + u2 <= Full + (j - 1) * MaxRequests
  <2>1. /\ MaxRequests <= j * MaxRequests /\ j * MaxRequests <= Full
        /\ (j - 1) * MaxRequests \in Nat /\ j * MaxRequests \in Nat
        /\ j * MaxRequests = (j - 1) * MaxRequests + MaxRequests
    BY RefillsFit
  <2>2. u2 \in Nat /\ u2 <= Full /\ u2 <= u + MaxRequests /\ (u2 = Full \/ u2 = u + MaxRequests)
    BY <1>5
  <2>3. CASE j = 1
    <3>1. g2[j] = 0
      BY <1>3, <1>4, <2>3 DEF AreSums
    <3>2. g2[j] * Window = 0
      BY <1>5, <3>1
    <3>3. j * MaxRequests = MaxRequests
      BY <1>5, <2>3
    <3> QED
      BY <1>5, <2>1, <2>2, <3>2, <3>3
  <2>4. CASE j # 1
    <3>1. j - 1 \in 1 .. Window /\ (j - 1) - 1 = j - 2
      BY <2>4, <1>5
    <3>2. PICK p : p = g[j - 1] * Window
      OBVIOUS
    <3>3. (j - 1) * MaxRequests <= p + u /\ p + u <= Full + (j - 2) * MaxRequests
      BY <1>1, <3>1, <3>2 DEF Fits
    <3>4. g2[j] = g[j - 1] /\ g[j - 1] \in Nat
      BY <1>3, <1>4, <3>1 DEF AreSums
    <3>5. p \in Nat /\ g2[j] * Window = p
      BY <1>5, <3>2, <3>4
    <3>6. /\ (j - 2) * MaxRequests \in Nat
          /\ (j - 1) * MaxRequests = (j - 2) * MaxRequests + MaxRequests
      BY <3>1, RefillsFit
    <3>7. PICK x \in Nat, y \in Nat : x = (j - 2) * MaxRequests /\ y = g2[j] * Window
      BY <3>5, <3>6
    <3>8. (j - 1) * MaxRequests = x + MaxRequests /\ j * MaxRequests = x + MaxRequests + MaxRequests
      BY <1>5, <2>1, <3>6, <3>7
    <3>9. x + MaxRequests <= y + u /\ y + u <= Full + x
      BY <3>3, <3>5, <3>7, <3>8
    <3>10. x + MaxRequests + MaxRequests <= Full
      BY <2>1, <3>8
    <3>11. x + MaxRequests + MaxRequests <= y + u2
      BY <1>5, <2>2, <3>7, <3>9, <3>10, RefillKeepsBounds
    <3>12. y + u2 <= Full + x + MaxRequests
      BY <1>5, <2>2, <3>7, <3>9, <3>10, RefillKeepsBounds
    <3> QED
      BY <1>5, <3>7, <3>8, <3>11, <3>12
  <2> QED
    BY <2>3, <2>4
<1> QED
  BY <1>2, <1>6 DEF Fits

\* A request that is granted: the client gets one, and the bucket loses a token.
LEMMA FitsAfterGrant ==
    ASSUME NEW f \in [1 .. Window -> Nat], NEW f2 \in [1 .. Window -> Nat],
           \A i \in 1 .. Window : f2[i] = IF i = 1 THEN f[1] + 1 ELSE f[i],
           NEW u \in 0 .. Full, Fits(GrantSums(f), u)
    PROVE  Fits(GrantSums(f2), u - Window)
<1>1. PICK g : g = GrantSums(f)
  OBVIOUS
<1>2. PICK g2 : g2 = GrantSums(f2)
  OBVIOUS
<1>3. AreSums(g, f, Window) /\ AreSums(g2, f2, Window)
  BY <1>1, <1>2, SumsAreSums
<1>4. \A j \in 1 .. Window : g2[j] = g[j] + 1
  <2>1. Window \in Nat
    BY RateNumbers
  <2> QED
    BY <1>3, <2>1, SumsBump
<1>5. Window \in Nat /\ MaxRequests \in Nat /\ Full \in Nat /\ u \in Nat
  BY RateNumbers
<1>6. ASSUME NEW j \in 1 .. Window
      PROVE /\ j * MaxRequests <= g2[j] * Window + (u - Window)
            /\ g2[j] * Window + (u - Window) <= Full + (j - 1) * MaxRequests
  <2>1. g2[j] = g[j] + 1 /\ g[j] \in Nat
    BY <1>3, <1>4 DEF AreSums
  <2>2. PICK p : p = g[j] * Window
    OBVIOUS
  <2>3. p \in Nat /\ g2[j] * Window = p + Window
    <3>1. PICK n \in Nat : n = g[j]
      BY <2>1
    <3>2. n * Window \in Nat /\ (n + 1) * Window = n * Window + Window
      BY <1>5
    <3>3. p = n * Window /\ g2[j] = n + 1
      BY <2>1, <2>2, <3>1
    <3> QED
      BY <3>2, <3>3
  <2>4. j * MaxRequests <= p + u /\ p + u <= Full + (j - 1) * MaxRequests
    BY <1>1, <2>2 DEF Fits
  <2>5. g2[j] * Window + (u - Window) = p + u
    BY <1>5, <2>3
  <2> QED
    BY <2>4, <2>5
<1> QED
  BY <1>2, <1>6 DEF Fits

\* A request that is refused: the window's grants are worth the quota.
LEMMA RefusedGotQuota ==
    ASSUME NEW f \in [1 .. Window -> Nat], NEW u \in Nat, u < Window, Fits(GrantSums(f), u)
    PROVE  GrantSums(f)[Window] >= MaxRequests
<1>1. PICK g : g = GrantSums(f)
  OBVIOUS
<1>2. AreSums(g, f, Window)
  BY <1>1, SumsAreSums
<1>3. Window \in Nat \ {0} /\ MaxRequests \in Nat /\ Window \in 1 .. Window
  BY RateNumbers
<1>4. g[Window] \in Nat
  BY <1>2, <1>3 DEF AreSums
<1>5. Window * MaxRequests <= g[Window] * Window + u
  BY <1>1, <1>3 DEF Fits
<1>6. ASSUME ~(g[Window] >= MaxRequests) PROVE FALSE
  <2>1. g[Window] + 1 \in Nat /\ g[Window] + 1 <= MaxRequests
    BY <1>3, <1>4, <1>6
  <2>2. (g[Window] + 1) * Window <= MaxRequests * Window
    BY <1>3, <2>1, Monotone
  <2>3. PICK p : p = g[Window] * Window
    OBVIOUS
  <2>4. p \in Nat /\ (g[Window] + 1) * Window = p + Window
    BY <1>3, <1>4, <2>3
  <2>5. MaxRequests * Window = Window * MaxRequests /\ MaxRequests * Window \in Nat
    BY <1>3
  <2> QED
    BY <1>3, <1>5, <2>2, <2>3, <2>4, <2>5
<1> QED
  BY <1>1, <1>4, <1>6, <1>3
----------------------------------------------------------------------------
Twice(p, q, h, c) == [peer |-> p, forwarded |-> h \o <<c, q>>, realIp |-> "none"]
OwnHeaders(c) == {<<>>, <<"junk">>} \cup {<<a>> : a \in Client \ {c}}

\* The headers a client writes are short; what proxies add comes last.
LEMMA AddedLast ==
    ASSUME NEW c \in Client, NEW h \in OwnHeaders(c), NEW q
    PROVE  /\ Len(h) \in Nat
           /\ h \o <<c>> = [i \in 1 .. Len(h) + 1 |-> (h \o <<c>>)[i]]
           /\ Len(h \o <<c>>) = Len(h) + 1 /\ (h \o <<c>>)[Len(h) + 1] = c
           /\ h \o <<c, q>> = [i \in 1 .. Len(h) + 2 |-> (h \o <<c, q>>)[i]]
           /\ Len(h \o <<c, q>>) = Len(h) + 2
           /\ (h \o <<c, q>>)[Len(h) + 1] = c /\ (h \o <<c, q>>)[Len(h) + 2] = q
<1> DEFINE D == Client \cup {"junk", c, q}
<1>1. h \in Seq(D) /\ <<c>> \in Seq(D) /\ <<c, q>> \in Seq(D)
  <2>1. <<>> \in Seq(D)
    OBVIOUS
  <2>2. \A d \in D : <<d>> \in Seq(D)
    OBVIOUS
  <2>3. c \in D /\ q \in D /\ "junk" \in D /\ Client \subseteq D
    OBVIOUS
  <2>4. \A d, e \in D : <<d, e>> \in Seq(D)
    OBVIOUS
  <2>5. h = <<>> \/ \E d \in D : h = <<d>>
    BY <2>3 DEF OwnHeaders
  <2> HIDE DEF D
  <2> QED
    BY <2>1, <2>2, <2>3, <2>4, <2>5
<1> HIDE DEF D
<1>2. Len(h) \in Nat
  BY <1>1
<1>3. (h \o <<c>>) \in Seq(D) /\ (h \o <<c, q>>) \in Seq(D)
  BY <1>1
<1>4. Len(h \o <<c>>) = Len(h) + 1 /\ Len(h \o <<c, q>>) = Len(h) + 2
  BY <1>1
<1>5. (h \o <<c>>)[Len(h) + 1] = c /\ (h \o <<c, q>>)[Len(h) + 1] = c /\ (h \o <<c, q>>)[Len(h) + 2] = q
  BY <1>1, <1>2
<1>6. h \o <<c>> = [i \in 1 .. Len(h) + 1 |-> (h \o <<c>>)[i]]
  BY <1>3, <1>4
<1>7. h \o <<c, q>> = [i \in 1 .. Len(h) + 2 |-> (h \o <<c, q>>)[i]]
  BY <1>3, <1>4
<1> QED
  BY <1>2, <1>4, <1>5, <1>6, <1>7

\* The walk ends at the client when a client is the last entry no proxy has.
LEMMA WalkEnds ==
    ASSUME NEW peer \in Proxy, NEW forwarded, NEW realIp, NEW n \in Nat, NEW end \in 1 .. n,
           DOMAIN forwarded = 1 .. n, forwarded # <<>>, forwarded[end] \in Client,
           \A i \in 1 .. n : i > end => forwarded[i] \in Proxy
    PROVE  ExtractClientIp(peer, forwarded, realIp) = forwarded[end]
<1> DEFINE stops == {i \in DOMAIN forwarded : ~IsTrusted(forwarded[i])}
<1>1. end \in stops /\ stops \subseteq Int /\ \A y \in stops : end >= y
  BY RateAssumption DEF IsTrusted
<1>2. Max(stops) = end /\ stops # {}
  <2> HIDE DEF stops
  <2> QED
    BY <1>1, GreatestIs
<1>3. IsTrusted(peer) /\ forwarded[end] \in Address
  BY DEF IsTrusted, Address
<1> QED
  BY <1>2, <1>3 DEF ExtractClientIp

\* However a request of a client comes, it is counted under the client.
LEMMA CountedUnderClient ==
    ASSUME NEW c \in Client, NEW path \in Paths(c)
    PROVE  ExtractClientIp(path.peer, path.forwarded, path.realIp) = c
<1>1. c \notin Proxy /\ c \in Address
  BY RateAssumption DEF Address
<1>2. \/ \E h \in OwnHeaders(c) : path = [peer |-> c, forwarded |-> h, realIp |-> "none"]
      \/ \E p \in Proxy, h \in OwnHeaders(c) : path = [peer |-> p, forwarded |-> h \o <<c>>, realIp |-> "none"]
      \/ \E p \in Proxy, q \in Proxy, h \in OwnHeaders(c) :
            path = Twice(p, q, h, c)
      \/ \E p \in Proxy : path = [peer |-> p, forwarded |-> <<>>, realIp |-> c]
  <2> DEFINE A == { [peer |-> c, forwarded |-> h, realIp |-> "none"] : h \in OwnHeaders(c) }
             B == { [peer |-> p, forwarded |-> h \o <<c>>, realIp |-> "none"] : p \in Proxy, h \in OwnHeaders(c) }
             C == { Twice(p, q, h, c) : p \in Proxy, q \in Proxy, h \in OwnHeaders(c) }
             E == { [peer |-> p, forwarded |-> <<>>, realIp |-> c] : p \in Proxy }
  <2>1. Paths(c) = ((A \cup B) \cup C) \cup E
    BY DEF Paths, OwnHeaders, Twice
  <2>2. path \in A \/ path \in B \/ path \in C \/ path \in E
    <3> HIDE DEF A, B, C, E
    <3> QED
      BY <2>1
  <2>3. path \in A => \E h \in OwnHeaders(c) : path = [peer |-> c, forwarded |-> h, realIp |-> "none"]
    OBVIOUS
  <2>4. path \in B =>
            \E p \in Proxy, h \in OwnHeaders(c) : path = [peer |-> p, forwarded |-> h \o <<c>>, realIp |-> "none"]
    OBVIOUS
  <2>5. path \in C =>
            \E p \in Proxy, q \in Proxy, h \in OwnHeaders(c) :
                path = Twice(p, q, h, c)
    OBVIOUS
  <2>6. path \in E => \E p \in Proxy : path = [peer |-> p, forwarded |-> <<>>, realIp |-> c]
    OBVIOUS
  <2> HIDE DEF A, B, C, E
  <2> QED
    BY <2>2, <2>3, <2>4, <2>5, <2>6
<1>3. CASE \E h \in OwnHeaders(c) : path = [peer |-> c, forwarded |-> h, realIp |-> "none"]
  <2>1. path.peer = c
    BY <1>3
  <2>2. ~IsTrusted(path.peer)
    BY <1>1, <2>1 DEF IsTrusted
  <2> QED
    BY <2>1, <2>2 DEF ExtractClientIp
<1>4. CASE \E p \in Proxy, h \in OwnHeaders(c) : path = [peer |-> p, forwarded |-> h \o <<c>>, realIp |-> "none"]
  <2>1. PICK p \in Proxy, h \in OwnHeaders(c) : path = [peer |-> p, forwarded |-> h \o <<c>>, realIp |-> "none"]
    BY <1>4
  <2>2. PICK s : s = h \o <<c>>
    OBVIOUS
  <2>3. PICK n \in Nat : n = Len(h) + 1
    BY AddedLast
  <2>4. DOMAIN s = 1 .. n /\ s[n] = c /\ n \in 1 .. n
    BY <2>2, <2>3, AddedLast
  <2>5. path.peer = p /\ path.forwarded = s
    BY <2>1, <2>2
  <2>6. s # <<>>
    BY <2>4
  <2>7. PICK r : r = path.realIp
    OBVIOUS
  <2>8. ExtractClientIp(p, s, r) = s[n]
    BY <2>4, <2>6, WalkEnds
  <2> QED
    BY <2>4, <2>5, <2>7, <2>8
<1>5. CASE \E p \in Proxy, q \in Proxy, h \in OwnHeaders(c) :
            path = Twice(p, q, h, c)
  <2>1. PICK p \in Proxy, q \in Proxy, h \in OwnHeaders(c) :
            path = Twice(p, q, h, c)
    BY <1>5
  <2>2. PICK s : s = h \o <<c, q>>
    OBVIOUS
  <2>3. PICK n \in Nat : n = Len(h) + 2
    BY AddedLast
  <2>4. DOMAIN s = 1 .. n /\ s[n - 1] = c /\ s[n] = q /\ n - 1 \in 1 .. n
    BY <2>2, <2>3, AddedLast
  <2>5. path.peer = p /\ path.forwarded = s
    BY <2>1, <2>2 DEF Twice
  <2>6. s # <<>> /\ \A i \in 1 .. n : i > n - 1 => s[i] \in Proxy
    BY <2>4
  <2>7. PICK r : r = path.realIp
    OBVIOUS
  <2>8. PICK e \in 1 .. n : e = n - 1
    BY <2>4
  <2>9. ExtractClientIp(p, s, r) = s[e]
    BY <2>4, <2>6, <2>8, WalkEnds
  <2> QED
    BY <2>4, <2>5, <2>7, <2>8, <2>9
<1>6. CASE \E p \in Proxy : path = [peer |-> p, forwarded |-> <<>>, realIp |-> c]
  <2>1. path.peer \in Proxy /\ path.forwarded = <<>> /\ path.realIp = c
    BY <1>6
  <2>2. IsTrusted(path.peer)
    BY <2>1 DEF IsTrusted
  <2> QED
    BY <1>1, <2>1, <2>2 DEF ExtractClientIp
<1> QED
  BY <1>2, <1>3, <1>4, <1>5, <1>6
----------------------------------------------------------------------------
Bucket == [units : 0 .. Full, idle : 0 .. StaleThreshold]

Aged(b) ==
    IF b = NoBucket THEN NoBucket ELSE [b EXCEPT !.idle = IF @ < StaleThreshold THEN @ + 1 ELSE @]

Kept(b) == IF b # NoBucket /\ b.idle >= StaleThreshold THEN NoBucket ELSE b

\* What a bucket is made of.
LEMMA BucketIsOne ==
    ASSUME NEW b \in Bucket
    PROVE  /\ b # NoBucket /\ b.units \in Nat /\ b.units <= Full /\ b.idle \in Nat /\ b.idle <= StaleThreshold
           /\ b = [units |-> b.units, idle |-> b.idle]
           /\ b.idle * MaxRequests \in Nat
<1>1. /\ b.units \in Nat /\ b.units <= Full /\ b.idle \in Nat /\ b.idle <= StaleThreshold
      /\ b = [units |-> b.units, idle |-> b.idle]
  BY RateNumbers DEF Bucket
<1>2. b \in [units : Nat, idle : Nat]
  BY <1>1
<1>3. PICK i \in Nat : i = b.idle
  BY <1>1
<1>4. i * MaxRequests \in Nat
  BY RateNumbers
<1> QED
  BY <1>1, <1>2, <1>3, <1>4, RateAssumption

\* A bucket that is idle for two windows is full, and one is enough.
LEMMA IdleIsFull ==
    ASSUME NEW b \in Bucket, b.idle >= StaleThreshold
    PROVE  Refilled(b) = Full
<1>1. b.idle = 2 * Window /\ b.units \in Nat
  BY BucketIsOne, RateNumbers
<1>2. Full \in Nat /\ Full = MaxRequests * Window /\ MaxRequests \in Nat /\ Window \in Nat
  BY RateNumbers
<1>3. b.idle * MaxRequests = 2 * Full
  BY <1>1, <1>2
<1> QED
  BY <1>1, <1>2, <1>3 DEF Refilled

\* A refilled bucket holds no more than a full one.
LEMMA RefilledInBucket ==
    ASSUME NEW b \in Bucket
    PROVE  Refilled(b) \in 0 .. Full
<1>1. PICK r : r = b.idle * MaxRequests
  OBVIOUS
<1>2. b.units \in Nat /\ r \in Nat /\ Full \in Nat
  BY <1>1, BucketIsOne, RateNumbers
<1> QED
  BY <1>1, <1>2 DEF Refilled

\* So does a bucket that may be missing.
LEMMA HeldInBucket ==
    ASSUME NEW b \in Bucket \cup {NoBucket}
    PROVE  Held(b) \in 0 .. Full
BY RefilledInBucket, RateNumbers DEF Held

\* A tick adds MaxRequests units to a bucket, up to a full one.
LEMMA HeldAfterTick ==
    ASSUME NEW b \in Bucket \cup {NoBucket}
    PROVE  /\ Aged(b) \in Bucket \cup {NoBucket}
           /\ Held(Aged(b)) = IF Held(b) + MaxRequests < Full THEN Held(b) + MaxRequests ELSE Full
<1>1. MaxRequests \in Nat /\ Full \in Nat /\ StaleThreshold \in Nat
  BY RateNumbers
<1>2. CASE b = NoBucket
  BY <1>1, <1>2 DEF Aged, Held
<1>3. CASE b # NoBucket /\ b.idle < StaleThreshold
  <2>1. b \in Bucket /\ b.units \in Nat /\ b.units <= Full /\ b.idle \in Nat
    BY <1>3, BucketIsOne
  <2>2. Aged(b) = [b EXCEPT !.idle = b.idle + 1]
    BY <1>3 DEF Aged
  <2>3. PICK d : d = Aged(b)
    OBVIOUS
  <2>4. d \in Bucket /\ d.units = b.units /\ d.idle = b.idle + 1
    BY <1>1, <1>3, <2>1, <2>2, <2>3 DEF Bucket
  <2>5. PICK i \in Nat : i = b.idle
    BY <2>1
  <2>6. (i + 1) * MaxRequests = i * MaxRequests + MaxRequests /\ i * MaxRequests \in Nat
    BY <1>1
  <2>7. PICK r \in Nat : r = b.idle * MaxRequests
    BY <2>5, <2>6
  <2>8. d.idle * MaxRequests = r + MaxRequests
    BY <2>4, <2>5, <2>6, <2>7
  <2>9. Refilled(b) = IF b.units + r < Full THEN b.units + r ELSE Full
    BY <2>7 DEF Refilled
  <2>10. Refilled(d) = IF b.units + (r + MaxRequests) < Full THEN b.units + (r + MaxRequests) ELSE Full
    BY <2>4, <2>8 DEF Refilled
  <2>11. d # NoBucket
    BY <2>4, BucketIsOne
  <2>12. Held(d) = Refilled(d) /\ Held(b) = Refilled(b)
    BY <1>3, <2>11 DEF Held
  <2>13. Held(d) = IF Held(b) + MaxRequests < Full THEN Held(b) + MaxRequests ELSE Full
    BY <1>1, <2>1, <2>9, <2>10, <2>12
  <2> QED
    BY <2>3, <2>4, <2>13
<1>4. CASE b # NoBucket /\ ~(b.idle < StaleThreshold)
  <2>1. b \in Bucket /\ b = [units |-> b.units, idle |-> b.idle] /\ b.idle \in Nat
    BY <1>4, BucketIsOne
  <2>2. [b EXCEPT !.idle = b.idle] = b
    BY <2>1
  <2>3. Aged(b) = b
    BY <1>4, <2>2 DEF Aged
  <2>4. Refilled(b) = Full
    BY <1>1, <1>4, <2>1, IdleIsFull
  <2>5. Held(b) = Full
    BY <1>4, <2>4 DEF Held
  <2> QED
    BY <1>1, <2>3, <2>5
<1> QED
  BY <1>2, <1>3, <1>4

\* Evicting a stale bucket changes nothing, for it would be full.
LEMMA HeldAfterEvict ==
    ASSUME NEW b \in Bucket \cup {NoBucket}
    PROVE  Kept(b) \in Bucket \cup {NoBucket} /\ Held(Kept(b)) = Held(b)
<1>1. CASE b # NoBucket /\ b.idle >= StaleThreshold
  <2>1. Refilled(b) = Full
    BY <1>1, IdleIsFull
  <2> QED
    BY <1>1, <2>1 DEF Kept, Held
<1>2. CASE ~(b # NoBucket /\ b.idle >= StaleThreshold)
  BY <1>2 DEF Kept
<1> QED
  BY <1>1, <1>2

\* What is spent from.
Spent(b) == IF b = NoBucket THEN [units |-> Full, idle |-> 0] ELSE b

\* A request is granted when the bucket holds a token, and takes it.
LEMMA HeldAfterCheck ==
    ASSUME NEW b \in Bucket \cup {NoBucket}, NEW r, r = TryConsume(Spent(b))
    PROVE  /\ r.allowed \in BOOLEAN /\ (r.allowed <=> Held(b) >= Window)
           /\ r.bucket \in Bucket
           /\ Held(r.bucket) = IF r.allowed THEN Held(b) - Window ELSE Held(b)
<1>1. MaxRequests \in Nat /\ Full \in Nat /\ StaleThreshold \in Nat /\ Window \in Nat /\ 0 * MaxRequests = 0
  BY RateNumbers
<1>2. PICK s : s = Spent(b)
  OBVIOUS
<1>3. s \in Bucket
  BY <1>1, <1>2 DEF Spent, Bucket
<1>4. Refilled(s) = Held(b)
  <2>1. CASE b = NoBucket
    <3>1. s.units = Full /\ s.idle = 0
      BY <1>2, <2>1 DEF Spent
    <3>2. s.idle * MaxRequests = 0
      BY <1>1, <3>1
    <3>3. Refilled(s) = Full
      BY <1>1, <3>1, <3>2 DEF Refilled
    <3> QED
      BY <2>1, <3>3 DEF Held
  <2>2. CASE b # NoBucket
    BY <1>2, <2>2 DEF Spent, Held
  <2> QED
    BY <2>1, <2>2
<1>5. PICK u : u = Held(b)
  OBVIOUS
<1>6. u \in 0 .. Full
  BY <1>5, HeldInBucket
<1>7. /\ r.allowed = (u >= Window)
      /\ r.bucket = [units |-> IF u >= Window THEN u - Window ELSE u, idle |-> 0]
  BY <1>2, <1>4, <1>5 DEF TryConsume
<1>8. PICK d : d = r.bucket
  OBVIOUS
<1>9. PICK v : v = IF u >= Window THEN u - Window ELSE u
  OBVIOUS
<1>10. v \in 0 .. Full
  BY <1>1, <1>6, <1>9
<1>11. d = [units |-> v, idle |-> 0]
  BY <1>7, <1>8, <1>9
<1>12. d \in Bucket /\ d.units = v /\ d.idle = 0
  BY <1>1, <1>10, <1>11 DEF Bucket
<1>13. d.idle * MaxRequests = 0
  BY <1>1, <1>12
<1>14. Refilled(d) = v
  BY <1>1, <1>10, <1>12, <1>13 DEF Refilled
<1>15. Held(d) = v
  BY <1>12, <1>14, BucketIsOne DEF Held
<1>16. r.allowed \in BOOLEAN /\ (r.allowed <=> u >= Window)
  <2>1. CASE u >= Window
    <3>1. (u >= Window) = TRUE
      BY <1>1, <1>6, <2>1
    <3>2. r.allowed = TRUE
      BY <1>7, <3>1
    <3> QED
      BY <2>1, <3>2
  <2>2. CASE ~(u >= Window)
    <3>1. (u >= Window) = FALSE
      BY <1>1, <1>6, <2>2
    <3>2. r.allowed = FALSE
      BY <1>7, <3>1
    <3> QED
      BY <2>2, <3>2
  <2> QED
    BY <2>1, <2>2
<1>17. Held(d) = IF r.allowed THEN u - Window ELSE u
  BY <1>9, <1>15, <1>16
<1> HIDE DEF Spent
<1> QED
  BY <1>5, <1>8, <1>12, <1>16, <1>17
----------------------------------------------------------------------------
RateFull == RateTypeOK /\ RateInv

\* The limiter's invariant holds at first.
LEMMA RateStarts ==
    ASSUME RateInit
    PROVE  RateFull
<1>1. Window \in Nat /\ Full \in Nat
  BY RateNumbers
<1>2. RateTypeOK
  BY <1>1 DEF RateInit, RateTypeOK, NoAnswer
<1>3. ASSUME NEW c \in Client PROVE Fits(GrantSums(granted[c]), Held(buckets[c]))
  <2>1. granted[c] \in [1 .. Window -> Nat] /\ \A i \in 1 .. Window : granted[c][i] = 0
    BY <1>3 DEF RateInit
  <2>2. Held(buckets[c]) = Full
    BY <1>3 DEF RateInit, Held, Address
  <2> QED
    BY <2>1, <2>2, FitsAtFirst
<1>4. RefusedWithQuota
  BY DEF RateInit, NoAnswer, RefusedWithQuota
<1> QED
  BY <1>2, <1>3, <1>4 DEF RateFull, RateInv

\* A tick keeps it.
LEMMA RateTicks ==
    ASSUME RateFull, Tick
    PROVE  RateFull'
<1>1. Window \in Nat \ {0} /\ MaxRequests \in Nat
  BY RateNumbers
<1>2. ASSUME NEW a \in Address
      PROVE /\ buckets[a] \in Bucket \cup {NoBucket} /\ buckets'[a] = Aged(buckets[a])
            /\ buckets'[a] \in Bucket \cup {NoBucket}
  <2>1. buckets[a] \in Bucket \cup {NoBucket}
    BY <1>2 DEF RateFull, RateTypeOK, Bucket
  <2>2. buckets'[a] = Aged(buckets[a])
    BY <1>2 DEF Tick, Aged
  <2> QED
    BY <2>1, <2>2, HeldAfterTick
<1>3. ASSUME NEW c \in Client
      PROVE /\ granted[c] \in [1 .. Window -> Nat] /\ granted'[c] \in [1 .. Window -> Nat]
            /\ Older(granted'[c], granted[c], Window)
  <2>1. granted[c] \in [1 .. Window -> Nat]
    BY <1>3 DEF RateFull, RateTypeOK
  <2>2. granted'[c] = [i \in 1 .. Window |-> IF i = 1 THEN 0 ELSE granted[c][i - 1]]
    BY <1>3 DEF Tick
  <2> QED
    BY <1>1, <2>1, <2>2 DEF Older
<1>4. RateTypeOK'
  <2>1. buckets' \in [Address -> Bucket \cup {NoBucket}]
    BY <1>2 DEF Tick
  <2>2. granted' \in [Client -> [1 .. Window -> Nat]]
    BY <1>3 DEF Tick
  <2>3. answer' \in [client : Client \cup {NoBucket}, allowed : BOOLEAN]
    BY DEF Tick, NoAnswer
  <2> QED
    BY <2>1, <2>2, <2>3 DEF RateTypeOK, Bucket
<1>5. ASSUME MaxRequests > 0, NEW c \in Client PROVE Fits(GrantSums(granted'[c]), Held(buckets'[c]))
  <2>1. PICK u \in 0 .. Full : u = Held(buckets[c])
    BY <1>2, HeldInBucket DEF Address
  <2>2. PICK f \in [1 .. Window -> Nat] : f = granted[c]
    BY <1>3
  <2>3. PICK f2 \in [1 .. Window -> Nat] : f2 = granted'[c]
    BY <1>3
  <2>4. Fits(GrantSums(f), u)
    BY <1>5, <2>1, <2>2 DEF RateFull, RateInv
  <2>5. PICK u2 : u2 = Held(buckets'[c])
    OBVIOUS
  <2>6. u2 = IF u + MaxRequests < Full THEN u + MaxRequests ELSE Full
    BY <1>2, <2>1, <2>5, HeldAfterTick DEF Address
  <2>7. Older(f2, f, Window)
    BY <1>3, <2>2, <2>3
  <2>8. Fits(GrantSums(f2), u2)
    BY <2>4, <2>6, <2>7, FitsAfterTick
  <2> QED
    BY <2>3, <2>5, <2>8
<1>6. RefusedWithQuota'
  BY DEF Tick, NoAnswer, RefusedWithQuota
<1> QED
  BY <1>4, <1>5, <1>6 DEF RateFull, RateInv

\* An eviction keeps it.
LEMMA RateEvicts ==
    ASSUME RateFull, Evict
    PROVE  RateFull'
<1>1. ASSUME NEW a \in Address
      PROVE buckets'[a] \in Bucket \cup {NoBucket} /\ Held(buckets'[a]) = Held(buckets[a])
  <2>1. buckets[a] \in Bucket \cup {NoBucket}
    BY <1>1 DEF RateFull, RateTypeOK, Bucket
  <2>2. buckets'[a] = Kept(buckets[a])
    BY <1>1 DEF Evict, Kept
  <2> QED
    BY <2>1, <2>2, HeldAfterEvict
<1>2. granted' = granted /\ answer' = answer
  BY DEF Evict
<1>3. RateTypeOK'
  <2>1. buckets' \in [Address -> Bucket \cup {NoBucket}]
    BY <1>1 DEF Evict
  <2> QED
    BY <1>2, <2>1 DEF RateFull, RateTypeOK, Bucket
<1>4. ASSUME MaxRequests > 0, NEW c \in Client PROVE Fits(GrantSums(granted'[c]), Held(buckets'[c]))
  <2>1. Fits(GrantSums(granted[c]), Held(buckets[c]))
    BY <1>4 DEF RateFull, RateInv
  <2>2. Held(buckets'[c]) = Held(buckets[c])
    BY <1>1 DEF Address
  <2> QED
    BY <1>2, <2>1, <2>2
<1>5. ASSUME MaxRequests > 0 PROVE RefusedWithQuota'
  <2>1. RefusedWithQuota
    BY <1>5 DEF RateFull, RateInv
  <2> QED
    BY <1>2, <2>1 DEF RefusedWithQuota, Recent
<1> QED
  BY <1>3, <1>4, <1>5 DEF RateFull, RateInv
\* The request of a client, counted under the client.
Answered(c, r) ==
    /\ buckets' = [buckets EXCEPT ![c] = r.bucket]
    /\ granted' = IF r.allowed THEN [granted EXCEPT ![c][1] = @ + 1] ELSE granted
    /\ answer' = [client |-> c, allowed |-> r.allowed]

\* A request is answered by the check of its client's bucket.
LEMMA RequestIsAnswered ==
    ASSUME NEW c \in Client, Request(c)
    PROVE  Answered(c, Check(c))
<1>1. PICK path \in Paths(c) :
        LET key == ExtractClientIp(path.peer, path.forwarded, path.realIp)
            answers == Check(key)
        IN  /\ buckets' = [buckets EXCEPT ![key] = answers.bucket]
            /\ granted' = IF answers.allowed THEN [granted EXCEPT ![c][1] = @ + 1] ELSE granted
            /\ answer' = [client |-> c, allowed |-> answers.allowed]
  BY DEF Request
<1>2. ExtractClientIp(path.peer, path.forwarded, path.realIp) = c
  BY CountedUnderClient
<1> QED
  BY <1>1, <1>2 DEF Answered

\* A request keeps it.
LEMMA RateAnswers ==
    ASSUME RateFull, NEW c \in Client, Request(c)
    PROVE  RateFull'
<1>1. Window \in Nat \ {0} /\ MaxRequests \in Nat /\ 1 \in 1 .. Window /\ Window \in 1 .. Window
  BY RateNumbers
<1>2. PICK r : r = Check(c)
  OBVIOUS
<1>3. Answered(c, r)
  BY <1>2, RequestIsAnswered
<1>4. c \in Address /\ buckets[c] \in Bucket \cup {NoBucket} /\ granted[c] \in [1 .. Window -> Nat]
  BY DEF RateFull, RateTypeOK, Bucket, Address
<1>5. r.allowed \in BOOLEAN /\ r.bucket \in Bucket \cup {NoBucket}
  <2>1. CASE MaxRequests = 0
    BY <1>2, <2>1 DEF Check
  <2>2. CASE MaxRequests # 0
    <3>1. r = TryConsume(Spent(buckets[c]))
      BY <1>2, <2>2 DEF Check, Spent
    <3> QED
      BY <1>4, <3>1, HeldAfterCheck
  <2> QED
    BY <2>1, <2>2
<1>6. /\ \A a \in Address : buckets'[a] = IF a = c THEN r.bucket ELSE buckets[a]
      /\ \A d \in Client : d # c => granted'[d] = granted[d]
      /\ ~r.allowed => granted' = granted
      /\ r.allowed => granted'[c] = [granted[c] EXCEPT ![1] = granted[c][1] + 1]
      /\ answer'.client = c /\ answer'.allowed = r.allowed
  <2>1. buckets \in [Address -> Bucket \cup {NoBucket}] /\ granted \in [Client -> [1 .. Window -> Nat]]
    BY DEF RateFull, RateTypeOK, Bucket
  <2> QED
    BY <1>3, <1>4, <2>1 DEF Answered
<1>7. r.allowed => /\ granted'[c] \in [1 .. Window -> Nat]
                   /\ \A i \in 1 .. Window : granted'[c][i] = IF i = 1 THEN granted[c][1] + 1 ELSE granted[c][i]
  <2>1. PICK w \in [1 .. Window -> Nat] : w = granted[c]
    BY <1>4
  <2>2. PICK z : z = [w EXCEPT ![1] = w[1] + 1]
    OBVIOUS
  <2>3. z \in [1 .. Window -> Nat] /\ \A i \in 1 .. Window : z[i] = IF i = 1 THEN w[1] + 1 ELSE w[i]
    BY <1>1, <2>2
  <2>4. r.allowed => granted'[c] = z
    BY <1>6, <2>1, <2>2
  <2> QED
    BY <2>1, <2>3, <2>4
<1>8. RateTypeOK'
  <2>1. buckets' \in [Address -> Bucket \cup {NoBucket}]
    BY <1>3, <1>4, <1>5 DEF Answered, RateFull, RateTypeOK, Bucket
  <2>2. granted' \in [Client -> [1 .. Window -> Nat]]
    <3>1. granted \in [Client -> [1 .. Window -> Nat]]
      BY DEF RateFull, RateTypeOK
    <3>2. CASE r.allowed
      <4>1. granted' = [granted EXCEPT ![c] = [granted[c] EXCEPT ![1] = granted[c][1] + 1]]
        BY <1>3, <3>2 DEF Answered
      <4>2. [granted[c] EXCEPT ![1] = granted[c][1] + 1] \in [1 .. Window -> Nat]
        BY <1>6, <1>7, <3>2
      <4> QED
        BY <3>1, <4>1, <4>2
    <3> QED
      BY <1>6, <3>1, <3>2
  <2>3. answer' \in [client : Client \cup {NoBucket}, allowed : BOOLEAN]
    BY <1>3, <1>5 DEF Answered
  <2> QED
    BY <2>1, <2>2, <2>3 DEF RateTypeOK, Bucket
<1>9. ASSUME MaxRequests > 0
      PROVE (\A d \in Client : Fits(GrantSums(granted'[d]), Held(buckets'[d]))) /\ RefusedWithQuota'
  <2>1. r = TryConsume(Spent(buckets[c]))
    BY <1>1, <1>2, <1>9 DEF Check, Spent
  <2>2. PICK u \in 0 .. Full : u = Held(buckets[c])
    BY <1>4, HeldInBucket
  <2>3. (r.allowed <=> u >= Window) /\ Held(r.bucket) = IF r.allowed THEN u - Window ELSE u
    BY <1>4, <2>1, <2>2, HeldAfterCheck
  <2>4. PICK f \in [1 .. Window -> Nat] : f = granted[c]
    BY <1>4
  <2>5. Fits(GrantSums(f), u)
    BY <1>9, <2>2, <2>4 DEF RateFull, RateInv
  <2>6. Held(buckets'[c]) = Held(r.bucket)
    BY <1>4, <1>6
  <2>7. Fits(GrantSums(granted'[c]), Held(buckets'[c])) /\ RefusedWithQuota'
    <3>1. CASE r.allowed
      <4>1. PICK f2 \in [1 .. Window -> Nat] : f2 = granted'[c]
        BY <1>7, <3>1
      <4>2. \A i \in 1 .. Window : f2[i] = IF i = 1 THEN f[1] + 1 ELSE f[i]
        BY <1>7, <2>4, <3>1, <4>1
      <4>3. Fits(GrantSums(f2), u - Window)
        BY <2>5, <4>2, FitsAfterGrant
      <4>4. Held(buckets'[c]) = u - Window
        BY <2>3, <2>6, <3>1
      <4>5. RefusedWithQuota'
        BY <1>6, <3>1 DEF RefusedWithQuota
      <4> QED
        BY <4>1, <4>3, <4>4, <4>5
    <3>2. CASE ~r.allowed
      <4>1. granted' = granted
        BY <1>6, <3>2
      <4>2. Held(buckets'[c]) = u
        BY <2>3, <2>6, <3>2
      <4>3. Fits(GrantSums(granted'[c]), Held(buckets'[c]))
        BY <2>4, <2>5, <4>1, <4>2
      <4>4. u \in Nat /\ u < Window
        BY <1>1, <2>3, <3>2, RateNumbers
      <4>5. GrantSums(f)[Window] >= MaxRequests
        BY <2>5, <4>4, RefusedGotQuota
      <4>6. RefusedWithQuota'
        BY <1>6, <2>4, <4>1, <4>5 DEF RefusedWithQuota, Recent
      <4> QED
        BY <4>3, <4>6
    <3> QED
      BY <3>1, <3>2
  <2>8. ASSUME NEW d \in Client, d # c PROVE Fits(GrantSums(granted'[d]), Held(buckets'[d]))
    <3>1. Fits(GrantSums(granted[d]), Held(buckets[d]))
      BY <1>9 DEF RateFull, RateInv
    <3>2. granted'[d] = granted[d] /\ buckets'[d] = buckets[d]
      BY <1>6, <2>8 DEF Address
    <3> QED
      BY <3>1, <3>2
  <2> QED
    BY <2>7, <2>8
<1> QED
  BY <1>8, <1>9 DEF RateFull, RateInv

\* Every step of the limiter keeps it.
LEMMA RateKept ==
    ASSUME RateFull, [RateNext]_rateVars
    PROVE  RateFull'
<1>1. CASE UNCHANGED rateVars
  <2>1. buckets' = buckets /\ granted' = granted /\ answer' = answer
    BY <1>1 DEF rateVars
  <2>2. RateTypeOK'
    BY <2>1 DEF RateFull, RateTypeOK
  <2>3. RateInv'
    BY <2>1 DEF RateFull, RateInv, RefusedWithQuota, Recent
  <2> QED
    BY <2>2, <2>3 DEF RateFull
<1>2. CASE \E c \in Client : Request(c)
  BY <1>2, RateAnswers
<1> QED
  BY <1>1, <1>2, RateTicks, RateEvicts DEF RateNext

\* Within a window the grants are worth less than two quotas.
LEMMA RateFollows ==
    ASSUME RateFull
    PROVE  RateIsBounded
<1> SUFFICES ASSUME MaxRequests > 0
             PROVE  /\ \A c \in Client : Recent(c) * Window <= MaxRequests * (2 * Window - 1)
                    /\ ~answer.allowed => Recent(answer.client) >= MaxRequests
  BY DEF RateIsBounded
<1>1. ASSUME NEW c \in Client PROVE Recent(c) * Window <= MaxRequests * (2 * Window - 1)
  <2>1. PICK u \in 0 .. Full : u = Held(buckets[c])
    BY HeldInBucket DEF RateFull, RateTypeOK, Bucket, Address
  <2>2. Fits(GrantSums(granted[c]), u)
    BY <2>1 DEF RateFull, RateInv
  <2>3. /\ Window \in Nat \ {0} /\ Window \in 1 .. Window /\ MaxRequests \in Nat /\ Full = MaxRequests * Window
        /\ Full \in Nat
    BY RateNumbers
  <2>4. Recent(c) * Window + u <= Full + (Window - 1) * MaxRequests
    BY <2>2, <2>3 DEF Fits, Recent
  <2>5. Recent(c) \in Nat
    <3>1. PICK f \in [1 .. Window -> Nat] : f = granted[c]
      BY DEF RateFull, RateTypeOK
    <3>2. AreSums(GrantSums(f), f, Window)
      BY SumsAreSums
    <3> QED
      BY <2>3, <3>1, <3>2 DEF AreSums, Recent
  <2>6. PICK n \in Nat : n = Recent(c)
    BY <2>5
  <2>7. n * Window \in Nat
    BY <2>3
  <2>8. PICK p \in Nat : p = Recent(c) * Window
    BY <2>6, <2>7
  <2>9. Full + (Window - 1) * MaxRequests = MaxRequests * (2 * Window - 1)
    BY <2>3
  <2>10. (Window - 1) * MaxRequests \in Nat
    BY <2>3
  <2>11. p + u <= Full + (Window - 1) * MaxRequests
    BY <2>4, <2>8
  <2>12. p <= Full + (Window - 1) * MaxRequests
    BY <2>1, <2>3, <2>10, <2>11
  <2> QED
    BY <2>8, <2>9, <2>12
<1> QED
  BY <1>1 DEF RateFull, RateInv, RefusedWithQuota

\* No client gets more than its bucket and one refill within a window, and it
\* is refused only when it got a whole quota within it (RateIsBounded), with
\* any clients, proxies, quota and window.
THEOREM RateIsHeld == RateSpec => []RateIsBounded
<1>1. RateInit => RateFull
  BY RateStarts
<1>2. RateFull /\ [RateNext]_rateVars => RateFull'
  BY RateKept
<1>3. RateFull => RateIsBounded
  BY RateFollows
<1> QED
  BY <1>1, <1>2, <1>3, PTL DEF RateSpec

----------------------------------------------------------------------------
(* The editor's types.                                                       *)

NodeEvents == [type : {"node"}, run : Nat, node : CanvasNode, now : Colour]
EditorEvents == [type : {"flow_started", "flow_ended"}, run : Nat] \cup NodeEvents
Colouring == [CanvasNode -> Colour]
RunRecords == [own : BOOLEAN, going : BOOLEAN, nodes : Colouring]
ClickPlaces == {"none", "update", "updated", "start", "ran", "deployed", "stop", "stopped", "load", "loaded", "done"}
ClickRecords == [kind : {"none", "save", "deploy", "stop", "load"}, at : ClickPlaces, shown : 0 .. MaxEdits, saved : BOOLEAN]
EditorRecords ==
    [status : Colouring, nodeMap : {{}, CanvasNode}, pending : Seq(NodeEvents), resetTimer : BOOLEAN,
     running : BOOLEAN, dirty : BOOLEAN, deployed : BOOLEAN, canvas : 0 .. MaxEdits, edits : 0 .. MaxEdits]
BackendRecords == [canvas : 0 .. MaxEdits, live : BOOLEAN, runs : Seq(RunRecords)]

\* EditorTypeOK, and of what the editor's colours come from.
EditorTypes ==
    /\ editor \in EditorRecords /\ backend \in BackendRecords /\ Len(backend.runs) <= MaxRuns
    /\ inbox \in Seq(EditorEvents) /\ clicks \in [Click -> ClickRecords]
    /\ excuse \subseteq {"colours", "running"} /\ strayed \in BOOLEAN

\* An event of a node gives colours again.
LEMMA ColoursAfterEvent ==
    ASSUME NEW status \in Colouring, NEW event, event.now \in Colour, NEW nodeMap
    PROVE  ApplyNodeEvent(status, event, nodeMap) \in Colouring
  BY DEF ApplyNodeEvent, Colouring

\* Whatever events waited, they leave every node a colour.
LEMMA ReplayColours ==
    ASSUME NEW status \in Colouring, NEW events \in Seq(NodeEvents), NEW nodeMap
    PROVE  Replayed(status, events, nodeMap) \in Colouring
<1> DEFINE N == Len(events)
           Unfold(g) == [s \in SUBSET (1 .. N) |-> IF s = {} THEN status ELSE ApplyNodeEvent(g[s \ {Max(s)}], events[Max(s)], nodeMap)]
           G == [p \in Colouring \X (1 .. N) |-> ApplyNodeEvent(p[1], events[p[2]], nodeMap)]
<1>0. N \in Nat /\ DOMAIN events = 1 .. N
  OBVIOUS
<1>1. G \in [Colouring \X (1 .. N) -> Colouring]
  <2> SUFFICES ASSUME NEW a \in Colouring, NEW i \in 1 .. N PROVE ApplyNodeEvent(a, events[i], nodeMap) \in Colouring
    OBVIOUS
  <2>1. PICK e : e = events[i]
    OBVIOUS
  <2>2. e.now \in Colour
    <3>1. e \in NodeEvents
      BY <1>0, <2>1
    <3> QED
      BY <3>1 DEF NodeEvents
  <2> QED
    BY <2>1, <2>2, ColoursAfterEvent
<1>2. PICK t \in [SUBSET (1 .. N) -> Colouring] : FoldsBy(t, N, status, G)
  <2> HIDE DEF G, N
  <2> QED
    BY <1>0, <1>1, FoldTable
<1>3. t = Unfold(t)
  <2> SUFFICES ASSUME NEW s \in SUBSET (1 .. N)
               PROVE  t[s] = IF s = {} THEN status ELSE ApplyNodeEvent(t[s \ {Max(s)}], events[Max(s)], nodeMap)
    OBVIOUS
  <2>1. CASE s = {}
    BY <1>2, <2>1 DEF FoldsBy
  <2>2. CASE s # {}
    <3>1. Max(s) \in 1 .. N
      <4> HIDE DEF N
      <4>1. Max(s) \in s
        BY <1>0, <2>2, GreatestUpTo
      <4> QED
        BY <4>1
    <3>2. PICK m \in 1 .. N, b \in Colouring : m = Max(s) /\ b = t[s \ {Max(s)}]
      BY <3>1
    <3>3. G[<<b, m>>] = ApplyNodeEvent(b, events[m], nodeMap)
      BY <3>2
    <3>4. t[s] = G[<<b, m>>]
      <4> HIDE DEF G
      <4> QED
        BY <1>2, <2>2, <3>2 DEF FoldsBy
    <3> QED
      BY <2>2, <3>2, <3>3, <3>4
  <2> QED
    BY <2>1, <2>2
<1>4. PICK u : u = CHOOSE iter : iter = Unfold(iter)
  OBVIOUS
<1>5. Replayed(status, events, nodeMap) = u[1 .. N]
  BY <1>0, <1>4 DEF Replayed, FoldLeft, MapThenFoldSet
<1>6. u = Unfold(u)
  <2> HIDE DEF Unfold
  <2> QED
    BY <1>3, <1>4
<1> DEFINE T == {k \in Nat : k <= N => u[1 .. k] \in Colouring}
<1>7. 0 \in T
  <2>1. 1 .. 0 = {} /\ {} \in SUBSET (1 .. N)
    OBVIOUS
  <2>2. Unfold(u)[{}] = status
    BY <2>1
  <2>3. u[{}] = status
    BY <1>6, <2>2
  <2> QED
    BY <2>1, <2>3
<1>8. ASSUME NEW k \in Nat, k \in T PROVE k + 1 \in T
  <2> SUFFICES ASSUME k + 1 <= N PROVE u[1 .. k + 1] \in Colouring
    OBVIOUS
  <2>1. u[1 .. k] \in Colouring
    BY <1>0, <1>8
  <2>2. 1 .. k + 1 \in SUBSET (1 .. N) /\ 1 .. k + 1 # {} /\ k + 1 \in 1 .. N /\ k + 1 \in 1 .. k + 1
    <3>1. N \in Nat
      BY <1>0
    <3> HIDE DEF N
    <3>2. 1 .. k + 1 \subseteq 1 .. N /\ k + 1 \in 1 .. N
      BY <3>1
    <3>3. k + 1 \in 1 .. k + 1
      OBVIOUS
    <3> QED
      BY <3>2, <3>3
  <2>3. Max(1 .. k + 1) = k + 1 /\ (1 .. k + 1) \ {k + 1} = 1 .. k
    <3>1. Max(1 .. k + 1) \in 1 .. k + 1 /\ \A y \in 1 .. k + 1 : Max(1 .. k + 1) >= y
      BY <1>0, <2>2, GreatestUpTo
    <3> QED
      BY <2>2, <3>1
  <2>4. u[1 .. k + 1] = ApplyNodeEvent(u[1 .. k], events[k + 1], nodeMap)
    BY <1>6, <2>2, <2>3
  <2>5. PICK e : e = events[k + 1]
    OBVIOUS
  <2>6. e.now \in Colour
    <3>1. e \in NodeEvents
      BY <1>0, <2>2, <2>5
    <3> QED
      BY <3>1 DEF NodeEvents
  <2> QED
    BY <2>1, <2>4, <2>5, <2>6, ColoursAfterEvent
<1>9. \A k \in Nat : k \in T
  <2> HIDE DEF T
  <2> QED
    BY <1>7, <1>8, Numbers!NumberInduction
<1> QED
  BY <1>0, <1>5, <1>9

\* A cleared or a new map, with what waited for it shown.
LEMMA MapTyped ==
    ASSUME NEW ed \in EditorRecords, NEW nodeMap \in {{}, CanvasNode}
    PROVE  SetNodeMap(ed, nodeMap) \in EditorRecords
<1>1. PICK status \in Colouring : status = Replayed(ed.status, ed.pending, nodeMap)
  <2>1. ed.status \in Colouring /\ ed.pending \in Seq(NodeEvents)
    BY DEF EditorRecords
  <2> QED
    BY <2>1, ReplayColours
<1>2. PICK none \in Seq(NodeEvents) : none = <<>>
  <2>1. <<>> \in Seq(NodeEvents)
    OBVIOUS
  <2> QED
    BY <2>1, Zenon
<1>3. SetNodeMap(ed, nodeMap) = [ed EXCEPT !.nodeMap = nodeMap, !.pending = none, !.status = status]
  BY <1>1, <1>2 DEF SetNodeMap, EditorRecords
<1> QED
  BY <1>3 DEF EditorRecords

\* What an event does to the stores.
LEMMA LogTyped ==
    ASSUME NEW ed \in EditorRecords, NEW event \in EditorEvents
    PROVE  AddLog(ed, event) \in EditorRecords
<1>1. AllIdle \in Colouring
  BY DEF AllIdle, Colouring, Colour
<1>2. PICK none \in Seq(NodeEvents), idle \in Colouring : none = <<>> /\ idle = AllIdle
  <2>1. <<>> \in Seq(NodeEvents)
    OBVIOUS
  <2> QED
    BY <1>1, <2>1, Zenon
<1>3. CASE event.type = "flow_started"
  <2>1. AddLog(ed, event) = [ed EXCEPT !.running = TRUE, !.pending = none, !.status = idle]
    BY <1>2, <1>3 DEF AddLog, ResetAllNodeStatus, EditorRecords
  <2> QED
    BY <2>1 DEF EditorRecords
<1>4. CASE event.type = "flow_ended"
  <2>1. AddLog(ed, event) = [ed EXCEPT !.running = FALSE, !.resetTimer = TRUE]
    BY <1>4 DEF AddLog
  <2> QED
    BY <2>1 DEF EditorRecords
<1>5. CASE event.type \notin {"flow_started", "flow_ended"}
  <2>1. event \in NodeEvents /\ event.type = "node" /\ event.now \in Colour
    BY <1>5 DEF EditorEvents, NodeEvents
  <2>2. CASE ed.nodeMap = {}
    <3>1. PICK more \in Seq(NodeEvents) : more = Append(ed.pending, event)
      <4>1. ed.pending \in Seq(NodeEvents)
        BY DEF EditorRecords
      <4> QED
        BY <2>1, <4>1, Zenon, AppendProperties
    <3>2. AddLog(ed, event) = [ed EXCEPT !.pending = more]
      BY <1>5, <2>1, <2>2, <3>1 DEF AddLog
    <3> QED
      BY <3>2 DEF EditorRecords
  <2>3. CASE ed.nodeMap # {}
    <3>1. PICK status \in Colouring : status = ApplyNodeEvent(ed.status, event, ed.nodeMap)
      <4>1. ed.status \in Colouring
        BY DEF EditorRecords
      <4> QED
        BY <2>1, <4>1, ColoursAfterEvent
    <3>2. AddLog(ed, event) = [ed EXCEPT !.status = status]
      BY <1>5, <2>1, <2>3, <3>1 DEF AddLog
    <3> QED
      BY <3>2 DEF EditorRecords
  <2> QED
    BY <2>2, <2>3
<1> QED
  BY <1>3, <1>4, <1>5

\* A click's request goes on, or is done with.
LEMMA MovesTyped ==
    ASSUME EditorTypes, NEW c \in Click
    PROVE  /\ \A at \in ClickPlaces : Moves(c, at) => clicks' \in [Click -> ClickRecords]
           /\ IsDone(c) => clicks' \in [Click -> ClickRecords]
<1> USE EditorAssumption
<1>1. clicks \in [Click -> ClickRecords] /\ clicks[c] \in ClickRecords
  BY DEF EditorTypes
<1>2. ASSUME NEW at \in ClickPlaces, Moves(c, at) PROVE clicks' \in [Click -> ClickRecords]
  <2>1. PICK new \in ClickRecords : new = [clicks[c] EXCEPT !.at = at]
    BY <1>1 DEF ClickRecords
  <2>2. clicks' = [clicks EXCEPT ![c] = new]
    BY <1>1, <1>2, <2>1 DEF Moves
  <2> QED
    BY <1>1, <2>2
<1>3. ASSUME IsDone(c) PROVE clicks' \in [Click -> ClickRecords]
  <2>1. PICK new \in ClickRecords : new = Clicked("done")
    <3>1. 0 \in 0 .. MaxEdits
      OBVIOUS
    <3>2. "done" \in ClickPlaces
      BY DEF ClickPlaces
    <3> QED
      BY <3>1, <3>2 DEF ClickRecords, Clicked
  <2> QED
    BY <1>1, <1>3, <2>1 DEF IsDone
<1> QED
  BY <1>2, <1>3

\* A click that begins is a record of its type.
LEMMA BeginsTyped ==
    ASSUME EditorTypes, NEW c \in Click, NEW kind \in {"save", "deploy", "stop", "load"}, NEW at \in ClickPlaces,
           Begins(c, kind, at)
    PROVE  clicks' \in [Click -> ClickRecords] /\ strayed' \in BOOLEAN
<1>1. PICK shown1 \in 0 .. MaxEdits : shown1 = editor.canvas
  BY DEF EditorTypes, EditorRecords
<1>2. PICK new \in ClickRecords : new = [kind |-> kind, at |-> at, shown |-> shown1, saved |-> TRUE]
  BY DEF ClickRecords
<1>3. clicks' = [clicks EXCEPT ![c] = new]
  BY <1>1, <1>2 DEF Begins
<1>4. strayed' \in BOOLEAN
  BY DEF Begins, EditorTypes
<1> QED
  BY <1>3, <1>4 DEF EditorTypes

\* An event that is sent is one more of its type.
LEMMA SendsTyped ==
    ASSUME EditorTypes, NEW event \in EditorEvents, Sends(event)
    PROVE  inbox' \in Seq(EditorEvents)
<1>1. inbox \in Seq(EditorEvents) /\ inbox' = Append(inbox, event)
  BY DEF EditorTypes, Sends
<1> QED
  BY <1>1, AppendProperties

\* A run is one more record, and its start one more event.
LEMMA RunTypedThen ==
    ASSUME EditorTypes, NEW own \in BOOLEAN, NEW live \in BOOLEAN, BeginsRun(own, live)
    PROVE  /\ backend' \in BackendRecords /\ Len(backend'.runs) <= MaxRuns
           /\ inbox' \in Seq(EditorEvents)
<1> USE EditorAssumption
<1>1. backend \in BackendRecords /\ backend.runs \in Seq(RunRecords) /\ Len(backend.runs) \in Nat
  BY DEF EditorTypes, BackendRecords
<1>2. PICK run \in RunRecords : run = [own |-> own, going |-> TRUE, nodes |-> AllIdle]
  BY DEF RunRecords, AllIdle, Colouring, Colour
<1>3. PICK runs2 \in Seq(RunRecords) : runs2 = Append(backend.runs, run) /\ Len(runs2) = Len(backend.runs) + 1
  <2>1. Append(backend.runs, run) \in Seq(RunRecords) /\ Len(Append(backend.runs, run)) = Len(backend.runs) + 1
    BY <1>1, AppendProperties
  <2> QED
    BY <2>1, Zenon
<1>4. backend' = [backend EXCEPT !.live = live, !.runs = runs2]
  BY <1>1, <1>2, <1>3 DEF BeginsRun, BackendRecords
<1>5. backend' \in BackendRecords /\ backend'.runs = runs2
  BY <1>1, <1>4 DEF BackendRecords
<1>6. Len(runs2) <= MaxRuns
  BY <1>1, <1>3 DEF BeginsRun
<1>7. PICK event \in EditorEvents : event = [type |-> "flow_started", run |-> Len(backend.runs) + 1]
  <2>1. PICK k \in Nat : k = Len(backend.runs) + 1
    BY <1>1
  <2>2. [type |-> "flow_started", run |-> k] \in EditorEvents
    BY DEF EditorEvents
  <2> QED
    BY <2>1, <2>2, Zenon
<1>8. inbox' \in Seq(EditorEvents)
  BY <1>7, SendsTyped DEF BeginsRun
<1> QED
  BY <1>5, <1>6, <1>8

\* A record among the runs is another.
LEMMA RunChangesTyped ==
    ASSUME EditorTypes, NEW r \in DOMAIN backend.runs, NEW run \in RunRecords,
           backend' = [backend EXCEPT !.runs = [backend.runs EXCEPT ![r] = run]]
    PROVE  backend' \in BackendRecords /\ Len(backend'.runs) <= MaxRuns
<1>1. backend \in BackendRecords /\ backend.runs \in Seq(RunRecords) /\ Len(backend.runs) <= MaxRuns
  BY DEF EditorTypes, BackendRecords
<1>2. PICK runs2 \in Seq(RunRecords) : runs2 = [backend.runs EXCEPT ![r] = run] /\ Len(runs2) = Len(backend.runs)
  <2>1. [backend.runs EXCEPT ![r] = run] \in Seq(RunRecords) /\ Len([backend.runs EXCEPT ![r] = run]) = Len(backend.runs)
    BY <1>1, ExceptSeq
  <2> QED
    BY <2>1, Zenon
<1> QED
  BY <1>1, <1>2 DEF BackendRecords

\* At first the editor shows nothing, and nothing is on its way.
LEMMA EditorStartsTyped == EditorInit => EditorTypes
<1> SUFFICES ASSUME EditorInit PROVE EditorTypes
  OBVIOUS
<1> USE EditorAssumption
<1>1. PICK none \in Seq(NodeEvents), idle \in Colouring, runs \in Seq(RunRecords) :
        none = <<>> /\ idle = AllIdle /\ runs = <<>>
  <2>1. <<>> \in Seq(NodeEvents) /\ <<>> \in Seq(RunRecords)
    OBVIOUS
  <2>2. AllIdle \in Colouring
    BY DEF AllIdle, Colouring, Colour
  <2> QED
    BY <2>1, <2>2, Zenon
<1>2. 0 \in 0 .. MaxEdits /\ 0 <= MaxRuns
  OBVIOUS
<1>3. editor \in EditorRecords
  <2>1. editor = [status |-> idle, nodeMap |-> {}, pending |-> none, resetTimer |-> FALSE,
                  running |-> FALSE, dirty |-> FALSE, deployed |-> FALSE, canvas |-> 0, edits |-> 0]
    BY <1>1 DEF EditorInit
  <2> QED
    BY <1>2, <2>1 DEF EditorRecords
<1>4. backend \in BackendRecords /\ Len(backend.runs) <= MaxRuns
  <2>1. backend = [canvas |-> 0, live |-> FALSE, runs |-> runs] /\ Len(runs) = 0
    BY <1>1 DEF EditorInit
  <2> QED
    BY <1>2, <2>1 DEF BackendRecords
<1>5. inbox \in Seq(EditorEvents)
  <2>1. <<>> \in Seq(EditorEvents)
    OBVIOUS
  <2> QED
    BY <2>1 DEF EditorInit
<1>6. clicks \in [Click -> ClickRecords]
  <2>1. "none" \in ClickPlaces
    BY DEF ClickPlaces
  <2> QED
    BY <1>2, <2>1 DEF EditorInit, Clicked, ClickRecords
<1> QED
  BY <1>3, <1>4, <1>5, <1>6 DEF EditorInit, EditorTypes

\* The runs and the socket.
LEMMA EventsTyped ==
    ASSUME EditorTypes,
           \/ RunElsewhere \/ OnMessage \/ OnClose \/ ResetTimerFires \/ EditCanvas
           \/ \E r \in DOMAIN backend.runs : RunIsOver(r) \/ \E n \in CanvasNode : NodeGoesOn(r, n)
    PROVE  EditorTypes'
<1> USE EditorAssumption
<1>0. /\ editor \in EditorRecords /\ backend \in BackendRecords /\ Len(backend.runs) <= MaxRuns
      /\ inbox \in Seq(EditorEvents) /\ clicks \in [Click -> ClickRecords]
      /\ excuse \subseteq {"colours", "running"} /\ strayed \in BOOLEAN
  BY DEF EditorTypes
<1>1. CASE RunElsewhere
  <2>1. PICK own \in BOOLEAN, live \in BOOLEAN : BeginsRun(own, live)
    <3>1. backend.live \in BOOLEAN
      BY <1>0 DEF BackendRecords
    <3> QED
      BY <1>1, <3>1 DEF RunElsewhere
  <2>2. backend' \in BackendRecords /\ Len(backend'.runs) <= MaxRuns /\ inbox' \in Seq(EditorEvents)
    BY <2>1, RunTypedThen
  <2>3. UNCHANGED <<editor, clicks, excuse, strayed>>
    BY <1>1 DEF RunElsewhere
  <2> QED
    BY <1>0, <2>2, <2>3 DEF EditorTypes
<1>2. CASE OnMessage
  <2>1. PICK event \in EditorEvents : event = Head(inbox) /\ Tail(inbox) \in Seq(EditorEvents)
    BY <1>0, <1>2, HeadTailProperties DEF OnMessage
  <2>2. editor' \in EditorRecords
    <3>1. editor' = AddLog(editor, event)
      BY <1>2, <2>1 DEF OnMessage
    <3> QED
      BY <1>0, <3>1, LogTyped
  <2>3. excuse' \subseteq {"colours", "running"}
    BY <1>0, <1>2 DEF OnMessage
  <2>4. inbox' \in Seq(EditorEvents) /\ UNCHANGED <<backend, clicks, strayed>>
    BY <1>2, <2>1 DEF OnMessage
  <2> QED
    BY <1>0, <2>2, <2>3, <2>4 DEF EditorTypes
<1>3. CASE OnClose
  <2>1. inbox' \in Seq(EditorEvents)
    <3>1. <<>> \in Seq(EditorEvents)
      OBVIOUS
    <3> QED
      BY <1>3, <3>1 DEF OnClose
  <2> QED
    BY <1>0, <1>3, <2>1 DEF OnClose, EditorTypes
<1>4. CASE ResetTimerFires
  <2>1. PICK idle \in Colouring : idle = AllIdle
    BY DEF AllIdle, Colouring, Colour
  <2>2. editor' = [editor EXCEPT !.resetTimer = FALSE, !.status = idle]
    BY <1>0, <1>4, <2>1 DEF ResetTimerFires, ResetAllNodeStatus, EditorRecords
  <2>3. editor' \in EditorRecords
    BY <1>0, <2>2 DEF EditorRecords
  <2>4. excuse' \subseteq {"colours", "running"}
    BY <1>0, <1>4 DEF ResetTimerFires
  <2>5. UNCHANGED <<backend, inbox, clicks, strayed>>
    BY <1>4 DEF ResetTimerFires
  <2> QED
    BY <1>0, <2>3, <2>4, <2>5 DEF EditorTypes
<1>5. CASE EditCanvas
  <2>1. PICK e \in 0 .. MaxEdits : e = editor.edits + 1
    <3>1. editor.edits \in 0 .. MaxEdits /\ editor.edits < MaxEdits
      BY <1>0, <1>5 DEF EditorRecords, EditCanvas
    <3> QED
      BY <3>1
  <2>2. editor' = [editor EXCEPT !.edits = e, !.canvas = e, !.dirty = TRUE]
    BY <1>0, <1>5, <2>1 DEF EditCanvas, EditorRecords
  <2>3. editor' \in EditorRecords
    BY <1>0, <2>2 DEF EditorRecords
  <2>4. strayed' \in BOOLEAN /\ UNCHANGED <<backend, inbox, clicks, excuse>>
    BY <1>0, <1>5 DEF EditCanvas
  <2> QED
    BY <1>0, <2>3, <2>4 DEF EditorTypes
<1>6. ASSUME NEW r \in DOMAIN backend.runs, RunIsOver(r) PROVE EditorTypes'
  <2>1. backend.runs \in Seq(RunRecords) /\ backend.runs[r] \in RunRecords /\ r \in Nat
    BY <1>0 DEF BackendRecords
  <2>2. PICK run \in RunRecords : run = [backend.runs[r] EXCEPT !.going = FALSE]
    BY <2>1 DEF RunRecords
  <2>3. backend' = [backend EXCEPT !.runs = [backend.runs EXCEPT ![r] = run]]
    BY <1>0, <1>6, <2>1, <2>2 DEF RunIsOver, BackendRecords
  <2>4. backend' \in BackendRecords /\ Len(backend'.runs) <= MaxRuns
    BY <2>3, RunChangesTyped
  <2>5. PICK event \in EditorEvents : event = [type |-> "flow_ended", run |-> r]
    BY <2>1 DEF EditorEvents
  <2>6. inbox' \in Seq(EditorEvents)
    BY <1>6, <2>5, SendsTyped DEF RunIsOver
  <2>7. UNCHANGED <<editor, clicks, excuse, strayed>>
    BY <1>6 DEF RunIsOver
  <2> QED
    BY <1>0, <2>4, <2>6, <2>7 DEF EditorTypes
<1>7. ASSUME NEW r \in DOMAIN backend.runs, NEW n \in CanvasNode, NodeGoesOn(r, n) PROVE EditorTypes'
  <2>1. backend.runs \in Seq(RunRecords) /\ backend.runs[r] \in RunRecords /\ r \in Nat
    BY <1>0 DEF BackendRecords
  <2>2. PICK now \in Colour : /\ backend' = [backend EXCEPT !.runs[r].nodes[n] = now]
                              /\ Sends([type |-> "node", run |-> r, node |-> n, now |-> now])
    <3>1. PICK now : /\ now \in CASE backend.runs[r].nodes[n] = "idle" -> {"running", "over"}
                                  [] backend.runs[r].nodes[n] = "running" -> {"over"}
                                  [] OTHER -> {}
                     /\ backend' = [backend EXCEPT !.runs[r].nodes[n] = now]
                     /\ Sends([type |-> "node", run |-> r, node |-> n, now |-> now])
      BY <1>7, Zenon DEF NodeGoesOn
    <3>2. now \in Colour
      <4>1. CASE backend.runs[r].nodes[n] = "idle"
        BY <3>1, <4>1 DEF Colour
      <4>2. CASE backend.runs[r].nodes[n] = "running"
        BY <3>1, <4>2 DEF Colour
      <4>3. CASE backend.runs[r].nodes[n] # "idle" /\ backend.runs[r].nodes[n] # "running"
        BY <3>1, <4>3
      <4> QED
        BY <4>1, <4>2, <4>3
    <3> QED
      BY <3>1, <3>2
  <2>3. PICK colours \in Colouring : colours = [backend.runs[r].nodes EXCEPT ![n] = now]
    BY <2>1 DEF RunRecords, Colouring
  <2>4. PICK run \in RunRecords : run = [backend.runs[r] EXCEPT !.nodes = colours]
    BY <2>1 DEF RunRecords
  <2>5. backend' = [backend EXCEPT !.runs = [backend.runs EXCEPT ![r] = run]]
    <3>1. backend' = [backend EXCEPT !.runs = [backend.runs EXCEPT ![r] = [backend.runs[r] EXCEPT !.nodes =
                         [backend.runs[r].nodes EXCEPT ![n] = now]]]]
      BY <1>0, <2>1, <2>2 DEF BackendRecords, RunRecords, Colouring
    <3> QED
      BY <2>3, <2>4, <3>1
  <2>6. backend' \in BackendRecords /\ Len(backend'.runs) <= MaxRuns
    BY <2>5, RunChangesTyped
  <2>7. PICK event \in EditorEvents : event = [type |-> "node", run |-> r, node |-> n, now |-> now]
    BY <2>1 DEF EditorEvents, NodeEvents
  <2>8. inbox' \in Seq(EditorEvents)
    BY <2>2, <2>7, SendsTyped
  <2>9. UNCHANGED <<editor, clicks, excuse, strayed>>
    BY <1>7 DEF NodeGoesOn
  <2> QED
    BY <1>0, <2>6, <2>8, <2>9 DEF EditorTypes
<1> QED
  BY <1>1, <1>2, <1>3, <1>4, <1>5, <1>6, <1>7

\* The click, and the request as it is at the server.
LEMMA RequestsTyped ==
    ASSUME EditorTypes, NEW c \in Click,
           \/ SaveFlow(c) \/ DeployFlow(c) \/ StopFlow(c) \/ OpenPage(c)
           \/ UpdateArrives(c) \/ StartArrives(c) \/ StopArrives(c) \/ LoadArrives(c)
    PROVE  EditorTypes'
<1>0. /\ editor \in EditorRecords /\ backend \in BackendRecords /\ Len(backend.runs) <= MaxRuns
      /\ inbox \in Seq(EditorEvents) /\ clicks \in [Click -> ClickRecords] /\ clicks[c] \in ClickRecords
      /\ excuse \subseteq {"colours", "running"} /\ strayed \in BOOLEAN
  BY DEF EditorTypes
<1>1. \A at \in ClickPlaces : Moves(c, at) => clicks' \in [Click -> ClickRecords]
  BY MovesTyped
<1>2. IsDone(c) => clicks' \in [Click -> ClickRecords]
  BY MovesTyped
<1>3. {"update", "updated", "start", "ran", "deployed", "stop", "stopped", "load"} \subseteq ClickPlaces
  BY DEF ClickPlaces
<1>4. \A kind \in {"save", "deploy", "stop", "load"}, at \in ClickPlaces :
        Begins(c, kind, at) => clicks' \in [Click -> ClickRecords] /\ strayed' \in BOOLEAN
  BY BeginsTyped
<1>5. /\ \A canvas \in 0 .. MaxEdits : /\ [backend EXCEPT !.canvas = canvas] \in BackendRecords
                                       /\ [backend EXCEPT !.canvas = canvas].runs = backend.runs
      /\ \A live \in BOOLEAN : /\ [backend EXCEPT !.live = live] \in BackendRecords
                               /\ [backend EXCEPT !.live = live].runs = backend.runs
  BY <1>0 DEF BackendRecords
<1>6. CASE SaveFlow(c) \/ StopFlow(c) \/ OpenPage(c)
  <2>1. UNCHANGED <<editor, backend, inbox, excuse>>
    BY <1>6 DEF SaveFlow, StopFlow, OpenPage
  <2>2. \E kind \in {"save", "deploy", "stop", "load"}, at \in ClickPlaces : Begins(c, kind, at)
    BY <1>3, <1>6 DEF SaveFlow, StopFlow, OpenPage
  <2> QED
    BY <1>0, <1>4, <2>1, <2>2 DEF EditorTypes
<1>7. CASE DeployFlow(c)
  <2>1. UNCHANGED <<backend, inbox>> /\ \E at \in ClickPlaces : Begins(c, "deploy", at)
    BY <1>3, <1>7 DEF DeployFlow
  <2>2. editor' \in EditorRecords /\ excuse' \subseteq {"colours", "running"}
    <3>1. CASE UNCHANGED <<editor, excuse>>
      BY <1>0, <3>1
    <3>2. CASE ClearsMap(editor)
      BY <1>0, <3>2, MapTyped DEF ClearsMap
    <3> QED
      BY <1>7, <3>1, <3>2 DEF DeployFlow
  <2> QED
    BY <1>0, <1>4, <2>1, <2>2 DEF EditorTypes
<1>8. CASE UpdateArrives(c)
  <2>1. clicks[c].shown \in 0 .. MaxEdits
    BY <1>0 DEF ClickRecords
  <2>2. backend' \in BackendRecords /\ backend'.runs = backend.runs
    BY <1>5, <1>8, <2>1 DEF UpdateArrives
  <2>3. clicks' \in [Click -> ClickRecords]
    BY <1>1, <1>3, <1>8 DEF UpdateArrives
  <2>4. UNCHANGED <<editor, inbox, excuse, strayed>>
    BY <1>8 DEF UpdateArrives
  <2> QED
    BY <1>0, <2>2, <2>3, <2>4 DEF EditorTypes
<1>9. CASE StopArrives(c)
  <2>1. backend' \in BackendRecords /\ backend'.runs = backend.runs
    BY <1>5, <1>9 DEF StopArrives
  <2>2. clicks' \in [Click -> ClickRecords]
    BY <1>1, <1>3, <1>9 DEF StopArrives
  <2>3. UNCHANGED <<editor, inbox, excuse, strayed>>
    BY <1>9 DEF StopArrives
  <2> QED
    BY <1>0, <2>1, <2>2, <2>3 DEF EditorTypes
<1>10. CASE StartArrives(c)
  <2>1. UNCHANGED <<editor, excuse>>
    BY <1>10 DEF StartArrives
  <2>2. CASE backend' = [backend EXCEPT !.live = TRUE] /\ Moves(c, "deployed") /\ UNCHANGED <<inbox, strayed>>
    <3>1. backend' \in BackendRecords /\ backend'.runs = backend.runs
      BY <1>5, <2>2
    <3>2. clicks' \in [Click -> ClickRecords]
      BY <1>1, <1>3, <2>2
    <3> QED
      BY <1>0, <2>1, <2>2, <3>1, <3>2 DEF EditorTypes
  <2>3. CASE BeginsRun(TRUE, FALSE) /\ Moves(c, "ran") /\ UNCHANGED strayed
    <3>1. backend' \in BackendRecords /\ Len(backend'.runs) <= MaxRuns /\ inbox' \in Seq(EditorEvents)
      BY <2>3, RunTypedThen
    <3>2. clicks' \in [Click -> ClickRecords]
      BY <1>1, <1>3, <2>3
    <3> QED
      BY <1>0, <2>1, <2>3, <3>1, <3>2 DEF EditorTypes
  <2>4. CASE /\ backend' = [backend EXCEPT !.live = FALSE] /\ IsDone(c)
             /\ strayed' = (strayed \/ backend.live) /\ UNCHANGED inbox
    <3>1. backend' \in BackendRecords /\ backend'.runs = backend.runs
      BY <1>5, <2>4
    <3>2. clicks' \in [Click -> ClickRecords]
      BY <1>2, <2>4
    <3>3. strayed' \in BOOLEAN
      BY <2>4
    <3> QED
      BY <1>0, <2>1, <2>4, <3>1, <3>2, <3>3 DEF EditorTypes
  <2> QED
    BY <1>10, <2>2, <2>3, <2>4 DEF StartArrives
<1>11. CASE LoadArrives(c)
  <2>1. PICK canvas \in 0 .. MaxEdits, live \in BOOLEAN : canvas = backend.canvas /\ live = backend.live
    BY <1>0 DEF BackendRecords
  <2>2. PICK new \in ClickRecords : new = [clicks[c] EXCEPT !.at = "loaded", !.shown = canvas, !.saved = live]
    <3>1. "loaded" \in ClickPlaces
      BY DEF ClickPlaces
    <3> QED
      BY <1>0, <3>1 DEF ClickRecords
  <2>3. clicks' = [clicks EXCEPT ![c] = new]
    BY <1>0, <1>11, <2>1, <2>2 DEF LoadArrives, ClickRecords
  <2>4. UNCHANGED <<editor, backend, inbox, excuse, strayed>>
    BY <1>11 DEF LoadArrives
  <2> QED
    BY <1>0, <2>3, <2>4 DEF EditorTypes
<1> QED
  BY <1>6, <1>7, <1>8, <1>9, <1>10, <1>11

\* The replies.
LEMMA RepliesTyped ==
    ASSUME EditorTypes, NEW c \in Click,
           \/ UpdateReturns(c) \/ UpdateFails(c) \/ StartReturns(c) \/ StopReturns(c)
           \/ LoadReturns(c) \/ RequestFails(c)
    PROVE  EditorTypes'
<1>0. /\ editor \in EditorRecords /\ backend \in BackendRecords /\ Len(backend.runs) <= MaxRuns
      /\ inbox \in Seq(EditorEvents) /\ clicks \in [Click -> ClickRecords] /\ clicks[c] \in ClickRecords
      /\ excuse \subseteq {"colours", "running"} /\ strayed \in BOOLEAN
  BY DEF EditorTypes
<1>1. Moves(c, "start") => clicks' \in [Click -> ClickRecords]
  BY MovesTyped DEF ClickPlaces
<1>2. IsDone(c) => clicks' \in [Click -> ClickRecords]
  BY MovesTyped
<1>3. \A d \in BOOLEAN : [editor EXCEPT !.dirty = d] \in EditorRecords /\ [editor EXCEPT !.deployed = d] \in EditorRecords
  BY <1>0 DEF EditorRecords
<1>4. ASSUME NEW ed \in EditorRecords, ClearsMap(ed)
      PROVE  editor' \in EditorRecords /\ excuse' \subseteq {"colours", "running"}
  BY <1>0, <1>4, MapTyped DEF ClearsMap
<1>5. CASE UpdateReturns(c)
  <2>1. PICK saved \in EditorRecords : saved = [editor EXCEPT !.dirty = FALSE]
    BY <1>3
  <2>2. UNCHANGED <<backend, inbox, strayed>>
    BY <1>5 DEF UpdateReturns
  <2>3. \/ editor' = saved /\ IsDone(c) /\ UNCHANGED excuse
        \/ ClearsMap(saved) /\ Moves(c, "start")
    BY <1>5, <2>1 DEF UpdateReturns
  <2>4. clicks' \in [Click -> ClickRecords]
    BY <1>1, <1>2, <2>3
  <2>5. editor' \in EditorRecords /\ excuse' \subseteq {"colours", "running"}
    BY <1>0, <1>4, <2>3
  <2> QED
    BY <1>0, <2>2, <2>4, <2>5 DEF EditorTypes
<1>6. CASE UpdateFails(c)
  <2>1. PICK unsaved \in EditorRecords : unsaved = [editor EXCEPT !.dirty = TRUE]
    BY <1>3
  <2>2. UNCHANGED <<backend, inbox, strayed>>
    BY <1>6 DEF UpdateFails
  <2>3. PICK new \in ClickRecords : new = [clicks[c] EXCEPT !.at = "start", !.saved = FALSE]
    <3>1. "start" \in ClickPlaces
      BY DEF ClickPlaces
    <3> QED
      BY <1>0, <3>1 DEF ClickRecords
  <2>4. \/ editor' = unsaved /\ IsDone(c) /\ UNCHANGED excuse
        \/ ClearsMap(unsaved) /\ clicks' = [clicks EXCEPT ![c] = new]
    <3>1. [clicks EXCEPT ![c].at = "start", ![c].saved = FALSE] = [clicks EXCEPT ![c] = new]
      BY <1>0, <2>3 DEF ClickRecords
    <3> QED
      BY <1>6, <2>1, <3>1 DEF UpdateFails
  <2>5. clicks' \in [Click -> ClickRecords]
    BY <1>0, <1>2, <2>4
  <2>6. editor' \in EditorRecords /\ excuse' \subseteq {"colours", "running"}
    BY <1>0, <1>4, <2>4
  <2> QED
    BY <1>0, <2>2, <2>5, <2>6 DEF EditorTypes
<1>7. CASE StartReturns(c)
  <2>1. PICK ed \in EditorRecords : ed = [editor EXCEPT !.deployed = clicks[c].at = "deployed"]
    BY <1>3
  <2>2. editor' = SetNodeMap(ed, CanvasNode) /\ IsDone(c) /\ UNCHANGED <<backend, inbox, excuse, strayed>>
    BY <1>7, <2>1 DEF StartReturns
  <2>3. editor' \in EditorRecords
    BY <2>2, MapTyped
  <2> QED
    BY <1>0, <1>2, <2>2, <2>3 DEF EditorTypes
<1>8. CASE StopReturns(c)
  <2>1. editor' \in EditorRecords
    BY <1>3, <1>8 DEF StopReturns
  <2>2. IsDone(c) /\ UNCHANGED <<backend, inbox, excuse, strayed>>
    BY <1>8 DEF StopReturns
  <2> QED
    BY <1>0, <1>2, <2>1, <2>2 DEF EditorTypes
<1>9. CASE LoadReturns(c)
  <2>1. PICK stored \in Colouring : editor' = [editor EXCEPT !.canvas = clicks[c].shown, !.status = stored,
                                                             !.deployed = clicks[c].saved, !.dirty = FALSE]
    BY <1>9 DEF LoadReturns, Colouring
  <2>2. clicks[c].shown \in 0 .. MaxEdits /\ clicks[c].saved \in BOOLEAN
    BY <1>0 DEF ClickRecords
  <2>3. editor' \in EditorRecords
    BY <1>0, <2>1, <2>2 DEF EditorRecords
  <2>4. IsDone(c) /\ excuse' = excuse \cup {"colours"} /\ UNCHANGED <<backend, inbox, strayed>>
    BY <1>9 DEF LoadReturns
  <2> QED
    BY <1>0, <1>2, <2>3, <2>4 DEF EditorTypes
<1>10. CASE RequestFails(c)
  <2>1. IsDone(c) /\ strayed' \in BOOLEAN /\ UNCHANGED <<editor, backend, inbox, excuse>>
    BY <1>0, <1>10 DEF RequestFails
  <2> QED
    BY <1>0, <1>2, <2>1 DEF EditorTypes
<1> QED
  BY <1>5, <1>6, <1>7, <1>8, <1>9, <1>10

\* Every step keeps the types, and they are those that are checked.
LEMMA EditorStepTyped == EditorTypes /\ [EditorNext]_editorVars => EditorTypes'
<1> SUFFICES ASSUME EditorTypes, [EditorNext]_editorVars PROVE EditorTypes'
  OBVIOUS
<1>1. CASE UNCHANGED editorVars
  BY <1>1 DEF editorVars, EditorTypes
<1> QED
  BY <1>1, EventsTyped, RequestsTyped, RepliesTyped DEF EditorNext

\* EditorTypes holds the types that are checked.
LEMMA EditorTyped == EditorTypes => EditorTypeOK
<1> SUFFICES ASSUME EditorTypes PROVE EditorTypeOK
  OBVIOUS
<1>1. /\ editor.status \in Colouring /\ editor.nodeMap \in {{}, CanvasNode}
      /\ editor.canvas \in 0 .. MaxEdits /\ backend.canvas \in 0 .. MaxEdits
  BY DEF EditorTypes, EditorRecords, BackendRecords
<1>2. \A c \in Click : clicks[c].at \in ClickPlaces
  BY DEF EditorTypes, ClickRecords
<1> QED
  BY <1>1, <1>2 DEF EditorTypes, EditorTypeOK, Colouring, ClickPlaces

----------------------------------------------------------------------------
(* All the parts, side by side.                                              *)

\* The invariant of the part that goes on.
NodesInv ==
    /\ part \in Parts
    /\ part = "services" => ServiceInv
    /\ part = "run" => RunInv
    /\ part = "memory" => MemoryInv
    /\ part = "mqtt" => MqttInv
    /\ part = "egress" => EgressInv
    /\ part = "rate" => RateFull
    /\ part = "plugins" => PluginInv
    /\ part = "files" => FilesInv
    /\ part = "tables" => LanceInv
    /\ part = "socket" => SocketInv
    /\ part = "editor" => EditorTypes

\* The part that a behaviour is one of starts as it does alone.
LEMMA NodesStart == NodesInit => NodesInv
<1> SUFFICES ASSUME NodesInit PROVE NodesInv
  OBVIOUS
<1>1. part = "services" => ServiceInv
  BY ServiceStarts DEF NodesInit
<1>2. part = "run" => RunInv
  BY RunStarts DEF NodesInit
<1>3. MemoryInv
  BY InitiallyRemembers DEF NodesInit
<1>4. MqttInv
  BY MqttInitReady DEF NodesInit
<1>5. EgressInv
  BY EgressInitReady DEF NodesInit
<1>6. RateFull
  BY RateStarts DEF NodesInit
<1>7. PluginInv
  BY PluginInitReady DEF NodesInit
<1>8. FilesInv
  BY FilesInitReady DEF NodesInit
<1>9. LanceInv
  BY LanceInitReady DEF NodesInit
<1>10. SocketInv
  BY SocketInitReady DEF NodesInit
<1>11. EditorTypes
  BY EditorStartsTyped DEF NodesInit
<1>12. part \in Parts
  BY DEF NodesInit
<1> QED
  BY <1>1, <1>2, <1>3, <1>4, <1>5, <1>6, <1>7, <1>8, <1>9, <1>10, <1>11, <1>12 DEF NodesInv

\* The part goes on, and the others rest.
LEMMA NodesStep == NodesInv /\ [NodesNext]_nodesVars => NodesInv'
<1> SUFFICES ASSUME NodesInv, [NodesNext]_nodesVars PROVE NodesInv'
  OBVIOUS
<1>0. part' = part /\ part \in Parts
  BY DEF NodesNext, OthersRest, nodesVars, NodesInv
<1>1. ASSUME part = "services" PROVE ServiceInv'
  <2>1. ServiceInv /\ [ServiceNext]_serviceVars
    BY <1>1 DEF NodesInv, NodesNext, nodesVars
  <2> QED
    BY <2>1, ServiceStepKeeps
<1>2. ASSUME part = "run" PROVE RunInv'
  <2>1. RunInv /\ [NodeRunNext]_runVars
    BY <1>2 DEF NodesInv, NodesNext, nodesVars
  <2> QED
    BY <2>1, RunSteps
<1>3. ASSUME part = "memory" PROVE MemoryInv'
  <2>1. MemoryInv /\ [MemoryNext]_memoryVars
    BY <1>3 DEF NodesInv, NodesNext, nodesVars
  <2> QED
    BY <2>1, MemoryStepKeeps
<1>4. ASSUME part = "mqtt" PROVE MqttInv'
  <2>1. MqttInv /\ [MqttNext]_mqttVars
    BY <1>4 DEF NodesInv, NodesNext, nodesVars
  <2> QED
    BY <2>1, MqttStepKeeps
<1>5. ASSUME part = "egress" PROVE EgressInv'
  <2>1. EgressInv /\ [EgressNext]_egressVars
    BY <1>5 DEF NodesInv, NodesNext, nodesVars
  <2> QED
    BY <2>1, EgressStepKeeps
<1>6. ASSUME part = "rate" PROVE RateFull'
  <2>1. RateFull /\ [RateNext]_rateVars
    BY <1>6 DEF NodesInv, NodesNext, nodesVars
  <2> QED
    BY <2>1, RateKept
<1>7. ASSUME part = "plugins" PROVE PluginInv'
  <2>1. PluginInv /\ [PluginNext]_pluginVars
    BY <1>7 DEF NodesInv, NodesNext, nodesVars
  <2> QED
    BY <2>1, PluginKeeps
<1>8. ASSUME part = "files" PROVE FilesInv'
  <2>1. FilesInv /\ [PluginFilesNext]_pluginFileVars
    BY <1>8 DEF NodesInv, NodesNext, nodesVars
  <2> QED
    BY <2>1, FilesKept
<1>9. ASSUME part = "tables" PROVE LanceInv'
  <2>1. LanceInv /\ [LanceNext]_lanceVars
    BY <1>9 DEF NodesInv, NodesNext, nodesVars
  <2> QED
    BY <2>1, LanceStepKeeps
<1>10. ASSUME part = "socket" PROVE SocketInv'
  <2>1. SocketInv /\ [SocketNext]_socketVars
    BY <1>10 DEF NodesInv, NodesNext, nodesVars
  <2> QED
    BY <2>1, SocketStepKeeps
<1>11. ASSUME part = "editor" PROVE EditorTypes'
  <2>1. EditorTypes /\ [EditorNext]_editorVars
    BY <1>11 DEF NodesInv, NodesNext, nodesVars
  <2> QED
    BY <2>1, EditorStepTyped
<1> QED
  BY <1>0, <1>1, <1>2, <1>3, <1>4, <1>5, <1>6, <1>7, <1>8, <1>9, <1>10, <1>11 DEF NodesInv

\* The nodes a report goes through.
ReportNodes == {"new", "source", "filter", "execute", "lookup", "fold", "insert", "result", "rotate",
                "materialize", "done"}

\* The steps of a report are those of the pipeline.
LEMMA PipelineIs == ReportNodes = {Pipeline[i] : i \in DOMAIN Pipeline} \cup {"new", "done"}
<1>1. DOMAIN Pipeline = {1, 2, 3, 4, 5, 6, 7, 8, 9}
  BY DEF Pipeline
<1>2. /\ Pipeline[1] = "source" /\ Pipeline[2] = "filter" /\ Pipeline[3] = "execute"
      /\ Pipeline[4] = "lookup" /\ Pipeline[5] = "fold" /\ Pipeline[6] = "insert"
      /\ Pipeline[7] = "result" /\ Pipeline[8] = "rotate" /\ Pipeline[9] = "materialize"
  BY DEF Pipeline
<1> QED
  BY <1>1, <1>2 DEF ReportNodes

\* The types of the directory, the registry, the socket and the policy are part
\* of what is known of them.
LEMMA OthersTyped ==
    /\ EgressInv => EgressTypeOK
    /\ FilesInv => PluginFilesTypeOK
    /\ LanceInv => LanceTypeOK
    /\ SocketInv => SocketTypeOK
<1>1. ASSUME EgressInv PROVE EgressTypeOK
  BY <1>1 DEF EgressInv, EgressTypeOK, Trip
<1>2. ASSUME FilesInv PROVE PluginFilesTypeOK
  <2>1. folder \in Folder /\ boot.at \in {"new", "scanned", "ready"} /\ boot.saw \in Command \cup {0}
    BY <1>2 DEF FilesInv, FilesTypes
  <2>2. \A c \in Command : commands[c] \in CommandState
    BY <1>2 DEF FilesInv, FilesTypes
  <2>3. \A f \in File : folder[f] \in Command \cup {0, Torn}
    BY <2>1 DEF Folder, FileContent, File
  <2> QED
    BY <2>1, <2>2, <2>3 DEF PluginFilesTypeOK, Folder, CommandState
<1>3. ASSUME LanceInv PROVE LanceTypeOK
  <2>1. \A r \in Report : reports[r].node \in ReportNodes
    BY <1>3 DEF LanceInv, ReportState, ReportNodes
  <2>2. ReportNodes = {Pipeline[i] : i \in DOMAIN Pipeline} \cup {"new", "done"}
    BY PipelineIs
  <2> QED
    BY <1>3, <2>1, <2>2 DEF LanceInv, TablesOK, Generation, LanceTypeOK
<1>4. ASSUME SocketInv PROVE SocketTypeOK
  <2>1. SocketTypes
    BY <1>4 DEF SocketInv
  <2>2. Len(emitted) \in 0 .. MaxEvents
    BY <2>1, SocketAssumption DEF SocketTypes
  <2>3. {shown[i] : i \in DOMAIN shown} \cup passed \subseteq 1 .. Len(emitted)
    <3>1. PICK S : S = 1 .. Len(emitted)
      OBVIOUS
    <3>2. shown \in Seq(S) /\ passed \subseteq S
      BY <2>1, <3>1 DEF SocketTypes
    <3>3. \A i \in DOMAIN shown : shown[i] \in S
      BY <3>2
    <3> QED
      BY <3>1, <3>2, <3>3
  <2> QED
    BY <2>1, <2>2, <2>3 DEF SocketTypes, SocketTypeOK, EventId
<1> QED
  BY <1>1, <1>2, <1>3, <1>4

\* Whatever part of the system a behaviour is one of, its variables keep their
\* types: calls, data and stateful nodes, MQTT, egress policy, buckets, plugins
\* and their files, tables, the event socket and the editor.
THEOREM NodesAreTyped == NodesSpec => []NodesTypeOK
<1>1. NodesInv => NodesTypeOK
  <2> SUFFICES ASSUME NodesInv PROVE NodesTypeOK
    OBVIOUS
  <2>1. /\ MqttInv => MqttTypeOK
        /\ RateFull => RateTypeOK
        /\ PluginInv => PluginTypeOK
    BY DEF MqttInv, RateFull, PluginInv
  <2> QED
    BY <2>1, OthersTyped, ServiceTyped, RunTyped, MemoryIsTyped, EditorTyped DEF NodesInv, NodesTypeOK, Parts
<1> QED
  BY <1>1, NodesStart, NodesStep, PTL DEF NodesSpec
=============================================================================
