-------------------------------- MODULE Nodes --------------------------------
(***************************************************************************)
(* The parts that nodes work with, side by side.  They share no state, so a *)
(* behaviour is one of a single part; the others stay as they are, at rest. *)
(***************************************************************************)
EXTENDS ServiceCalls, NodeRun, NodeMemory, MqttNode, EgressGuard, RateLimiter, PluginCalls, PluginFiles,
        LanceTables, EventSocket, EditorRun

VARIABLE part

Parts == {"services", "run", "memory", "mqtt", "egress", "rate", "plugins", "files", "tables", "socket",
          "editor"}

nodesVars == <<part, serviceVars, runVars, memoryVars, mqttVars, egressVars, rateVars,
               pluginVars, pluginFileVars, lanceVars, socketVars, editorVars>>

----------------------------------------------------------------------------
\* At rest: some first state, and an errand that has its answer.
AnErrand == CHOOSE e \in Errand : TRUE
AHost == CHOOSE h \in HostName : TRUE
ATask == CHOOSE t \in Task : t.node # "prompt-template"

ServicesRest ==
    /\ errand = AnErrand /\ replies = <<>> /\ wire = NoWire /\ hops = 0
    /\ carried = 0 /\ late = 0 /\ unheard = FALSE /\ rerouted = FALSE /\ verdict = OnError
RunRests ==
    /\ task = ATask /\ wires = {} /\ order = <<>> /\ result = Waiting /\ delivered = <<>>

NodesInit ==
    /\ part \in Parts
    /\ IF part = "services" THEN ServiceInit ELSE ServicesRest
    /\ IF part = "run" THEN NodeRunInit ELSE RunRests
    /\ MemoryInit /\ (part = "memory" \/ nodes = CHOOSE m \in Memories : TRUE)
    /\ MqttInit /\ (part = "mqtt" \/ action = "other")
    /\ EgressInit /\ (part = "egress" \/ (policy.mode = "permissive" /\ trip.via = "mqtt" /\ trip.tls /\ trip.host = AHost))
    /\ RateInit /\ PluginInit /\ PluginFilesInit /\ LanceInit /\ SocketInit /\ EditorInit

\* What the parts but p do.
OthersRest(p) ==
    /\ p # "services" => UNCHANGED serviceVars
    /\ p # "run" => UNCHANGED runVars
    /\ p # "memory" => UNCHANGED memoryVars
    /\ p # "mqtt" => UNCHANGED mqttVars
    /\ p # "egress" => UNCHANGED egressVars
    /\ p # "rate" => UNCHANGED rateVars
    /\ p # "plugins" => UNCHANGED pluginVars
    /\ p # "files" => UNCHANGED pluginFileVars
    /\ p # "tables" => UNCHANGED lanceVars
    /\ p # "socket" => UNCHANGED socketVars
    /\ p # "editor" => UNCHANGED editorVars
    /\ UNCHANGED part

NodesNext ==
    \/ part = "services" /\ ServiceNext /\ OthersRest("services")
    \/ part = "run" /\ NodeRunNext /\ OthersRest("run")
    \/ part = "memory" /\ MemoryNext /\ OthersRest("memory")
    \/ part = "mqtt" /\ MqttNext /\ OthersRest("mqtt")
    \/ part = "egress" /\ EgressNext /\ OthersRest("egress")
    \/ part = "rate" /\ RateNext /\ OthersRest("rate")
    \/ part = "plugins" /\ PluginNext /\ OthersRest("plugins")
    \/ part = "files" /\ PluginFilesNext /\ OthersRest("files")
    \/ part = "tables" /\ LanceNext /\ OthersRest("tables")
    \/ part = "socket" /\ SocketNext /\ OthersRest("socket")
    \/ part = "editor" /\ EditorNext /\ OthersRest("editor")

NodesSpec == NodesInit /\ [][NodesNext]_nodesVars /\ ServiceFairness

\* The state of the part that goes on is of its type.
NodesTypeOK ==
    CASE part = "services" -> ServiceTypeOK
      [] part = "run" -> NodeRunTypeOK
      [] part = "memory" -> MemoryTypeOK
      [] part = "mqtt" -> MqttTypeOK
      [] part = "egress" -> EgressTypeOK
      [] part = "rate" -> RateTypeOK
      [] part = "plugins" -> PluginTypeOK
      [] part = "files" -> PluginFilesTypeOK
      [] part = "tables" -> LanceTypeOK
      [] part = "socket" -> SocketTypeOK
      [] part = "editor" -> EditorTypeOK
=============================================================================
