------------------------------- MODULE NodeRun -------------------------------
(***************************************************************************)
(* One message at a node that only computes, and where its answers go: the  *)
(* engine runs `process` and sends every message of the answer along the    *)
(* wires of its port, or along the only wire there is.                      *)
(***************************************************************************)
EXTENDS Templates

CONSTANT Task       \* [node, cfg, payload]: what comes in, and the node's configuration

OfJson == {"debug", "delay", "cron", "http-in", "webhook-trigger", "http-out", "webhook", "filter",
           "switch", "if-else", "loop", "batch", "aggregator", "mapper", "sanitize", "json", "csv"}
JsonPath == {p \in Seq(STRING) : p # <<>>}

\* What a configuration is read into, whatever was written in it.  The bound
\* of a template's replacements is no less than its length.
ASSUME TaskAssumption ==
    \A t \in Task :
        /\ DOMAIN t = {"node", "cfg", "payload"}
        /\ t.node \in OfJson \cup {"text-splitter", "function", "prompt-template"}
        /\ t.node \in OfJson => t.payload \in Json
        /\ t.node \in {"switch", "filter", "if-else", "loop"} => t.cfg.property \in JsonPath
        /\ t.node = "switch" => t.cfg.rules \in Seq(ToSet(t.cfg.rules))
        /\ t.node = "batch" => t.cfg.size \in Nat
        /\ t.node = "mapper" =>
                /\ t.cfg.mappings \in Seq(ToSet(t.cfg.mappings))
                /\ \A m \in ToSet(t.cfg.mappings) : {m.from, m.to} \subseteq JsonPath
        /\ t.node = "sanitize" => t.cfg.fields \in Seq(JsonPath)
        /\ t.node = "csv" => {"columns", "hasHeaders"} \subseteq DOMAIN t.cfg
        /\ t.node = "text-splitter" => t.cfg.size \in Nat /\ t.cfg.overlap \in Nat
        /\ t.node = "text-splitter" /\ t.cfg.action \in {"fixed", "tokens"} => t.payload \in Seq(1..4)
        /\ t.node = "function" =>
                /\ t.cfg.template \in Seq(STRING) /\ Len(t.cfg.template) <= MaxReplacements
                /\ t.payload \in [DOMAIN t.payload -> Seq(STRING)]
        /\ t.node = "prompt-template" =>
                /\ t.cfg.template \in Seq({"word", "var"} \X STRING)
                /\ t.payload \in [DOMAIN t.payload -> Seq({"word", "var"} \X STRING)]
                /\ IsFiniteSet(DOMAIN t.payload)

VARIABLES task,
          wires,        \* the ports of the wires that leave the node
          result,       \* what process returned
          order,        \* the order in which a prompt's variables are filled in
          delivered     \* by wire: the messages it carried
runVars == <<task, wires, result, order, delivered>>

Waiting == [end |-> "waiting", out |-> <<>>]

\* The ports the editor draws, of the nodes with more than one.
Ports(node) ==
    CASE node = "filter" -> {"pass", "reject"}
      [] node = "switch" -> {"out1", "out2", "default"}
      [] node = "if-else" -> {"true", "false"}
      [] node = "loop" -> {"item", "done"}
      [] node = "text-splitter" -> {"chunks", "error"}
      [] node = "webhook" -> {"payload"}
      [] node \in {"csv", "prompt-template"} -> {"output", "error"}
      [] OTHER -> {"output"}

NodeRunTypeOK ==
    /\ DOMAIN task = {"node", "cfg", "payload"} /\ wires \subseteq Ports(task.node)
    /\ result.end \in {"waiting", "ok", "sent", "err", "panic", "spins"}
    /\ DOMAIN delivered = wires

NodeRunInit ==
    /\ task \in Task /\ wires \in SUBSET Ports(task.node)
    /\ order \in IF task.node = "prompt-template" THEN ExtractVariables(task.payload) ELSE {<<>>}
    /\ result = Waiting /\ delivered = [w \in wires |-> <<>>]

Process(t) ==
    CASE t.node \in {"debug", "delay", "cron"} -> PassNode(t.payload)
      [] t.node = "http-in" -> HttpInNode(t.cfg, t.payload)
      [] t.node = "webhook-trigger" -> WebhookTriggerNode(t.cfg, t.payload)
      [] t.node = "http-out" -> HttpOutNode(t.cfg, t.payload)
      [] t.node = "webhook" -> WebhookNode(t.cfg, t.payload)
      [] t.node = "filter" -> FilterNode(t.cfg, t.payload)
      [] t.node = "switch" -> SwitchNode(t.cfg, t.payload)
      [] t.node = "if-else" -> IfElseNode(t.cfg, t.payload)
      [] t.node = "loop" -> LoopNode(t.cfg, t.payload)
      [] t.node = "batch" -> BatchNode(t.cfg, t.payload)
      [] t.node = "aggregator" -> AggregatorNode(t.cfg, t.payload)
      [] t.node = "mapper" -> MapperNode(t.cfg, t.payload)
      [] t.node = "sanitize" -> SanitizeNode(t.cfg, t.payload)
      [] t.node = "json" -> JsonNode(t.cfg, t.payload)
      [] t.node = "csv" -> CsvNode(t.cfg, t.payload)
      [] t.node = "text-splitter" -> TextSplitterNode(t.cfg, t.payload)
      [] t.node = "function" -> FunctionNode(t.cfg, t.payload)
      [] t.node = "prompt-template" -> PromptTemplateNode(t.cfg, t.payload, order)

RunProcess ==
    /\ result = Waiting
    /\ result' = Process(task)
    /\ UNCHANGED <<task, wires, order, delivered>>

DispatchOutputs ==
    /\ result.end = "ok"
    /\ LET takes(w) == {m \in ToSet(result.out) : m.port = w \/ Cardinality(wires) = 1}
       IN  delivered' = [w \in wires |-> Picked(result.out, takes(w))]
    /\ result' = [result EXCEPT !.end = "sent"]
    /\ UNCHANGED <<task, wires, order>>

NodeRunNext == RunProcess \/ DispatchOutputs

----------------------------------------------------------------------------
(* What must be true of the answers, said without the nodes' own ways.       *)

Sent == result.end = "sent"
Payloads(port) ==
    LET mine == Picked(result.out, {m \in ToSet(result.out) : m.port = port})
    IN  [i \in DOMAIN mine |-> mine[i].payload]
SentOn(port) == Payloads(port) # <<>>
Only == result.out[1].payload
Within(v, text) == \E n \in 0..MaxDepth : Text(text) \in Levels(v)[n]

\* Routing nodes hand on the payload as it is, to one port and to no other; a
\* switch that checks all rules to one or more.
RoutesTheWhole ==
    task.node \in {"filter", "switch", "if-else"} =>
        /\ \A i \in DOMAIN result.out : result.out[i].payload = task.payload
        /\ Len(result.out) >= 1
        /\ task.node # "switch" \/ ~task.cfg.checkAll => Len(result.out) = 1
        /\ SentOn("default") => \/ Len(result.out) = 1
                                \/ \E rule \in ToSet(task.cfg.rules) : rule.port = "default"

\* Nodes that take a list apart or count it leave no item out and double none.
ItemsAreKept ==
    CASE task.node = "batch" ->
            LET items == BatchList(task.cfg, task.payload).array
                batches == [i \in DOMAIN Payloads("output") |-> Payloads("output")[i].array]
            IN  /\ FlattenSeq(batches) = items
                /\ \A i \in DOMAIN batches : Len(batches[i]) \in 1..task.cfg.size
                /\ \A i \in 1..Len(batches) - 1 : Len(batches[i]) = task.cfg.size
      [] task.node = "loop" ->
            LET found == PathGet(task.payload, task.cfg.property)
            IN  /\ Payloads("done") = <<Number(Len(Payloads("item")))>>
                /\ Is(found, "array") => Payloads("item") = found.array
      [] task.node = "aggregator" /\ task.cfg.groupBy # "" ->
            LET items == ExtractArray(task.payload).array
                keys == SetToSeq(DOMAIN Only.groups)
            IN  /\ Total([i \in DOMAIN keys |-> Only.groups[keys[i]].count]) = Len(items)
                /\ Total([i \in DOMAIN keys |-> Only.groups[keys[i]].sum]) = Sums(items, task.cfg.field)
      [] OTHER -> TRUE

\* Chunks of a text of one-byte characters leave no byte out, are no longer
\* than asked for, and start `overlap` before the end of the one before.
ChunksCover ==
    LET c == Only
        narrow == \A i \in DOMAIN task.payload : task.payload[i] = 1
    IN  task.node = "text-splitter" /\ SentOn("chunks") /\ task.cfg.action = "fixed" /\ narrow =>
            /\ c[1][1] = 0 /\ c[Len(c)][2] = Len(task.payload)
            /\ \A i \in DOMAIN c : c[i][2] - c[i][1] \in 1..task.cfg.size
            /\ \A i \in 1..Len(c) - 1 : c[i + 1][1] = c[i][2] - task.cfg.overlap

\* What stringify makes of rows, parse makes the rows of again, if they are
\* objects of the same keys, one at least, that hold no list or object and no
\* text that looks like a number, a boolean or nothing.
CsvComesBack ==
    LET rows == CsvList(task.payload).array
        plain(v) == \/ Is(v, "null") \/ Is(v, "bool") \/ Is(v, "number")
                    \/ Is(v, "text") /\ v.text \notin DOMAIN Numerals \cup {"", "true", "false"}
        alike == \A i \in DOMAIN rows :
                    /\ Is(rows[i], "object") /\ DOMAIN rows[i].object # {}
                    /\ DOMAIN rows[i].object = DOMAIN rows[1].object
                    /\ \A k \in DOMAIN rows[i].object : plain(rows[i].object[k])
    IN  task.node = "csv" /\ task.cfg.action = "stringify" /\ task.cfg.columns = <<>> /\ alike
        => CsvParse([task.cfg EXCEPT !.hasHeaders = TRUE], Only)
                = Out(Emit("output", Object([rows |-> Array(rows)])))

\* The last mapping is found where it was mapped to.
MappedIsThere ==
    (task.node = "mapper" /\ task.cfg.mappings # <<>>
        /\ (task.cfg.passThrough => Is(task.payload, "object")))
    =>  LET m == task.cfg.mappings[Len(task.cfg.mappings)]
            found == PathGet(task.payload, m.from)
            value == IF found = NoValue THEN m.default ELSE found
        IN  value = NoValue \/ PathGet(Only, m.to) = value

NothingIsLost ==
    Sent => /\ RoutesTheWhole /\ ItemsAreKept /\ ChunksCover /\ CsvComesBack /\ MappedIsThere

\* After sanitize no listed field can be read, and no text a pattern matches,
\* but for what the node itself writes under "_sanitized", and unless the way
\* to the field leads through an array: there "remove" does nothing, and at
\* the top neither strategy does.
SanitizedIsGone ==
    LET own == IF Is(Only, "object") THEN Lacking(Only, "_sanitized") ELSE Only
    IN  Sent /\ task.node = "sanitize" =>
            /\ task.cfg.detectPatterns => ~Within(own, "secret")
            /\ \A path \in ToSet(task.cfg.fields) :
                    \/ path[1] = "_sanitized" \/ PathGet(Only, path) \in {NoValue, Mask}
                    \/ \E n \in 0..Len(path) - 1 : Is(Along(task.payload, path)[n], "array")

\* A node comes to an end with every message, but for these: a text is split
\* into chunks that overlap as far as they reach, or a function's data hold a
\* placeholder.  A batch of no size panics.
NodesComeToAnEnd ==
    /\ result.end = "spins" =>
        \/ task.node = "text-splitter" /\ task.cfg.overlap >= task.cfg.size
        \/ task.node = "function" /\ \E k \in DOMAIN task.payload :
                "{" \in Range(task.payload[k])
    /\ result.end = "panic" => task.node = "batch" /\ task.cfg.size = 0

\* A strict prompt that is sent has no placeholder; and the order of the
\* variables is of no account unless a value holds a placeholder itself.
PromptIsFilled ==
    Sent /\ task.node = "prompt-template" =>
        /\ task.cfg.strict /\ SentOn("output") =>
                \A i \in DOMAIN Only : Only[i][1] = "word"
        /\ (\A k \in DOMAIN task.payload : \A i \in DOMAIN task.payload[k] :
                task.payload[k][i][1] = "word")
            => \A o \in ExtractVariables(task.payload) :
                    PromptTemplateNode(task.cfg, task.payload, o) = [result EXCEPT !.end = "ok"]

\* With two wires or more each carries its own port's messages alone; what no
\* wire has the port of goes nowhere.  A single wire carries every message.
WiresFollowPorts ==
    Sent => \A w \in wires :
        IF Cardinality(wires) > 1
        THEN [i \in DOMAIN delivered[w] |-> delivered[w][i].payload] = Payloads(w)
        ELSE Len(delivered[w]) = Len(result.out)

\* What a node is given comes out of it, where it should and as it should, and
\* the node comes to an end.
DataIsKept ==
    NothingIsLost /\ SanitizedIsGone /\ NodesComeToAnEnd /\ PromptIsFilled /\ WiresFollowPorts
=============================================================================
