------------------------------ MODULE NodeMemory ------------------------------
(***************************************************************************)
(* The nodes that remember: conversation memory, the hand-off queue, timers *)
(* and the vector store.  A node has one action, and the engine builds it   *)
(* anew for every execution: what a node remembers is its own and lasts for *)
(* one run.  Only the vector store is global to the process.                *)
(***************************************************************************)
EXTENDS Lists

CONSTANTS Run,              \* executions that overlap
          Memories,         \* the flows: sets of nodes, each named for its action
          Conversation, EntryId, Embedding,   \* an entry's id, its vector
          MaxMessages, TopK, MinScore, Ttl,
          MaxSteps          \* messages the nodes of this instance handle

ASSUME MemoryAssumption ==
    /\ {MaxMessages, TopK, Ttl, MaxSteps} \subseteq Nat /\ MinScore \in Int
    /\ \A e \in Embedding : \A i \in DOMAIN e : e[i] \in -1..1

VARIABLES nodes,        \* the flow's nodes
          instances,    \* by run: each node's own state
          collection,   \* the global store of one collection: id and vector
          clock,
          steps,        \* what the nodes have done, in order, errors left out
          told          \* what the last message was answered with

memoryVars == <<nodes, instances, collection, clock, steps, told>>

Fresh == [conversations |-> <<>>, queue |-> <<>>, ticks |-> 0, up |-> TRUE]
Answer(inst, port, about) == [inst |-> inst, port |-> port, about |-> about]
Error(inst) == Answer(inst, "error", <<>>)

MemoryTypeOK ==
    /\ nodes \in Memories /\ Len(steps) \in 0..MaxSteps /\ clock \in Nat
    /\ DOMAIN instances = Run /\ \A r \in Run : DOMAIN instances[r] = nodes
    /\ collection \in Seq([id : EntryId, vector : Embedding])

MemoryInit ==
    /\ nodes \in Memories
    /\ instances = [r \in Run |-> [n \in nodes |-> Fresh]]
    /\ collection = <<>> /\ clock = 0 /\ steps = <<>>
    /\ told = Answer(Fresh, "none", <<>>)

----------------------------------------------------------------------------
(* Conversation memory.  A payload without an id is an error.                *)

Expired(c) == c.updated + Ttl < clock

\* The oldest messages go; a conversation that has expired is continued.
Save(inst, p) ==
    LET known == p.id \in DOMAIN inst.conversations
        old == IF known THEN inst.conversations[p.id].messages ELSE <<>>
        all == Append(old, p.message)
        excess == Len(all) - MaxMessages
        kept == IF excess > 0 THEN SubSeq(all, excess + 1, Len(all)) ELSE all
    IN  Answer([inst EXCEPT !.conversations =
                    [c \in DOMAIN @ \cup {p.id} |->
                        IF c = p.id THEN [messages |-> kept, updated |-> clock] ELSE @[c]]], "saved", kept)

Forget(inst, id) ==
    [inst EXCEPT !.conversations = [c \in DOMAIN @ \ {id} |-> @[c]]]

Load(inst, p) ==
    IF p.id \notin DOMAIN inst.conversations THEN Answer(inst, "history", <<>>)
    ELSE IF Expired(inst.conversations[p.id]) THEN Answer(Forget(inst, p.id), "history", <<>>)
    ELSE Answer(inst, "history", inst.conversations[p.id].messages)

Clear(inst, p) ==
    Answer(Forget(inst, p.id), "cleared",
           IF p.id \in DOMAIN inst.conversations THEN <<p.id>> ELSE <<>>)

List(inst, p) == Answer(inst, "list", SetToSeq(DOMAIN inst.conversations))

----------------------------------------------------------------------------
(* Hand-off.  A customer is written into the metadata, which panics unless   *)
(* they are missing or an object.  The notice to the webhook comes after the *)
(* queue is changed and its failure is ignored.                              *)

Escalate(inst, p) ==
    IF p.customer /\ p.metadata = "text" THEN Answer([inst EXCEPT !.up = FALSE], "panic", <<>>)
    ELSE Answer([inst EXCEPT !.queue = Append(@, [status |-> "pending", agent |-> ""])],
                "escalated", <<Len(inst.queue) + 1>>)

OnTicket(inst, p, found) == IF p.ticket \in DOMAIN inst.queue THEN found ELSE Error(inst)

CheckStatus(inst, p) == OnTicket(inst, p, Answer(inst, "status", <<p.ticket>>))
Resolve(inst, p) ==
    OnTicket(inst, p, Answer([inst EXCEPT !.queue[p.ticket].status = "resolved"],
                             "resolved", <<p.ticket>>))

\* A resolved ticket can be assigned again.
Assign(inst, p) ==
    IF p.agent = "" THEN Error(inst)
    ELSE OnTicket(inst, p, Answer(
            [inst EXCEPT !.queue[p.ticket] = [status |-> "assigned", agent |-> p.agent]],
            "assigned", <<p.ticket>>))

TimerTick(inst) == Answer([inst EXCEPT !.ticks = @ + 1], "tick", <<inst.ticks + 1>>)

----------------------------------------------------------------------------
(* The vector store.  The embeddings here have length one or zero, so their  *)
(* cosine is their product.                                                  *)

Cosine(a, b) ==
    IF Len(a) # Len(b) THEN 0
    ELSE FoldLeft(LAMBDA sum, x : sum + x, 0, [i \in DOMAIN a |-> a[i] * b[i]])

\* Vectors of length one, or zero.
ASSUME CosineAssumption == \A a, b \in Embedding : Cosine(a, b) \in -1..1

\* The best first, and of equal ones the first stored.
Search(entries, query) ==
    LET at(score) == IF score < MinScore THEN <<>>
                     ELSE Picked(entries, {e \in ToSet(entries) : Cosine(query, e.vector) = score})
        scored == at(1) \o at(0) \o at(-1)
    IN  SubSeq(scored, 1, IF TopK < Len(scored) THEN TopK ELSE Len(scored))

\* Entries of one id are all deleted, though storing one never replaces another;
\* one that was stored under the empty id stays.
Without(entries, id) ==
    IF id = "" THEN entries ELSE Picked(entries, {e \in ToSet(entries) : e.id # id})

Store(p) ==
    IF p.vector = <<>> THEN collection ELSE Append(collection, [id |-> p.entry, vector |-> p.vector])

VectorStore(inst, n, p) ==
    CASE n = "store" -> IF p.vector = <<>> THEN Error(inst) ELSE Answer(inst, "stored", <<p.entry>>)
      [] n = "search" -> IF p.vector = <<>> THEN Error(inst)
                         ELSE Answer(inst, "results", Search(collection, p.vector))
      [] n = "delete" -> IF p.entry = "" THEN Error(inst)
                         ELSE Answer(inst, "deleted",
                                 IF Without(collection, p.entry) # collection THEN <<p.entry>> ELSE <<>>)
      [] n = "wipe" -> Answer(inst, "cleared", <<Len(collection)>>)

----------------------------------------------------------------------------
Conversing == {"save", "load", "clear", "list"}
HandingOff == {"escalate", "check_status", "resolve", "assign"}
Searching == {"store", "search", "delete", "wipe"}

NodeAction(inst, n, p) ==
    CASE n \in {"save", "load", "clear"} /\ p.id = "" -> Error(inst)
      [] n = "save" /\ p.id # "" -> Save(inst, p)
      [] n = "load" /\ p.id # "" -> Load(inst, p)
      [] n = "clear" /\ p.id # "" -> Clear(inst, p)
      [] n = "list" -> List(inst, p)
      [] n = "escalate" -> Escalate(inst, p)
      [] n = "check_status" -> CheckStatus(inst, p)
      [] n = "resolve" -> Resolve(inst, p)
      [] n = "assign" -> Assign(inst, p)
      [] n = "timer" -> TimerTick(inst)
      [] n \in Searching -> VectorStore(inst, n, p)
      [] OTHER -> Error(inst)

\* What can come in, by node; a text message is named by its place in steps.
Payload(n) ==
    CASE n \in Conversing -> [id : Conversation \cup {""}, message : {Len(steps) + 1}]
      [] n = "escalate" -> [customer : BOOLEAN, metadata : {"missing", "object", "text"}]
      [] n \in HandingOff \ {"escalate"} -> [ticket : 0..1, agent : IF n = "assign" THEN {"", "ann"} ELSE {""}]
      [] n \in Searching -> [entry : IF n = "delete" THEN EntryId \cup {""} ELSE
                                     IF n = "store" THEN EntryId ELSE {""},
                             vector : IF n \in {"store", "search"} THEN Embedding \cup {<<>>} ELSE {<<>>}]
      [] OTHER -> {[id |-> ""]}

\* The global store does not tell runs apart.
Step(r, n, p) == [run |-> IF nodes \subseteq Searching THEN "any" ELSE r, node |-> n, payload |-> p]

\* Faulty: the nodes of an earlier execution are used again.
RunBeginsAgain(r) ==
    /\ Len(steps) < MaxSteps
    /\ steps' = Append(steps, Step(r, "begins", <<>>))
    /\ told' = Answer(Fresh, "none", <<>>)
    /\ UNCHANGED <<nodes, instances, collection, clock>>

\* The engine creates every node of the flow when an execution starts: here
\* after another one of the flow has ended.
RunBegins(r) ==
    /\ Len(steps) < MaxSteps
    /\ instances' = [instances EXCEPT ![r] = [n \in nodes |-> Fresh]]
    /\ steps' = Append(steps, Step(r, "begins", <<>>))
    /\ told' = Answer(Fresh, "none", <<>>)
    /\ UNCHANGED <<nodes, collection, clock>>

\* One message at one node.
Handle(r, n) ==
    /\ instances[r][n].up /\ Len(steps) < MaxSteps
    /\ \E p \in Payload(n) :
        /\ told' = NodeAction(instances[r][n], n, p)
        /\ instances' = [instances EXCEPT ![r][n] = told'.inst]
        /\ collection' = CASE n = "store" -> Store(p)
                           [] n = "delete" -> Without(collection, p.entry)
                           [] n = "wipe" -> <<>>
                           [] OTHER -> collection
        /\ steps' = IF told'.port = "error" THEN steps ELSE Append(steps, Step(r, n, p))
    /\ UNCHANGED <<nodes, clock>>

\* Time is counted only as far as an expiry tells it apart.
TimePasses ==
    /\ nodes \cap Conversing # {} /\ clock <= Ttl /\ clock' = clock + 1
    /\ UNCHANGED <<nodes, instances, collection, steps, told>>

MemoryNext == (\E r \in Run : RunBegins(r) \/ \E n \in nodes : Handle(r, n)) \/ TimePasses

----------------------------------------------------------------------------
(* What was done, read from the steps alone.                                 *)

Done == Len(steps)
Now == steps[Done]
BeganAt(r) == CHOOSE i \in 0..Done :
    /\ i = 0 \/ steps[i] = Step(r, "begins", <<>>)
    /\ \A j \in i + 1..Done : steps[j] # Step(r, "begins", <<>>)
Saves(r, id) == [run : {r}, node : {"save"}, payload : [id : {id}, message : Nat]]
SavedBy(r, id) == Picked(SubSeq(steps, BeganAt(r) + 1, Done), Saves(r, id))

\* Stored in any run, and neither deleted nor wiped after that.
StoredNow ==
    {i \in 1..Done : /\ steps[i].node = "store" /\ steps[i].payload.vector # <<>>
                     /\ \A j \in i + 1..Done : ~ \/ steps[j].node = "wipe"
                                                 \/ /\ steps[j].node = "delete"
                                                    /\ steps[j].payload.entry = steps[i].payload.entry}

\* A node tells of what it did itself in this run, and of nothing else: the
\* count of a save is that of the latest messages saved in this run; a node
\* that loads, lists or clears finds nothing, whatever other nodes saved, and
\* one that looks up, assigns or resolves finds no ticket of another node's.
MemoryIsOwn ==
    Done > 0 /\ told.port # "error" =>
        /\ told.port = "saved" =>
            LET saved == SavedBy(Now.run, Now.payload.id)
                n == IF Len(saved) < MaxMessages THEN Len(saved) ELSE MaxMessages
            IN  told.about = [i \in 1..n |-> saved[Len(saved) - n + i].payload.message]
        /\ told.port \in {"history", "list"} => told.about = <<>>
        /\ told.port = "cleared" /\ Now.node = "clear" => told.about = <<>>
        /\ told.port \notin {"status", "resolved", "assigned"}

\* A search answers with what any run stored and nobody deleted since, leaves
\* out nothing at or above the least score unless the answer is full, and then
\* nothing better than what it holds.
SearchIsTruthful ==
    told.port = "results" =>
        LET q == Now.payload.vector
            score(i) == Cosine(q, steps[i].payload.vector)
            good == {i \in StoredNow : score(i) >= MinScore}
            worst == Cosine(q, told.about[Len(told.about)].vector)
        IN  /\ Len(told.about) = IF Cardinality(good) < TopK THEN Cardinality(good) ELSE TopK
            /\ \A k \in DOMAIN told.about : \E i \in good :
                    told.about[k] = [id |-> steps[i].payload.entry, vector |-> steps[i].payload.vector]
            /\ \A s \in -1..1 :
                    told.about # <<>> /\ s > worst =>
                    Cardinality({i \in good : score(i) = s})
                        = Cardinality({k \in DOMAIN told.about : Cosine(q, told.about[k].vector) = s})

\* What a node says of its store is so, of this run's store and of no other's.
NodesRemember == MemoryIsOwn /\ SearchIsTruthful
=============================================================================
