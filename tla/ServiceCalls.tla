----------------------------- MODULE ServiceCalls -----------------------------
(***************************************************************************)
(* One message at a node that talks to a service.  The network may lose the *)
(* answer or the request, redirect the request or be slow; a request whose  *)
(* timeout ran out may still be carried out by the service afterwards.      *)
(***************************************************************************)
EXTENDS ServiceNodes, FiniteSets

CONSTANTS Errand,       \* the jobs: node, action, has, and the node's own numbers
          MaxHops       \* stands for MAX_REDIRECTS

ASSUME MaxHopsAssumption == MaxHops \in Nat

Method == {"GET", "POST", "PUT", "PATCH", "DELETE", "HEAD"}
ServiceNode == {"twilio", "whatsapp", "crm", "http-request", "database", "embeddings", "image-gen",
                "stt", "tts", "llm", "ai-agent", "classifier", "structured-output", "summarizer"}

\* Numbers are unsigned, and a method that is not known is GET.
ASSUME ErrandAssumption ==
    \A e \in Errand :
        /\ e.node \in ServiceNode /\ {e.retries, e.parts} \subseteq Nat
        /\ e.node = "http-request" => e.action \in Method

VARIABLES errand, replies,
          wire,         \* the request on its way: as asked, and as it is now
          hops,         \* the redirects it has followed
          carried,      \* requests the service carried out as the node asked
          late,         \* requests that timed out and may still be carried out
          unheard,      \* whether some answer was given up
          rerouted,     \* whether a redirect made a request another one
          verdict

serviceVars == <<errand, replies, wire, hops, carried, late, unheard, rerouted, verdict>>

NoWire == [asked |-> "none", method |-> "none"]
Pending == [do |-> "run"]
NoReply == [status |-> 0, body |-> "cut"]

\* An agent may be answered with a tool call, a query with too many rows.
Body(node) == {"good", "lacks", "garbage", "cut"}
                 \cup (IF node \in {"ai-agent", "database"} THEN {"tool"} ELSE {})
Reply(node) == [status : {200, 201, 404}, body : Body(node)]

ServiceTypeOK ==
    /\ errand \in Errand
    /\ replies \in Seq(Reply(errand.node) \cup {NoReply})
    /\ DOMAIN wire = {"asked", "method"} /\ hops \in 0..MaxHops
    /\ {carried, late} \subseteq Nat /\ {unheard, rerouted} \subseteq BOOLEAN
    /\ verdict.do \in {"run", "end", "abort"}

ServiceInit ==
    /\ errand \in Errand /\ replies = <<>> /\ wire = NoWire /\ hops = 0
    /\ carried = 0 /\ late = 0 /\ unheard = FALSE /\ rerouted = FALSE
    /\ verdict = Pending

----------------------------------------------------------------------------
\* process goes on: it asks, or it is through.
Proceed ==
    /\ verdict = Pending /\ wire = NoWire
    /\ LET d == Decision(errand, replies)
       IN  IF d.do = "ask"
           THEN wire' = [asked |-> d.method, method |-> d.method] /\ UNCHANGED verdict
           ELSE verdict' = d /\ UNCHANGED wire
    /\ hops' = 0
    /\ UNCHANGED <<errand, replies, carried, late, unheard, rerouted>>

Gets(reply) == replies' = Append(replies, reply) /\ wire' = NoWire

ServiceAnswers ==
    /\ wire # NoWire
    /\ \E reply \in Reply(errand.node) :
        /\ Gets(reply)
        /\ carried' = carried
             + (IF reply.status < 300 /\ wire.method = wire.asked THEN 1 ELSE 0)
    /\ UNCHANGED <<errand, hops, late, unheard, rerouted, verdict>>

\* The client follows a redirect to an address the policy allows: 307 and 308
\* keep the request, 303 makes it a GET without a body.
Redirect ==
    /\ wire # NoWire /\ wire.method # "query" /\ hops < MaxHops
    /\ \E keeps \in BOOLEAN :
        /\ wire' = IF keeps \/ wire.method = "HEAD" THEN wire ELSE [wire EXCEPT !.method = "GET"]
        /\ rerouted' = (rerouted \/ wire'.method # wire.asked)
    /\ hops' = hops + 1
    /\ UNCHANGED <<errand, replies, carried, late, unheard, verdict>>

\* No connection, a refused address, one redirect too many.
NoConnection ==
    /\ wire # NoWire
    /\ Gets(NoReply)
    /\ UNCHANGED <<errand, hops, carried, late, unheard, rerouted, verdict>>

\* Faulty: only queries have a timeout.
GiveUpOnQueries ==
    /\ wire # NoWire /\ wire.method = "query"
    /\ Gets(NoReply) /\ unheard' = TRUE
    /\ late' = late + (IF wire.method = wire.asked THEN 1 ELSE 0)
    /\ UNCHANGED <<errand, hops, carried, rerouted, verdict>>

\* The timeout of the request, which starts before the connection and ends
\* after the body; or the connection breaks before the answer is there.
GiveUp ==
    /\ wire # NoWire
    /\ Gets(NoReply) /\ unheard' = TRUE
    /\ late' = late + (IF wire.method = wire.asked THEN 1 ELSE 0)
    /\ UNCHANGED <<errand, hops, carried, rerouted, verdict>>

CarriedOutLate ==
    /\ late > 0
    /\ late' = late - 1 /\ carried' = carried + 1
    /\ UNCHANGED <<errand, replies, wire, hops, unheard, rerouted, verdict>>

ServiceNext ==
    Proceed \/ ServiceAnswers \/ Redirect \/ NoConnection \/ GiveUp \/ CarriedOutLate

\* The node's task runs, and every request has a timeout.
ServiceFairness == WF_serviceVars(Proceed) /\ WF_serviceVars(GiveUp)

----------------------------------------------------------------------------
Succeeds == verdict.do = "end" /\ verdict.port # "error"

\* A message on a port of success says that the service carried out every
\* request that the node's work takes and that the node read all of the
\* answer.  Except: a redirect made the request another one (the node cannot
\* tell); and these nodes report an answer that lacks what they look for as an
\* empty or a partial one, http-request and crm whatever status below 400.
SuccessIsEarned ==
    Succeeds =>
        IF verdict.content = "full"
        THEN \/ rerouted
             \/ carried >= IF errand.node = "summarizer" THEN errand.parts ELSE 1
        ELSE \/ errand.node \in {"http-request", "crm", "database", "llm", "ai-agent",
                                 "classifier", "summarizer"}
             \/ errand.node = "twilio" /\ errand.action = "lookup"
             \/ errand.node = "tts" /\ errand.action # "google"

\* What a messaging or CRM service carried out is told as done, unless its
\* answer was given up: a flow that sends again on "error" sends twice only
\* after a timeout or a broken connection, never because a body was unreadable.
DoneIsTold ==
    verdict # Pending /\ ~Succeeds /\ carried > 0
        /\ errand.node \in {"twilio", "whatsapp", "crm"}
    => unheard

\* A message costs one request; structured output makes at most two for each
\* attempt but the last; a summary one for each part and one more.  And a node
\* that fails its flow has asked for nothing yet.
CallsAreFew ==
    LET most == CASE errand.node = "structured-output" -> 2 * errand.retries + 1
                  [] errand.node = "summarizer" /\ errand.parts > 0 -> errand.parts + 1
                  [] OTHER -> 1
    IN  /\ Len(replies) + (IF wire = NoWire THEN 0 ELSE 1) <= most
        /\ verdict.do = "abort" => replies = <<>>

\* What a node says of a service is so, and it says it after few calls.
CallsAreSound == SuccessIsEarned /\ DoneIsTold /\ CallsAreFew

\* Whatever the service does, the node is through with its message at last.
EveryCallEnds == <>(verdict # Pending)
=============================================================================
