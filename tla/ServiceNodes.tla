----------------------------- MODULE ServiceNodes -----------------------------
(***************************************************************************)
(* The nodes that talk to a service: what `process` of each does next, given*)
(* its job and the replies it has had so far.  A job says which inputs the  *)
(* configuration and the payload have; the URL, the headers and the wording *)
(* are left out.  A reply is a status and what its body is: as documented,   *)
(* "good" or "tool" (an agent's tool call); "lacks", JSON without the field  *)
(* that is looked for; "garbage", no JSON; or "cut", broken off or over the  *)
(* limit of bytes.  Status 0: the request failed or its timeout ran out.     *)
(***************************************************************************)
EXTENDS Integers, Sequences, SequencesExt

Ask(method) == [do |-> "ask", method |-> method]
OnPort(port, content) == [do |-> "end", port |-> port, content |-> content]
OnError == OnPort("error", "none")
\* process returns Err: the engine fails the flow.
Aborts == [do |-> "abort"]

Known(job, needs, next) == IF needs \subseteq job.has THEN next ELSE OnError
\* The egress policy refuses the host: `post(&url)?` inside process, or
\* inside a helper whose error process puts on the error port.
MayConnect(job, refused, next) == IF "host" \in job.has THEN next ELSE refused
First(method, r, last) == IF r = <<>> THEN Ask(method) ELSE last

\* Faulty: any answer is taken for success.
SucceededIfAnswered(r) == r # <<>> /\ Last(r).status # 0

Succeeded(r) == r # <<>> /\ Last(r).status \in 200..299
\* check_response and check_json_response: 200 only, and all of the body.
ReadAll(r) == r # <<>> /\ Last(r).status = 200 /\ Last(r).body # "cut"
IsJson(r) == ReadAll(r) /\ Last(r).body # "garbage"
HasField(r) == IsJson(r) /\ Last(r).body # "lacks"
Content(r) == IF HasField(r) THEN "full" ELSE "partial"

----------------------------------------------------------------------------
(* Twilio and WhatsApp: any status of success is success, whatever the body. *)

Messaging(job, needs, method, port, r) ==
    Known(job, needs, MayConnect(job, Aborts,
        First(method, r, IF Succeeded(r) THEN OnPort(port, "full") ELSE OnError)))

HandleSms(job, r) == Messaging(job, {"to", "text"}, "POST", "sent", r)
HandleCall(job, r) == Messaging(job, {"to", "url"}, "POST", "sent", r)
\* A body that is no JSON reads as {}.
HandleLookup(job, r) ==
    LET d == Messaging(job, {"to"}, "GET", "sent", r)
    IN  IF Succeeded(r) /\ ~HasField(r) THEN OnPort("sent", "partial") ELSE d

HandleSendText(job, r) == Messaging(job, {"to", "text"}, "POST", "sent", r)
HandleSendTemplate(job, r) == Messaging(job, {"to", "template"}, "POST", "sent", r)
HandleSendMedia(job, r) == Messaging(job, {"to", "media"}, "POST", "sent", r)

TwilioNode(job, r) ==
    CASE job.action = "sms" -> HandleSms(job, r)
      [] job.action = "call" -> HandleCall(job, r)
      [] job.action = "lookup" -> HandleLookup(job, r)
      [] OTHER -> OnError

WhatsAppNode(job, r) ==
    CASE job.action = "send_text" -> HandleSendText(job, r)
      [] job.action = "send_template" -> HandleSendTemplate(job, r)
      [] job.action = "send_media" -> HandleSendMedia(job, r)
      [] OTHER -> OnError

----------------------------------------------------------------------------
(* CRM: any status below 400 is a result.  What an operation needs and does   *)
(* not find is an Err.                                                        *)

Operation(job, needs, method, r) ==
    IF ~(needs \cup {"host"} \subseteq job.has) THEN Aborts
    ELSE First(method, r, IF r # <<>> /\ Last(r).status \in 1..399
                          THEN OnPort("result", Content(r)) ELSE OnError)

HubSpotCreateContact(job, r) == Operation(job, {}, "POST", r)
HubSpotUpdateContact(job, r) == Operation(job, {"id"}, "PATCH", r)
HubSpotGetContact(job, r) == Operation(job, {"id"}, "GET", r)
HubSpotSearchContacts(job, r) == Operation(job, {"email"}, "POST", r)
HubSpotCreateDeal(job, r) == Operation(job, {}, "POST", r)
HubSpotListDeals(job, r) == Operation(job, {}, "GET", r)

SalesforceCreateContact(job, r) == Operation(job, {}, "POST", r)
SalesforceUpdateContact(job, r) == Operation(job, {"id"}, "PATCH", r)
SalesforceGetContact(job, r) == Operation(job, {"id"}, "GET", r)
SalesforceSearchContacts(job, r) == Operation(job, {"email"}, "GET", r)
SalesforceCreateDeal(job, r) == Operation(job, {}, "POST", r)
SalesforceListDeals(job, r) == Operation(job, {}, "GET", r)

CrmNode(job, r) ==
    CASE job.action = <<"hubspot", "create_contact">> -> HubSpotCreateContact(job, r)
      [] job.action = <<"hubspot", "update_contact">> -> HubSpotUpdateContact(job, r)
      [] job.action = <<"hubspot", "get_contact">> -> HubSpotGetContact(job, r)
      [] job.action = <<"hubspot", "search_contacts">> -> HubSpotSearchContacts(job, r)
      [] job.action = <<"hubspot", "create_deal">> -> HubSpotCreateDeal(job, r)
      [] job.action = <<"hubspot", "list_deals">> -> HubSpotListDeals(job, r)
      [] job.action = <<"salesforce", "create_contact">> -> SalesforceCreateContact(job, r)
      [] job.action = <<"salesforce", "update_contact">> -> SalesforceUpdateContact(job, r)
      [] job.action = <<"salesforce", "get_contact">> -> SalesforceGetContact(job, r)
      [] job.action = <<"salesforce", "search_contacts">> -> SalesforceSearchContacts(job, r)
      [] job.action = <<"salesforce", "create_deal">> -> SalesforceCreateDeal(job, r)
      [] job.action = <<"salesforce", "list_deals">> -> SalesforceListDeals(job, r)
      [] OTHER -> OnError

----------------------------------------------------------------------------
(* HTTP request and database.                                                 *)

\* A service that answers at all has answered, whatever the status.
HttpRequestNode(job, r) ==
    MayConnect(job, OnError, First(job.action, r,
        IF Last(r).status = 0 \/ Last(r).body = "cut" THEN OnError
        ELSE OnPort("response", IF Succeeded(r) THEN "full" ELSE "partial")))

\* A pool of its own for each message.  "tool" is an answer of more rows than
\* the limit: the rows up to it, marked as truncated.
Query(job, r) ==
    MayConnect(job, OnError, First("query", r,
        IF ~HasField(r) THEN OnError
        ELSE OnPort("results", IF Last(r).body = "tool" THEN "partial" ELSE "full")))

ExecutePostgres(job, r) == Known(job, {"settings"}, Query(job, r))
ExecuteMysql(job, r) == Known(job, {"settings"}, Query(job, r))
\* "host" is the sandbox directory and a query without ATTACH and VACUUM.
ExecuteSqlite(job, r) == Query(job, r)

DatabaseNode(job, r) ==
    CASE job.action = "postgres" -> ExecutePostgres(job, r)
      [] job.action = "mysql" -> ExecuteMysql(job, r)
      [] job.action = "sqlite" -> ExecuteSqlite(job, r)
      [] OTHER -> OnError

----------------------------------------------------------------------------
(* Language models.                                                           *)

Posted(job, r, last) == MayConnect(job, OnError, First("POST", r, last))
\* The reply has to be read in full, and the field has to be there ...
Strictly(job, r, port) == Posted(job, r, IF HasField(r) THEN OnPort(port, "full") ELSE OnError)
\* ... or reads as the empty text when it is not.
Loosely(job, r, port) == Posted(job, r, IF IsJson(r) THEN OnPort(port, Content(r)) ELSE OnError)

EmbedOpenAi(job, r) == Strictly(job, r, "embedding")
EmbedOllama(job, r) == Strictly(job, r, "embedding")
EmbeddingsNode(job, r) == Known(job, {"text"},
    IF job.action = "ollama" THEN EmbedOllama(job, r) ELSE EmbedOpenAi(job, r))

ImageOpenAi(job, r) == Strictly(job, r, "image")
ImageStability(job, r) == Strictly(job, r, "image")
ImageGenNode(job, r) == Known(job, {"text"},
    IF job.action = "stability" THEN ImageStability(job, r) ELSE ImageOpenAi(job, r))

TranscribeOpenAi(job, r) == Strictly(job, r, "transcript")
TranscribeDeepgram(job, r) == Strictly(job, r, "transcript")
TranscribeGoogle(job, r) == Strictly(job, r, "transcript")
SttNode(job, r) == Known(job, {"audio"},
    CASE job.action = "deepgram" -> TranscribeDeepgram(job, r)
      [] job.action = "google" -> TranscribeGoogle(job, r)
      [] OTHER -> TranscribeOpenAi(job, r))

\* Audio is bytes: whatever they are.
Bytes(job, r) == Posted(job, r, IF ReadAll(r) THEN OnPort("audio", Content(r)) ELSE OnError)
SpeakOpenAi(job, r) == Bytes(job, r)
SpeakElevenlabs(job, r) == Bytes(job, r)
SpeakGoogle(job, r) == Strictly(job, r, "audio")
TtsNode(job, r) == Known(job, {"text"},
    CASE job.action = "elevenlabs" -> SpeakElevenlabs(job, r)
      [] job.action = "google" -> SpeakGoogle(job, r)
      [] OTHER -> SpeakOpenAi(job, r))

\* A stream is parsed chunk by chunk: a line that a chunk cuts is skipped, and
\* so is the end that never came ("lacks", "garbage"); only a stream that
\* breaks is an error.
Streamed(job, r) == Posted(job, r, IF ReadAll(r) THEN OnPort("response", Content(r)) ELSE OnError)
StreamOpenAi(job, r) == Streamed(job, r)
StreamAnthropic(job, r) == Streamed(job, r)
StreamOllama(job, r) == Streamed(job, r)
LlmNode(job, r) == Known(job, {"text"},
    CASE job.action = "anthropic" -> StreamAnthropic(job, r)
      [] job.action = "ollama" -> StreamOllama(job, r)
      [] OTHER -> StreamOpenAi(job, r))

\* A message with a history continues it, one turn further on; the history
\* and the number of turns come from the payload.
Turn(job) == IF "history" \in job.has THEN job.turn + 1 ELSE 1
AgentStep(job, r) == Posted(job, r,
    IF ~IsJson(r) THEN OnError
    ELSE OnPort(IF Last(r).body = "tool" THEN "tool_call" ELSE "response", Content(r)))
AgentOpenAi(job, r) == AgentStep(job, r)
AgentAnthropic(job, r) == AgentStep(job, r)
AgentOllama(job, r) == AgentStep(job, r)
AgentNode(job, r) ==
    IF ({"text", "history"} \cap job.has = {}) \/ Turn(job) > job.limit THEN OnError
    ELSE CASE job.action = "anthropic" -> AgentAnthropic(job, r)
           [] job.action = "ollama" -> AgentOllama(job, r)
           [] OTHER -> AgentOpenAi(job, r)

----------------------------------------------------------------------------
(* Nodes that share one client of language models, call_llm.                  *)

CallOpenAi(job, r) == Loosely(job, r, "ok")
CallAnthropic(job, r) == Loosely(job, r, "ok")
CallOllama(job, r) == Loosely(job, r, "ok")
CallLlm(job, r) ==
    CASE job.action = "anthropic" -> CallAnthropic(job, r)
      [] job.action = "ollama" -> CallOllama(job, r)
      [] OTHER -> CallOpenAi(job, r)

\* A reply that names no category is the category "unknown".
ClassifierNode(job, r) == Known(job, {"text", "categories"},
    LET call == CallLlm(job, r)
    IN  IF call.do = "end" /\ call.port = "ok" THEN OnPort("result", call.content) ELSE call)

\* Each attempt that gets a reply which does not parse makes one call more,
\* whose failure is ignored, unless it is the last attempt.  A refused host
\* is an attempt that failed, too.
Attempt(job, acc, reply) ==
    LET parses == HasField(<<reply>>)
        answered == IsJson(<<reply>>)
    IN  IF parses THEN [acc EXCEPT !.parsed = TRUE]
        ELSE IF answered /\ ~acc.again /\ acc.attempt < job.retries
             THEN [acc EXCEPT !.again = TRUE]
             ELSE [acc EXCEPT !.attempt = @ + 1, !.again = FALSE]

StructuredOutputNode(job, r) == Known(job, {"text"},
    LET acc == FoldLeft(LAMBDA a, reply : Attempt(job, a, reply),
                        [attempt |-> 0, again |-> FALSE, parsed |-> FALSE], r)
    IN  CASE acc.parsed -> OnPort("output", "full")
          [] ~acc.parsed /\ acc.attempt > job.retries -> OnError
          [] OTHER -> CallLlm(job, <<>>))

\* One call, or one for each part of a long text and one for their summaries.
SummarizeSimple(job, r) == CallLlm(job, r)
SummarizeMapReduce(job, r) ==
    IF \E i \in DOMAIN r : ~IsJson(<<r[i]>>) THEN OnError
    ELSE IF Len(r) <= job.parts THEN CallLlm(job, <<>>)
    ELSE OnPort("ok", IF \A i \in DOMAIN r : HasField(<<r[i]>>) THEN "full" ELSE "partial")
SummarizerNode(job, r) == Known(job, {"text"},
    LET call == IF job.parts = 0 THEN SummarizeSimple(job, r) ELSE SummarizeMapReduce(job, r)
    IN  IF call.do = "end" /\ call.port = "ok" THEN OnPort("summary", call.content) ELSE call)

----------------------------------------------------------------------------
Decision(job, r) ==
    CASE job.node = "twilio" -> TwilioNode(job, r)
      [] job.node = "whatsapp" -> WhatsAppNode(job, r)
      [] job.node = "crm" -> CrmNode(job, r)
      [] job.node = "http-request" -> HttpRequestNode(job, r)
      [] job.node = "database" -> DatabaseNode(job, r)
      [] job.node = "embeddings" -> EmbeddingsNode(job, r)
      [] job.node = "image-gen" -> ImageGenNode(job, r)
      [] job.node = "stt" -> SttNode(job, r)
      [] job.node = "tts" -> TtsNode(job, r)
      [] job.node = "llm" -> LlmNode(job, r)
      [] job.node = "ai-agent" -> AgentNode(job, r)
      [] job.node = "classifier" -> ClassifierNode(job, r)
      [] job.node = "structured-output" -> StructuredOutputNode(job, r)
      [] job.node = "summarizer" -> SummarizerNode(job, r)
=============================================================================
