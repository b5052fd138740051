---------------------------- MODULE MCServiceCalls ----------------------------
(***************************************************************************)
(* The errands of the bounded instance: every action of every node, with    *)
(* all it needs and with each one thing missing.                            *)
(***************************************************************************)
EXTENDS ServiceCalls

Job(node, action, needs) ==
    { [node |-> node, action |-> action, has |-> h,
       limit |-> 2, turn |-> t, retries |-> n, parts |-> p] :
        h \in {needs \cup {"host"}} \cup {(needs \cup {"host"}) \ {x} : x \in needs \cup {"host"}},
        t \in IF node = "ai-agent" THEN 1..2 ELSE {0},
        n \in IF node = "structured-output" THEN 0..1 ELSE {0},
        p \in IF node = "summarizer" THEN {0, 1} ELSE {0} }

Jobs(node, actions, needs) == UNION {Job(node, a, needs) : a \in actions}
Contacts == {"create_contact", "get_contact", "create_deal", "list_deals", "update_contact",
             "search_contacts"}
CrmJobs(provider) ==
    UNION {Job("crm", <<provider, a>>,
               CASE a \in {"update_contact", "get_contact"} -> {"id"}
                 [] a = "search_contacts" -> {"email"}
                 [] OTHER -> {}) : a \in Contacts}

MCErrand ==
    Job("twilio", "sms", {"to", "text"}) \cup Job("twilio", "call", {"to", "url"})
    \cup Jobs("twilio", {"lookup", "other"}, {"to"})
    \cup Job("whatsapp", "send_text", {"to", "text"})
    \cup Job("whatsapp", "send_template", {"to", "template"})
    \cup Jobs("whatsapp", {"send_media", "other"}, {"to", "media"})
    \cup CrmJobs("hubspot") \cup CrmJobs("salesforce") \cup Job("crm", <<"other", "x">>, {})
    \cup Jobs("http-request", {"GET", "POST", "HEAD"}, {})
    \cup Jobs("database", {"postgres", "mysql", "sqlite", "mssql"}, {"settings"})
    \cup Jobs("embeddings", {"openai", "ollama"}, {"text"})
    \cup Jobs("image-gen", {"openai", "stability"}, {"text"})
    \cup Jobs("stt", {"openai", "deepgram", "google"}, {"audio"})
    \cup Jobs("tts", {"openai", "elevenlabs", "google"}, {"text"})
    \cup Jobs("llm", {"openai", "anthropic", "ollama"}, {"text"})
    \cup Jobs("ai-agent", {"openai", "anthropic", "ollama"}, {"text"})
    \cup Jobs("ai-agent", {"openai"}, {"history"})
    \cup Jobs("classifier", {"openai", "anthropic", "ollama"}, {"text", "categories"})
    \cup Jobs("structured-output", {"openai"}, {"text"})
    \cup Jobs("summarizer", {"openai"}, {"text"})
=============================================================================
