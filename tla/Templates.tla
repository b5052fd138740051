------------------------------ MODULE Templates ------------------------------
(***************************************************************************)
(* The texts with placeholders of the function and the prompt nodes.  A text*)
(* is the sequence of its tokens: "{", "}", names and other words; the data *)
(* gives names the tokens of a text, or null.                               *)
(***************************************************************************)
EXTENDS DataNodes

\* Replacements after which a template of an instance that has not come to an
\* end never does.
CONSTANT MaxReplacements

ASSUME TemplateAssumption == MaxReplacements \in Nat

NullText == <<"(null)">>
NotThere == 0
Find(text, token, from) ==
    LET at == {i \in from..Len(text) : text[i] = token}
    IN  IF at = {} THEN NotThere ELSE Min(at)

Lookup(data, path) ==
    IF Len(path) = 1 /\ path[1] \in DOMAIN data THEN data[path[1]] ELSE NullText

\* The first placeholder is replaced, and the text searched again from its
\* start, what was put in included.
Replaced(text, data) ==
    LET start == Find(text, "{", 1)
        end == Find(text, "}", start)
        value == Lookup(data, SubSeq(text, start + 1, end - 1))
    IN  SubSeq(text, 1, start - 1) \o (IF value = NullText THEN <<"null">> ELSE value)
            \o SubSeq(text, end + 1, Len(text))

Open(text) == Find(text, "{", 1) # NotThere /\ Find(text, "}", Find(text, "{", 1)) # NotThere

\* A template that is one placeholder takes the value as it is.
ResolveTemplate(template, data) ==
    LET braces == {i \in DOMAIN template : template[i] = "{"}
        whole == Len(template) > 1 /\ template[1] = "{" /\ template[Len(template)] = "}"
                    /\ Cardinality(braces) = 1
        value == Lookup(data, SubSeq(template, 2, Len(template) - 1))
        after[n \in 0..MaxReplacements] ==
            IF n = 0 THEN template
            ELSE IF Open(after[n - 1]) THEN Replaced(after[n - 1], data) ELSE after[n - 1]
        result == after[MaxReplacements]
    IN  IF whole /\ value # NullText THEN Out(Emit("output", value))
        ELSE IF Open(result) THEN Spins
        ELSE Out(Emit("output", result))

FunctionNode(cfg, data) == ResolveTemplate(cfg.template, data)

----------------------------------------------------------------------------
\* A token here is a pair: {{name}} is <<"var", name>>, another <<"word", w>>.
Filled(text, name, value) ==
    FlattenSeq([i \in DOMAIN text |-> IF text[i] = <<"var", name>> THEN value ELSE <<text[i]>>])

\* The variables of a payload come in the order of a hash map: any order.
ExtractVariables(data) == SetToSeqs(DOMAIN data)

RenderTemplate(template, data, order) ==
    LET text[n \in 0..Len(order)] ==
            IF n = 0 THEN template ELSE Filled(text[n - 1], order[n], data[order[n]])
    IN  text[Len(order)]

PromptTemplateNode(cfg, data, order) ==
    LET rendered == RenderTemplate(cfg.template, data, order)
        unresolved == \E i \in DOMAIN rendered : rendered[i][1] = "var"
    IN  Out(Emit(IF unresolved /\ cfg.strict THEN "error" ELSE "output", rendered))
=============================================================================
