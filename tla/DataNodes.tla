------------------------------ MODULE DataNodes ------------------------------
(***************************************************************************)
(* The nodes that only compute: what `process` of each returns for a        *)
(* configuration and a payload.  A node's `validate` is never called by the *)
(* engine, so a configuration here is whatever `configure` accepts.         *)
(***************************************************************************)
EXTENDS JsonValues

\* What process returns: messages on ports, an error that fails the flow, a
\* panic, or nothing ever.
Out(messages) == [end |-> "ok", out |-> messages]
Emit(port, payload) == <<[port |-> port, payload |-> payload]>>
Fails == [end |-> "err", out |-> <<>>]
Panics == [end |-> "panic", out |-> <<>>]
Spins == [end |-> "spins", out |-> <<>>]

----------------------------------------------------------------------------
(* Triggers and pass-through nodes.                                          *)

PassNode(payload) == Out(Emit("output", payload))

HttpInNode(cfg, payload) ==
    Out(Emit("output",
        CASE Member(payload, "method") # NoValue -> Object([req |-> payload])
          [] Member(payload, "method") = NoValue /\ Member(payload, "req") # NoValue -> payload
          [] OTHER -> Object([req |-> Object([method |-> Text(cfg.method), body |-> payload])])))

WebhookTriggerNode(cfg, payload) ==
    Out(Emit("output", Object([trigger |-> Text("webhook"), body |-> PathLookup(payload, <<"body">>)])))

HttpOutNode(cfg, payload) ==
    Out(Emit("output", Object([res |-> Object([status |-> Number(cfg.status % 65536),
                                               body |-> payload])])))

\* The signature is checked when there is a secret, then the event's name.
WebhookNode(cfg, payload) ==
    LET headers == PathGet(payload, <<"req", "headers">>)
        body == PathGet(payload, <<"req", "body">>)
        signature == Member(headers, "signature")
        event == FirstMember(body, <<"event", "type">>)
        named == IF Is(event, "text") THEN event ELSE Text("unknown")
    IN  CASE cfg.secret # "" /\ signature # Text(cfg.secret) -> Out(Emit("rejected", Null))
          [] (cfg.secret = "" \/ signature = Text(cfg.secret))
                /\ cfg.events # {} /\ named.text \notin cfg.events -> Out(Emit("filtered", named))
          [] OTHER -> Out(Emit("payload", Object([event |-> named,
                body |-> IF body = NoValue THEN Null ELSE body])))

----------------------------------------------------------------------------
(* Routing.                                                                  *)

\* <<>> when the value is no number.
Decimal(v) ==
    CASE Is(v, "number") -> <<v.number>>
      [] Is(v, "text") -> IF v.text \in DOMAIN Numerals THEN <<Numerals[v.text]>> ELSE <<>>
      [] OTHER -> <<>>

DecimalOrBool(v) == IF Is(v, "bool") THEN <<IF v.bool THEN 1 ELSE 0>> ELSE Decimal(v)

Numeral(n) == CHOOSE s \in DOMAIN Numerals : Numerals[s] = n

Printed(v, nullText) ==
    CASE v = Null -> Text(nullText)
      [] Is(v, "bool") -> Text(IF v.bool THEN "true" ELSE "false")
      [] Is(v, "number") -> Text(Numeral(v.number))
      [] OTHER -> v

ValuesEqual(a, b) ==
    \/ a = b
    \/ IF Decimal(a) # <<>> /\ Decimal(b) # <<>> THEN Decimal(a) = Decimal(b)
       ELSE Printed(a, "null") = Printed(b, "null")

Holds(type, x, y) ==
    CASE type = "gt" -> x > y [] type = "lt" -> x < y
      [] type = "gte" -> x >= y [] type = "lte" -> x <= y

IsEmpty(v) == v \in {Null, Text(""), Array(<<>>), Empty}
IsTruthy(v) == ~IsEmpty(v) /\ v \notin {Bool(FALSE), Number(0)}

EvaluateRule(actual, rule) ==
    LET a == Decimal(actual)
        b == Decimal(rule.value)
    IN  CASE rule.type = "eq" -> ValuesEqual(actual, rule.value)
          [] rule.type = "neq" -> ~ValuesEqual(actual, rule.value)
          [] rule.type \in {"gt", "lt", "gte", "lte"} ->
                a # <<>> /\ b # <<>> /\ Holds(rule.type, a[1], b[1])
          [] rule.type = "contains" ->
                IF Is(actual, "array") THEN \E i \in DOMAIN actual.array :
                                                ValuesEqual(actual.array[i], rule.value)
                ELSE Is(actual, "text") /\ rule.value \in {actual, Text("")}
          [] rule.type = "empty" -> IsEmpty(actual)
          [] rule.type = "notempty" -> ~IsEmpty(actual)
          [] rule.type = "truthy" -> IsTruthy(actual)
          [] rule.type = "falsy" -> ~IsTruthy(actual)
          [] OTHER -> FALSE

SwitchNode(cfg, payload) ==
    LET actual == PathLookup(payload, cfg.property)
        hits == Picked(cfg.rules, {r \in ToSet(cfg.rules) : EvaluateRule(actual, r)})
        taken == IF cfg.checkAll \/ hits = <<>> THEN hits ELSE <<hits[1]>>
    IN  Out(IF hits = <<>> THEN Emit("default", payload)
            ELSE [i \in DOMAIN taken |-> [port |-> taken[i].port, payload |-> payload]])

FilterNode(cfg, payload) ==
    Out(Emit(IF EvaluateRule(PathLookup(payload, cfg.property), cfg.rules[1])
             THEN "pass" ELSE "reject", payload))

\* If-else has its own reading of a missing field, a null and a boolean.
IfElseHolds(found, op, value) ==
    LET a == DecimalOrBool(found)
        b == DecimalOrBool(value)
        equal == IF a # <<>> /\ b # <<>> THEN a = b
                 ELSE Printed(found, "") = Printed(value, "")
    IN  CASE op = "empty" -> found = NoValue \/ IsEmpty(found)
          [] op = "notempty" -> found # NoValue /\ ~IsEmpty(found)
          [] op = "exists" -> found # NoValue
          [] op = "eq" -> found # NoValue /\ equal
          [] op = "neq" -> found # NoValue /\ ~equal
          [] op \in {"gt", "lt", "gte", "lte"} ->
                a # <<>> /\ b # <<>> /\ Holds(op, a[1], b[1])
          [] OTHER -> FALSE

IfElseNode(cfg, payload) ==
    Out(Emit(IF IfElseHolds(PathGet(payload, cfg.property), cfg.rules[1].type, cfg.rules[1].value)
             THEN "true" ELSE "false", payload))

----------------------------------------------------------------------------
(* Arrays.                                                                   *)

\* One message per item, then one that says it is done.
LoopNode(cfg, payload) ==
    LET found == PathGet(payload, cfg.property)
        items == CASE found = NoValue -> <<>>
                   [] Is(found, "array") -> found.array
                   [] OTHER -> <<found>>
    IN  Out([i \in DOMAIN items |-> [port |-> "item", payload |-> items[i]]]
            \o Emit("done", Number(Len(items))))

\* The list of the configured field, or of the payload.
BatchList(cfg, payload) ==
    LET named == Member(payload, cfg.field)
    IN  IF cfg.field # "" /\ Is(named, "array") THEN named ELSE ExtractArray(payload)

\* Faulty: a last batch that is not full is left out.
BatchNodeFullOnly(cfg, payload) ==
    LET list == BatchList(cfg, payload)
        items == list.array
    IN  CASE list = NoValue -> Fails
          [] list # NoValue /\ cfg.size = 0 -> Panics
          [] OTHER -> Out([i \in 1..Len(items) \div cfg.size |-> [port |-> "output",
                payload |-> Array(SubSeq(items, (i - 1) * cfg.size + 1, i * cfg.size))]])

BatchNode(cfg, payload) ==
    LET list == BatchList(cfg, payload)
        items == list.array
        batches == (Len(items) + cfg.size - 1) \div cfg.size
        upTo(i) == IF i * cfg.size < Len(items) THEN i * cfg.size ELSE Len(items)
    IN  CASE list = NoValue -> Fails
          [] list # NoValue /\ cfg.size = 0 -> Panics
          [] OTHER -> Out([i \in 1..batches |-> [port |-> "output",
                payload |-> Array(SubSeq(items, (i - 1) * cfg.size + 1, upTo(i)))]])

NumberAt(item, f) == IF Is(Member(item, f), "number") THEN Member(item, f).number ELSE 0
Sums(items, f) == Total([i \in DOMAIN items |-> NumberAt(items[i], f)])

NumbersAt(items, f) ==
    {Member(items[i], f).number : i \in {j \in DOMAIN items : Is(Member(items[j], f), "number")}}
MinField(items, f) == IF NumbersAt(items, f) = {} THEN Null ELSE Number(Min(NumbersAt(items, f)))
MaxField(items, f) == IF NumbersAt(items, f) = {} THEN Null ELSE Number(Max(NumbersAt(items, f)))

\* A number and the text of it are one group; no field is the group "_null".
GroupOf(item, groupBy) ==
    LET key == Member(item, groupBy)
    IN  IF key = NoValue THEN Text("_null") ELSE Printed(key, "null")

GroupEntry(items, f) ==
    [count |-> Len(items), sum |-> Sums(items, f),
     min |-> MinField(items, f), max |-> MaxField(items, f)]

AggregatorNode(cfg, payload) ==
    LET list == ExtractArray(payload)
        items == list.array
        keys == {GroupOf(items[i], cfg.groupBy) : i \in DOMAIN items}
        group(k) == Picked(items, {v \in ToSet(items) : GroupOf(v, cfg.groupBy) = k})
    IN  CASE list = NoValue -> Fails
          [] list # NoValue /\ cfg.groupBy # "" ->
                Out(Emit("output", [groups |-> [k \in keys |-> GroupEntry(group(k), cfg.field)]]))
          [] list # NoValue /\ cfg.groupBy = "" /\ cfg.operation \notin
                {"count", "sum", "avg", "min", "max"} -> Fails
          [] OTHER -> Out(Emit("output", [flat |-> GroupEntry(items, cfg.field)]))

----------------------------------------------------------------------------
(* Fields.                                                                   *)

MapperNode(cfg, payload) ==
    LET value(m) ==
            LET found == PathGet(payload, m.from) IN IF found = NoValue THEN m.default ELSE found
        made[n \in 0..Len(cfg.mappings)] ==
            IF n = 0 THEN (IF cfg.passThrough THEN payload ELSE Empty)
            ELSE IF value(cfg.mappings[n]) = NoValue THEN made[n - 1]
            ELSE PathSet(made[n - 1], cfg.mappings[n].to, value(cfg.mappings[n]))
    IN  Out(Emit("output", made[Len(cfg.mappings)]))

\* "secret" is a text one of the patterns matches.  `below` is what becomes of
\* the values one level further down.
Mask == Text("***")
Scanned(below, v, n) ==
    CASE v = Text("secret") -> Mask
      [] n > 0 /\ Is(v, "object") -> Object([k \in DOMAIN v.object |-> below[v.object[k]]])
      [] n > 0 /\ Is(v, "array") -> Array([i \in DOMAIN v.array |-> below[v.array[i]]])
      [] OTHER -> v

ScanAndSanitize(v) ==
    LET clean[n \in 0..MaxDepth] == [x \in Levels(v)[MaxDepth - n] |-> Scanned(clean[n - 1], x, n)]
    IN  clean[MaxDepth][v]

SanitizeField(cfg, payload, path) ==
    IF PathGet(payload, path) = NoValue THEN payload
    ELSE IF cfg.strategy = "remove" THEN PathRemove(payload, path)
    ELSE PathSet(payload, path, Mask)

\* An object is told which fields it was asked for, found or not.
SanitizeNode(cfg, payload) ==
    LET listed[n \in 0..Len(cfg.fields)] ==
            IF n = 0 THEN payload ELSE SanitizeField(cfg, listed[n - 1], cfg.fields[n])
        last == listed[Len(cfg.fields)]
        clean == IF cfg.detectPatterns THEN ScanAndSanitize(last) ELSE last
    IN  Out(Emit("output", IF Is(clean, "object")
                           THEN With(clean, "_sanitized", Text(cfg.strategy)) ELSE clean))

JsonNode(cfg, payload) ==
    CASE cfg.action = "parse" ->
            IF Is(payload, "object") \/ Is(payload, "array") THEN PassNode(payload)
            ELSE IF Is(payload, "text") /\ payload.text \in DOMAIN Numerals
                 THEN PassNode(Number(Numerals[payload.text]))
            ELSE Out(Emit("error", payload))
      [] cfg.action = "stringify" -> PassNode(IF Is(payload, "text") THEN payload ELSE [json |-> payload])
      [] cfg.action = "extract" ->
            PassNode(IF cfg.property = <<>> THEN payload ELSE PathLookup(payload, cfg.property))
      [] OTHER -> Out(Emit("error", payload))

----------------------------------------------------------------------------
(* CSV: a text of it is the grid of its fields.                              *)

ParseField(s) ==
    CASE s = "" -> Null
      [] s \in {"true", "false"} -> Bool(s = "true")
      [] s \in DOMAIN Numerals -> Number(Numerals[s])
      [] OTHER -> Text(s)

\* A list or an object becomes a text of its own.
CsvField(v) ==
    CASE v \in {NoValue, Null} -> ""
      [] Is(v, "text") \/ Is(v, "number") \/ Is(v, "bool") -> Printed(v, "").text
      [] OTHER -> "json"

\* A record of no fields is written as one empty field.
Record(fields) == IF fields = <<>> THEN <<"">> ELSE fields

\* A record of another length than the first is an error; of two columns
\* under one header the last one counts.
CsvParse(cfg, payload) ==
    LET text == IF Is(payload, "grid") THEN payload ELSE FirstMember(payload, <<"text", "data", "body">>)
        header == text.grid[1]
        wanted == {h \in Range(header) : cfg.columns = <<>> \/ h \in Range(cfg.columns)}
        at(h) == CHOOSE i \in DOMAIN header :
                    header[i] = h /\ \A j \in DOMAIN header : header[j] = h => j <= i
        row(r) == IF cfg.hasHeaders THEN Object([h \in wanted |-> ParseField(r[at(h)])])
                  ELSE Array([i \in DOMAIN r |-> ParseField(r[i])])
        rows == IF cfg.hasHeaders THEN Tail(text.grid) ELSE text.grid
    IN  IF ~Is(text, "grid") THEN Fails
        ELSE IF text.grid = <<>> THEN Out(Emit("output", Object([rows |-> Array(<<>>)])))
        ELSE IF \E i \in DOMAIN text.grid : Len(text.grid[i]) # Len(header) THEN Fails
        ELSE Out(Emit("output", Object([rows |-> Array([i \in DOMAIN rows |-> row(rows[i])])])))

CsvList(payload) ==
    IF Is(payload, "array") THEN payload ELSE FirstMember(payload, <<"rows", "data", "results">>)

\* The columns are the first row's, unless they are configured; rows of
\* another kind than the first are left out.
CsvStringify(cfg, payload) ==
    LET found == CsvList(payload)
        items == found.array
        lists == Picked(items, {v \in ToSet(items) : Is(v, "array")})
        objects == Picked(items, {v \in ToSet(items) : Is(v, "object")})
        columns == IF cfg.columns # <<>> THEN cfg.columns ELSE SetToSeq(DOMAIN items[1].object)
        fields(list) == [i \in DOMAIN list |-> CsvField(list[i])]
        fieldsOf(v) == [i \in DOMAIN columns |-> CsvField(Member(v, columns[i]))]
    IN  IF ~Is(found, "array") THEN Fails
        ELSE IF items = <<>> THEN Out(Emit("output", [grid |-> <<>>]))
        ELSE IF cfg.columns = <<>> /\ ~Is(items[1], "object")
             THEN IF \E i \in DOMAIN lists : Len(lists[i].array) # Len(lists[1].array) THEN Fails
                  ELSE Out(Emit("output", [grid |-> [i \in DOMAIN lists |-> Record(fields(lists[i].array))]]))
        ELSE Out(Emit("output", [grid |-> <<Record(columns)>> \o
                                    [i \in DOMAIN objects |-> Record(fieldsOf(objects[i]))]]))

CsvNode(cfg, payload) ==
    CASE cfg.action = "parse" -> CsvParse(cfg, payload)
      [] cfg.action = "stringify" -> CsvStringify(cfg, payload)
      [] OTHER -> Out(Emit("error", Text(cfg.action)))

----------------------------------------------------------------------------
(* Splitting a text.  For the fixed strategies a text is the sequence of its *)
(* characters' widths in bytes, for the others the sequence of its           *)
(* sentences (or paragraphs), each a sequence of characters of one byte.     *)

Boundaries(text) == {Total(SubSeq(text, 1, i)) : i \in 0..Len(text)}

\* The next chunk starts `overlap` bytes before the end of this one: unless
\* that is further on, the end is never reached.  A chunk that cuts a
\* character is no text, and is left out.  A turn moves a byte at least.
FixedChunks(text, size, overlap) ==
    LET limit == Total(text)
        chunk(start, end) ==
            IF {start, end} \subseteq Boundaries(text) THEN << <<start, end>> >> ELSE <<>>
        turn[n \in 0..limit] ==
            IF n = 0 THEN [start |-> 0, over |-> FALSE, chunks |-> <<>>]
            ELSE LET t == turn[n - 1]
                     end == IF t.start + size < limit THEN t.start + size ELSE limit
                 IN  IF t.over THEN t
                     ELSE [start |-> IF end > overlap THEN end - overlap ELSE 0,
                           over |-> end = limit,
                           chunks |-> t.chunks \o chunk(t.start, end)]
    IN  turn[limit].chunks

\* A chunk starts with the first characters of the one before it.
PieceChunks(pieces, size, overlap) ==
    LET step(acc, piece) ==
            LET full == Len(acc.current) + Len(piece) + 1 > size /\ acc.current # <<>>
                head == SubSeq(acc.current, 1,
                            IF overlap < Len(acc.current) THEN overlap ELSE Len(acc.current))
                from == IF full THEN head ELSE acc.current
            IN  [chunks |-> IF full THEN Append(acc.chunks, acc.current) ELSE acc.chunks,
                 current |-> (IF from = <<>> THEN from ELSE Append(from, "space")) \o piece]
        all == FoldLeft(step, [chunks |-> <<>>, current |-> <<>>], pieces)
    IN  IF all.current = <<>> THEN all.chunks ELSE Append(all.chunks, all.current)

TextSplitterNode(cfg, text) ==
    LET unit == IF cfg.action = "tokens" THEN 4 ELSE 1
        size == unit * cfg.size
        overlap == unit * cfg.overlap
    IN  CASE text = <<>> -> Out(Emit("error", <<>>))
          [] text # <<>> /\ cfg.action \in {"sentences", "paragraphs"} ->
                Out(Emit("chunks", PieceChunks(text, cfg.size, cfg.overlap)))
          [] OTHER -> IF overlap >= size /\ size < Total(text) THEN Spins
                      ELSE Out(Emit("chunks", FixedChunks(text, size, overlap)))
=============================================================================
