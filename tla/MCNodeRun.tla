------------------------------- MODULE MCNodeRun -------------------------------
(***************************************************************************)
(* The tasks of the bounded instance: configurations and payloads by node.  *)
(***************************************************************************)
EXTENDS NodeRun, TLC

Txt(s) == Text(s)
MCNumerals == ("0" :> 0) @@ ("1" :> 1) @@ ("2" :> 2) @@ ("3" :> 3) @@ ("4" :> 4) @@ ("5" :> 5)
NoRule == [type |-> "eq", value |-> Null, port |-> "out1"]
Cfg == [property |-> <<"a">>, rules |-> <<NoRule>>, checkAll |-> FALSE, field |-> "a", size |-> 2,
        overlap |-> 0, action |-> "", groupBy |-> "", operation |-> "sum", mappings |-> <<>>,
        passThrough |-> TRUE, fields |-> <<>>, strategy |-> "mask", detectPatterns |-> FALSE,
        columns |-> <<>>, hasHeaders |-> TRUE, secret |-> "", events |-> {}, method |-> "GET",
        status |-> 200, template |-> <<>>, strict |-> TRUE]
Scalars == {Null, Txt(""), Txt("x"), Txt("1"), Txt("secret"), Number(0), Number(1), Bool(TRUE)}
Obj(v) == Object("a" :> v)
Rows == {Array(<<>>), Array(<<Obj(Number(1))>>),
         Array(<<Obj(Number(1)), Obj(Number(5)), Obj(Txt("1"))>>),
         Array(<<Obj(Txt("x")), Obj(Null), Empty>>),
         Array(<<Number(1), Number(2), Number(3), Number(4)>>),
         Array(<<Array(<<Number(1)>>), Array(<<Number(1), Txt("x")>>)>>),
         Array(<<Object(("a" :> Txt("x")) @@ ("b" :> Number(1))), Object(("a" :> Null) @@ ("b" :> Bool(TRUE)))>>)}
Deep == {Obj(Obj(Txt("secret"))), Obj(Array(<<Txt("secret"), Obj(Txt("x"))>>)), Array(<<Obj(Txt("secret"))>>)}
Values == {Obj(v) : v \in Scalars} \cup Rows \cup {Object("rows" :> r) : r \in Rows} \cup Deep \cup {Txt("x"), Txt("1"), Null}
Task1(node, changes, payloads) == {[node |-> node, cfg |-> c @@ Cfg, payload |-> p] : c \in changes, p \in payloads}
Rule(types, values) == {[type |-> t, value |-> v, port |-> "out1"] : t \in types, v \in values}
FieldPaths == {<<"a">>, <<"a", "a">>, <<"a", "0">>, <<"0", "a">>, <<"a", "a", "b">>}
Requests == {Object("req" :> Object(("headers" :> Object(h)) @@ ("body" :> b))) :
                h \in {<<>>, "signature" :> Txt("k"), "signature" :> Txt("x")},
                b \in {Obj(Null), Object("event" :> Txt("e1")), Object("type" :> Txt("e2"))}}
Types == {"eq", "neq", "gt", "lt", "gte", "lte", "contains", "empty", "notempty", "truthy", "falsy", "exists"}
Mappings == {<<>>} \cup {<<[from |-> f, to |-> t, default |-> d]>> : f \in FieldPaths, t \in FieldPaths, d \in {NoValue, Number(0)}}
               \cup {<<[from |-> <<"a">>, to |-> t, default |-> NoValue], [from |-> f, to |-> <<"a", "b">>, default |-> NoValue]>> : f \in FieldPaths, t \in FieldPaths}
Lists == Rows \cup {Object("rows" :> r) : r \in Rows}
CsvTexts == {[grid |-> g] : g \in {<<>>, << <<"a", "b">>, <<"1", "x">> >>, << <<"a", "a">>, <<"1", "x">>, <<"", "true">> >>, << <<"a">>, <<"1", "x">> >>}}
Chars == {<<>>, <<1, 1, 1, 1, 1>>, <<1, 2, 1, 2>>}
Pieces == {<<>>, << <<"a", "b">>, <<"c">>, <<"d", "e">> >>}
Holes == { <<"{", "a", "}">>, <<"x", "{", "a", "}", "{", "b", "}">>, <<"x">>, <<"{", "a">>, <<"x", "{", "c", "}">> }
FData == { ("a" :> v) @@ ("b" :> <<"y">>) : v \in {<<"1">>, NullText, <<"{", "b", "}">>, <<"{", "a", "}">>} }
Prompts == { << <<"word", "x">>, <<"var", "a">>, <<"var", "b">> >>, << <<"var", "c">> >> }
PData == { ("a" :> v) @@ ("b" :> << <<"word", "y">> >>) : v \in {<<>>, << <<"word", "z">> >>, << <<"var", "b">> >>} }
MCTask ==
    UNION {Task1(n, {<<>>}, {Txt("x")}) : n \in {"debug", "delay", "cron"}}
    \cup UNION {Task1(n, {"status" :> 200, "status" :> 65736}, Requests \cup {Txt("x"), Object("method" :> Txt("GET"))}) : n \in {"http-in", "webhook-trigger", "http-out"}}
    \cup Task1("webhook", {("secret" :> x) @@ ("events" :> e) : x \in {"", "k"}, e \in {{}, {"e1"}}}, Requests)
    \cup UNION {Task1(n, {"rules" :> <<r>> : r \in Rule(Types, {Null, Txt("x"), Number(1), Bool(TRUE)})}, {Obj(v) : v \in Scalars \cup {Array(<<Txt("x")>>)}} \cup {Null, Empty}) : n \in {"filter", "if-else"}}
    \cup Task1("switch", {("checkAll" :> b) @@ ("rules" :> <<r, [type |-> "eq", value |-> Txt("x"), port |-> p], [type |-> "truthy", value |-> Null, port |-> "default"]>>) : b \in BOOLEAN, p \in {"out2", "default"}, r \in Rule({"truthy", "contains", "gt"}, {Txt("x"), Number(0)})}, {Obj(v) : v \in Scalars})
    \cup Task1("loop", {"property" :> p : p \in {<<"">>, <<"rows">>, <<"a">>, <<"0">>}}, Lists \cup {Txt("x")})
    \cup Task1("batch", {("size" :> n) @@ ("field" :> f) : n \in 0..3, f \in {"", "a", "0"}}, Lists \cup {Object(("a" :> r) @@ ("rows" :> Array(<<Null>>))) : r \in Rows} \cup {Txt("x")})
    \cup Task1("aggregator", {("groupBy" :> g) @@ ("operation" :> o) : g \in {"", "a", "b"}, o \in {"sum", "other"}}, Lists \cup {Txt("x")})
    \cup Task1("mapper", {("mappings" :> m) @@ ("passThrough" :> b) : m \in Mappings, b \in BOOLEAN}, Deep \cup {Obj(Number(1)), Txt("x"), Null})
    \cup Task1("sanitize", {("fields" :> f) @@ ("strategy" :> x) @@ ("detectPatterns" :> b) : f \in {<<>>, <<<<"_sanitized">>>>} \cup {<<p>> : p \in FieldPaths} \cup {<<<<"a">>, p>> : p \in FieldPaths}, x \in {"mask", "remove"}, b \in BOOLEAN}, Deep \cup {Obj(Txt("secret")), Txt("secret")})
    \cup Task1("json", {("action" :> a) @@ ("property" :> p) : a \in {"parse", "stringify", "extract", "other"}, p \in {<<>>, <<"a">>}}, {Obj(Txt("x")), Txt("1"), Txt("x"), Null})
    \cup Task1("csv", {("action" :> a) @@ ("columns" :> c) @@ ("hasHeaders" :> b) : a \in {"parse", "stringify", "other"}, c \in {<<>>, <<"b">>}, b \in BOOLEAN}, Lists \cup CsvTexts \cup {Object("data" :> g) : g \in CsvTexts} \cup {Null})
    \cup Task1("text-splitter", {("action" :> a) @@ ("size" :> n) @@ ("overlap" :> o) : a \in {"fixed", "tokens"}, n \in 0..3, o \in 0..3}, Chars)
    \cup Task1("text-splitter", {("action" :> a) @@ ("size" :> n) @@ ("overlap" :> o) : a \in {"sentences", "paragraphs"}, n \in 0..4, o \in 0..2}, Pieces)
    \cup Task1("function", {"template" :> t : t \in Holes}, FData)
    \cup Task1("prompt-template", {("template" :> t) @@ ("strict" :> b) : t \in Prompts, b \in BOOLEAN}, PData)
MCPayloads == {t.payload : t \in {u \in MCTask : u.node \in OfJson}}
MCJson == {Null} \cup UNION {UNION {Levels(v)[n] : n \in 0..MaxDepth} : v \in MCPayloads}
=============================================================================
