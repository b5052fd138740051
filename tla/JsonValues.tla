----------------------------- MODULE JsonValues -----------------------------
(***************************************************************************)
(* Payloads as the nodes see them, and what the nodes' helpers do with them.*)
(* A value has one field, which names its kind: comparing two of them never *)
(* compares a number with a text.  A path is the sequence of its segments,  *)
(* of which it has one at least.                                            *)
(***************************************************************************)
EXTENDS Lists, Functions

CONSTANTS Json,         \* the values that come in, with all they are made of
          Numerals      \* what a text is as a number

Null == [null |-> TRUE]
Text(s) == [text |-> s]
Number(n) == [number |-> n]
Bool(b) == [bool |-> b]
Array(s) == [array |-> s]
Object(f) == [object |-> f]
Is(v, kind) == DOMAIN v = {kind}

\* The None of an Option<Value>; no payload holds it.
NoValue == [novalue |-> TRUE]

Empty == Object(<<>>)

\* Every number has a text that is read as it again; what stands for nothing
\* or for a boolean is no number.  A grid is a text of CSV.
ASSUME JsonAssumption ==
    /\ \A s \in DOMAIN Numerals : Numerals[s] \in Int /\ s \notin {"", "true", "false"}
    /\ \A v \in Json :
        /\ \E kind \in DOMAIN v :
                /\ kind \in {"null", "text", "number", "bool", "array", "object", "grid"}
                /\ v = [k \in {kind} |-> v[kind]]
        /\ Is(v, "null") => v = Null
        /\ Is(v, "bool") => v.bool \in BOOLEAN
        /\ Is(v, "number") => v.number \in Range(Numerals)
        /\ Is(v, "array") => v.array \in Seq(Json)
        /\ Is(v, "object") => v.object \in [DOMAIN v.object -> Json] /\ IsFiniteSet(DOMAIN v.object)

----------------------------------------------------------------------------
(* Paths.                                                                   *)

Member(v, key) == IF Is(v, "object") /\ key \in DOMAIN v.object THEN v.object[key] ELSE NoValue

\* A segment that is a number is an index into an array.
Field(v, segment) ==
    IF Is(v, "array") /\ segment \in DOMAIN Numerals /\ Numerals[segment] + 1 \in DOMAIN v.array
    THEN v.array[Numerals[segment] + 1]
    ELSE Member(v, segment)

\* What is there after each segment.
Along(v, path) ==
    LET at[n \in 0..Len(path)] == IF n = 0 THEN v ELSE Field(at[n - 1], path[n]) IN at

PathGet(v, path) == Along(v, path)[Len(path)]

PathLookup(v, path) ==
    LET found == PathGet(v, path) IN IF found = NoValue THEN Null ELSE found

With(v, key, new) ==
    Object([k \in DOMAIN v.object \cup {key} |-> IF k = key THEN new ELSE v.object[k]])
Lacking(v, key) == Object([k \in DOMAIN v.object \ {key} |-> v.object[k]])

\* The objects on the way to the last segment, the last of them as `inner`:
\* each holds the next one.
Rebuilt(on, path, inner) ==
    LET made[n \in 0..Len(path) - 1] ==
            IF n = 0 THEN inner ELSE With(on[Len(path) - n], path[Len(path) - n], made[n - 1])
    IN  made[Len(path) - 1]

\* What is no object on the way becomes one, an array too; what is no object
\* at the start is left alone.
PathSet(v, path, new) ==
    LET on[n \in 1..Len(path)] ==
            IF n = 1 THEN v
            ELSE LET under == Member(on[n - 1], path[n - 1]) IN IF Is(under, "object") THEN under ELSE Empty
    IN  IF Is(v, "object") THEN Rebuilt(on, path, With(on[Len(path)], path[Len(path)], new)) ELSE v

\* Only objects are walked: nothing is removed behind an array.
PathRemove(v, path) ==
    LET on == [n \in 1..Len(path) |-> Along(v, path)[n - 1]]
    IN  IF \A n \in DOMAIN on : Is(on[n], "object")
        THEN Rebuilt(on, path, Lacking(on[Len(path)], path[Len(path)])) ELSE v

----------------------------------------------------------------------------
(* Finding a text or an array in a payload.                                  *)

FirstText(v, fields) ==
    LET found == Picked(fields, {f \in ToSet(fields) :
                    Is(Member(v, f), "text") /\ Member(v, f) # Text("")})
    IN  IF found = <<>> THEN "" ELSE Member(v, found[1]).text

ExtractText(payload, fields) ==
    LET body == PathGet(payload, <<"req", "body">>)
        top == FirstText(payload, fields)
        inBody == FirstText(body, fields)
    IN  CASE Is(payload, "text") -> payload.text
          [] ~Is(payload, "text") /\ top # "" -> top
          [] ~Is(payload, "text") /\ top = "" /\ inBody # "" -> inBody
          [] OTHER -> IF Is(body, "text") THEN body.text ELSE ""

\* The first of the fields that is there, whatever it is.
FirstMember(v, fields) ==
    LET found == Picked(fields, {f \in ToSet(fields) : Member(v, f) # NoValue})
    IN  IF found = <<>> THEN NoValue ELSE Member(v, found[1])

ExtractArray(payload) ==
    LET fields == <<"rows", "data", "results", "items">>
        found == Picked(fields, {f \in ToSet(fields) : Is(Member(payload, f), "array")})
    IN  CASE Is(payload, "array") -> payload
          [] ~Is(payload, "array") /\ found # <<>> -> Member(payload, found[1])
          [] OTHER -> NoValue

----------------------------------------------------------------------------
(* Everything in a value, level by level.                                    *)

\* A named bound: no value is nested deeper.
CONSTANT MaxDepth
ASSUME DepthAssumption == MaxDepth \in Nat

Children(v) ==
    CASE Is(v, "object") -> {v.object[k] : k \in DOMAIN v.object}
      [] Is(v, "array") -> {v.array[i] : i \in DOMAIN v.array}
      [] OTHER -> {}

Levels(v) ==
    LET level[n \in 0..MaxDepth] ==
            IF n = 0 THEN {v} ELSE UNION {Children(x) : x \in level[n - 1]}
    IN  level
=============================================================================
