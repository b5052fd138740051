----------------------------- MODULE LanceTables -----------------------------
(***************************************************************************)
(* The registry of published tables and the report nodes over it.  Flows    *)
(* carry handles only.  A table published anew has a greater generation: the*)
(* publisher, outside this repository, sees to that.  What a report folds   *)
(* from a table is represented by the generation of the table it read.      *)
(***************************************************************************)
EXTENDS Integers, Sequences, FiniteSets

CONSTANTS Source,           \* table ids
          Report,           \* executions of a report flow
          MaxPublished      \* publications of an instance

ASSUME LanceAssumption == MaxPublished \in Nat

VARIABLES sources,      \* by id: the generation published last, 0 before
          named,        \* the id that the one name of this instance stands for, or 0
          plans, results, \* by handle
          cache,        \* by physical key: source, generation and shape
          next,         \* the next handle
          reports,      \* by report: the next node, and what it works with
          exported     \* the last export: its source, its data, what was current then
lanceVars == <<sources, named, plans, results, cache, next, reports, exported>>

Pipeline == <<"source", "filter", "execute", "lookup", "fold", "insert", "result", "rotate", "materialize">>
NoEnvelope == [handle |-> 0, source |-> 0, generation |-> 0]
Begin == [node |-> "source", id |-> 0, envelope |-> NoEnvelope, plan |-> 0, data |-> 0]
Nothing == [source |-> 0, data |-> 0, current |-> 0]

LanceTypeOK ==
    /\ sources \in [Source -> 0..MaxPublished] /\ named \in Source \cup {0}
    /\ DOMAIN plans \cap DOMAIN results = {} /\ DOMAIN plans \cup DOMAIN results = 1..next - 1
    /\ \A r \in Report : reports[r].node \in {Pipeline[i] : i \in DOMAIN Pipeline} \cup {"new", "done"}

LanceInit ==
    /\ sources = [s \in Source |-> 0] /\ named = 0
    /\ plans = <<>> /\ results = <<>> /\ cache = <<>> /\ next = 1
    /\ reports = [r \in Report |-> [Begin EXCEPT !.node = "new"]]
    /\ exported = Nothing

PhysicalKey(plan) == <<plan.source, plan.generation, plan.shape>>
Greatest(S) == CHOOSE x \in S : \A y \in S : y <= x

----------------------------------------------------------------------------
\* publish: the cached results of the id go.
Publish(s) ==
    LET generation == Greatest({sources[x] : x \in Source}) + 1
    IN  /\ generation <= MaxPublished
        /\ named' = s /\ sources' = [sources EXCEPT ![s] = generation]
        /\ cache' = [k \in {k \in DOMAIN cache : k[1] # s} |-> cache[k]]
        /\ UNCHANGED <<plans, results, next, reports, exported>>

\* Faulty: a handle is good as long as its table is there.
CheckExists(e) == sources[e.source] # 0

\* check: a handle of an older generation is refused.
CheckHandle(e) == sources[e.source] = e.generation

At(r, node) == reports[r].node = node
Advance(r, to) == reports' = [reports EXCEPT ![r] = to]
Ends(r) == Advance(r, [Begin EXCEPT !.node = "done"])
Envelope(source, generation) == [handle |-> next, source |-> source, generation |-> generation]

\* A map with the value of one key put in or replaced.
Inserted(table, key, value) ==
    [k \in DOMAIN table \cup {key} |-> IF k = key THEN value ELSE table[k]]

PutPlan(plan) ==
    plans' = Inserted(plans, next, plan) /\ next' = next + 1 /\ UNCHANGED results
PutResult(data) ==
    results' = Inserted(results, next, data) /\ next' = next + 1 /\ UNCHANGED plans

\* A node resolves the name when it is created, the table when it runs.
CreateSource(r) ==
    /\ At(r, "new")
    /\ IF named = 0 THEN Ends(r) ELSE Advance(r, [Begin EXCEPT !.id = named])
    /\ UNCHANGED <<sources, named, plans, results, cache, next, exported>>

SourceNode(r) ==
    LET s == reports[r].id
    IN  /\ At(r, "source")
        /\ PutPlan([source |-> s, generation |-> sources[s], shape |-> "all"])
        /\ Advance(r, [reports[r] EXCEPT !.node = "filter", !.envelope = Envelope(s, sources[s])])
        /\ UNCHANGED <<sources, named, cache, exported>>

\* filter, axis, measure, pivot, rotate and top-k of a plan; some are roles
\* only and leave the physical key as it is.
RefinePlan(r) ==
    LET e == reports[r].envelope
    IN  /\ At(r, "filter")
        /\ IF ~CheckHandle(e) THEN Ends(r) /\ UNCHANGED <<plans, results, next>>
           ELSE \E shape \in {"all", "some"} :
                /\ PutPlan([plans[e.handle] EXCEPT !.shape = shape])
                /\ Advance(r, [reports[r] EXCEPT !.node = "execute", !.envelope = Envelope(e.source, e.generation)])
        /\ UNCHANGED <<sources, named, cache, exported>>

\* execute: the plan, the cache, the batch and the cache again, each under a
\* lock of its own.
ResolvePlan(r) ==
    /\ At(r, "execute")
    /\ IF ~CheckHandle(reports[r].envelope) THEN Ends(r)
       ELSE Advance(r, [reports[r] EXCEPT !.node = "lookup", !.plan = reports[r].envelope.handle])
    /\ UNCHANGED <<sources, named, plans, results, cache, next, exported>>

LookUpCache(r) ==
    LET key == PhysicalKey(plans[reports[r].plan])
    IN  /\ At(r, "lookup")
        /\ Advance(r, IF key \in DOMAIN cache
                   THEN [reports[r] EXCEPT !.node = "result", !.data = cache[key]]
                   ELSE [reports[r] EXCEPT !.node = "fold"])
        /\ UNCHANGED <<sources, named, plans, results, cache, next, exported>>

FoldBatch(r) ==
    /\ At(r, "fold")
    /\ Advance(r, [reports[r] EXCEPT !.node = "insert", !.data = sources[plans[reports[r].plan].source]])
    /\ UNCHANGED <<sources, named, plans, results, cache, next, exported>>

InsertResult(r) ==
    /\ At(r, "insert")
    /\ cache' = Inserted(cache, PhysicalKey(plans[reports[r].plan]), reports[r].data)
    /\ Advance(r, [reports[r] EXCEPT !.node = "result"])
    /\ UNCHANGED <<sources, named, plans, results, next, exported>>

PutExecuted(r) ==
    LET plan == plans[reports[r].plan]
    IN  /\ At(r, "result")
        /\ PutResult(reports[r].data)
        /\ Advance(r, [reports[r] EXCEPT !.node = "rotate", !.envelope = Envelope(plan.source, plan.generation)])
        /\ UNCHANGED <<sources, named, cache, exported>>

\* pivot, rotate and top-k of a result: another view of the same data.
ReviewResult(r) ==
    LET e == reports[r].envelope
    IN  /\ At(r, "rotate")
        /\ IF ~CheckHandle(e) THEN Ends(r) /\ UNCHANGED <<plans, results, next>>
           ELSE /\ PutResult(results[e.handle])
                /\ Advance(r, [reports[r] EXCEPT !.node = "materialize", !.envelope = Envelope(e.source, e.generation)])
        /\ UNCHANGED <<sources, named, cache, exported>>

Materialize(r) ==
    LET e == reports[r].envelope
    IN  /\ At(r, "materialize")
        /\ Ends(r)
        /\ exported' = IF ~CheckHandle(e) THEN Nothing
                        ELSE [source |-> e.source, data |-> results[e.handle], current |-> sources[e.source]]
        /\ UNCHANGED <<sources, named, plans, results, cache, next>>

LanceNext ==
    \/ \E s \in Source : Publish(s)
    \/ \E r \in Report :
        \/ CreateSource(r) \/ SourceNode(r) \/ RefinePlan(r) \/ ResolvePlan(r) \/ LookUpCache(r)
        \/ FoldBatch(r) \/ InsertResult(r) \/ PutExecuted(r) \/ ReviewResult(r) \/ Materialize(r)

----------------------------------------------------------------------------
\* What is exported was folded from the table as it was published last when
\* the export was made, though a fold of the new table may have been put into
\* the cache under the key of the old one, after publish had cleared it: no
\* plan of the old generation can be looked up any more.
FreshTables ==
    /\ exported.data = exported.current
    /\ \A k \in DOMAIN cache : sources[k[1]] = k[2] => cache[k] = k[2]
=============================================================================
