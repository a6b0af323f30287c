------------------------------- MODULE ReadModel -------------------------------
(***************************************************************************)
(* The read model of a Run (troupe-diagnostics-runtime: store/projector,   *)
(* store/writer.rs, query/snapshot.rs).  The store writer folds every      *)
(* accepted event into one snapshot and replaces the materialized tables   *)
(* in the transaction that appends the events; queries read the tables.    *)
(*                                                                         *)
(* The six token fields are one value; the error codes of a projector are  *)
(* one refusal.  JSON and SQL encodings are left out: a stored snapshot is *)
(* the model it encodes.                                                   *)
(***************************************************************************)
EXTENDS EventReferences, SequencesExt

CONSTANT MaxBatch   \* events the writer takes into one transaction

VARIABLES store,    \* the database: committed state of run_metadata and the tables
          writer    \* TransactionalWriter

Projectors == {"spans", "messages", "plans", "counters", "usage"}
NoSum == -1
EmptyAggregate == [finalized |-> 0, reported |-> 0, available |-> 0, partial |-> 0,
                   unavailable |-> 0, known |-> NoSum]

EmptySnapshot ==
    [through |-> [p \in Projectors |-> 0], elapsed |-> 0, spans |-> <<>>, messages |-> <<>>,
     plans |-> <<>>, counters |-> <<>>, contexts |-> <<>>, usages |-> <<>>,
     aggregate |-> EmptyAggregate, scoped |-> <<>>, gaps |-> <<>>, truncations |-> <<>>]

ReadInit ==
    /\ RefInit
    /\ store = [committed |-> 0, read_model |-> 0, snapshot |-> EmptySnapshot, clean |-> FALSE]
    /\ writer = [at |-> "ready", model |-> EmptySnapshot, watermark |-> 0,
                 candidate |-> EmptySnapshot, through |-> 0]

\* The element that satisfies the test is replaced; if there is none, the new
\* one is appended (Vec::find and push).
Upsert(s, Test(_), x) ==
    LET i == SelectInSeq(s, Test) IN IF i = 0 THEN Append(s, x) ELSE ReplaceAt(s, i, x)

Has(s, Test(_)) == SelectInSeq(s, Test) # 0
Find(s, Test(_)) == s[SelectInSeq(s, Test)]

(***************************************************************************)
(* The five projectors: when an event applies, and the model it leaves.    *)
(***************************************************************************)
ProjectedSpan(e, seq) ==
    [id |-> seq, started_at |-> e.at, scope |-> e.scope, parent |-> e.span,
     caused_by |-> e.caused_by, finish |-> None, finished_at |-> None]

SpanCompletion(span, e, seq) == [span EXCEPT !.finish = seq, !.finished_at = e.at]

project_spans(held, e, seq) ==
    CASE e.kind = "start"  -> Append(held, ProjectedSpan(e, seq))
      [] e.kind = "finish" ->
           LET i == SelectInSeq(held, LAMBDA s : s.id = e.span)
           IN ReplaceAt(held, i, SpanCompletion(held[i], e, seq))
      [] OTHER -> held

NewMessage(e, seq) ==
    [id |-> e.detail.name, scope |-> e.scope, first |-> seq, latest |-> seq, text |-> <<>>,
     completion |-> None, truncated |-> FALSE]

\* An open message of the same scope takes a delta or its one completion.
MessageApplies(held, e) ==
    LET Same(m) == m.id = e.detail.name IN
    e.kind \in {"delta", "completed"} /\ Has(held, Same) =>
       Find(held, Same).scope = e.scope /\ Find(held, Same).completion = None

apply_delta(m, e, seq) == [m EXCEPT !.text = Append(@, e.detail.value), !.latest = seq]

apply_completion(m, e, seq) ==
    [m EXCEPT !.completion = seq, !.latest = seq, !.truncated = e.detail.tag = "truncated"]

project_messages(held, e, seq) ==
    LET Same(m) == m.id = e.detail.name
        old == IF Has(held, Same) THEN Find(held, Same) ELSE NewMessage(e, seq) IN
    CASE e.kind = "delta"     -> Upsert(held, Same, apply_delta(old, e, seq))
      [] e.kind = "completed" -> Upsert(held, Same, apply_completion(old, e, seq))
      [] OTHER -> held

\* One Act has its plan under one scope.
PlanApplies(held, e) ==
    e.kind = "plan" /\ "act" \in DOMAIN e.scope =>
       ~Has(held, LAMBDA p : /\ "act" \in DOMAIN p.scope /\ p.scope["act"] = e.scope["act"]
                             /\ p.scope # e.scope)

project_plans(held, e, seq) ==
    IF e.kind # "plan" THEN held
    ELSE Upsert(held, LAMBDA p : p.scope = e.scope,
                [scope |-> e.scope, sequence |-> seq, entries |-> e.detail.value,
                 truncated |-> e.detail.tag = "truncated"])

\* A series keeps the kind of number of its first sample.
CounterApplies(held, e) ==
    LET Same(c) == c.series = <<e.scope, e.detail.name>> IN
    e.kind = "counter" /\ Has(held, Same) => Find(held, Same).tag = e.detail.tag

ProjectedCounter(e, seq) ==
    [series |-> <<e.scope, e.detail.name>>, sequence |-> seq, value |-> e.detail.value,
     tag |-> e.detail.tag]

project_counters(held, e, seq) ==
    IF e.kind # "counter" THEN held
    ELSE Upsert(held, LAMBDA c : c.series = <<e.scope, e.detail.name>>, ProjectedCounter(e, seq))

project_contexts(held, e, seq) ==
    IF e.kind # "context" THEN held
    ELSE Append(SelectSeq(held, LAMBDA c : c.scope # e.scope),
                [scope |-> e.scope, sequence |-> seq, value |-> e.detail.value])

\* An Act's usage is finalized once, under a scope that names the Act.
UsageApplies(held, e) ==
    e.kind = "usage" =>
       /\ "act" \in DOMAIN e.scope
       /\ ~Has(held, LAMBDA u : u.scope["act"] = e.scope["act"])

ProjectedActUsage(e, seq) ==
    [scope |-> e.scope, sequence |-> seq, availability |-> e.detail.tag, value |-> e.detail.value]

record_aggregate(a, e) ==
    LET known == e.detail.tag # "unavailable" IN
    [a EXCEPT !.finalized = @ + 1,
              !.reported = IF known THEN @ + 1 ELSE @,
              !.available = IF e.detail.tag = "available" THEN @ + 1 ELSE @,
              !.partial = IF e.detail.tag = "partial" THEN @ + 1 ELSE @,
              !.unavailable = IF known THEN @ ELSE @ + 1,
              !.known = IF ~known THEN @ ELSE IF @ = NoSum THEN e.detail.value
                        ELSE @ + e.detail.value]

\* The scene's aggregate and the Actor's within the scene, in this order.
record_scoped_aggregate(held, scope, e) ==
    LET Same(a) == a.scope = scope
        old == IF Has(held, Same) THEN Find(held, Same).aggregate ELSE EmptyAggregate
    IN Upsert(held, Same, [scope |-> scope, aggregate |-> record_aggregate(old, e)])

\* Variant: the Actor's aggregate starts from the scene's.
record_actor_over_scene(held, e) ==
    IF "scene" \notin DOMAIN e.scope THEN held
    ELSE LET scene == [f \in {"scene"} |-> e.scope["scene"]]
             after == record_scoped_aggregate(held, scene, e)
         IN IF "actor" \in DOMAIN e.scope THEN record_scoped_aggregate(after, scene, e) ELSE after

record_scoped_aggregates(held, e) ==
    IF "scene" \notin DOMAIN e.scope THEN held
    ELSE LET scene == [f \in {"scene"} |-> e.scope["scene"]]
             actor == [f \in {"scene", "actor"} |-> e.scope[f]]
             after == record_scoped_aggregate(held, scene, e)
         IN IF "actor" \in DOMAIN e.scope THEN record_scoped_aggregate(after, actor, e) ELSE after

collect_truncations(messages, plans) ==
    LET cut == {<<m.completion, m.scope>> : m \in {x \in ToSet(messages) : x.truncated}}
                 \cup {<<p.sequence, p.scope>> : p \in {x \in ToSet(plans) : x.truncated}}
    IN SetToSortSeq(cut, LAMBDA a, b : a[1] < b[1])

(***************************************************************************)
(* The snapshot projector applies all five or none.                        *)
(***************************************************************************)
\* Each projector must stand right before the event.
validate_position(m, seq) == \A p \in Projectors : m.through[p] + 1 = seq

Applies(m, e, seq) ==
    /\ validate_position(m, seq)
    /\ MessageApplies(m.messages, e) /\ PlanApplies(m.plans, e)
    /\ CounterApplies(m.counters, e) /\ UsageApplies(m.usages, e)

Applied(m, e, seq) ==
    LET messages == project_messages(m.messages, e, seq)
        plans == project_plans(m.plans, e, seq)
        usage == e.kind = "usage" IN
    [through |-> [p \in Projectors |-> seq],
     elapsed |-> IF e.at > m.elapsed THEN e.at ELSE m.elapsed,
     spans |-> project_spans(m.spans, e, seq), messages |-> messages, plans |-> plans,
     counters |-> project_counters(m.counters, e, seq),
     contexts |-> project_contexts(m.contexts, e, seq),
     usages |-> IF usage THEN Append(m.usages, ProjectedActUsage(e, seq)) ELSE m.usages,
     aggregate |-> IF usage THEN record_aggregate(m.aggregate, e) ELSE m.aggregate,
     scoped |-> IF usage THEN record_scoped_aggregates(m.scoped, e) ELSE m.scoped,
     gaps |-> IF e.kind = "gap" THEN Append(m.gaps, seq) ELSE m.gaps,
     truncations |-> collect_truncations(messages, plans)]

(***************************************************************************)
(* The writer.                                                             *)
(***************************************************************************)
\* Every projection error refuses the batch, every writer error ends the writer.
Refused(w) == [w EXCEPT !.at = "refused", !.candidate = EmptySnapshot]
WriterFails(w) == [w EXCEPT !.at = "failed", !.candidate = EmptySnapshot]

\* commit_batch starts from a clone of the projector and applies the events of
\* the batch one by one; nothing is written while it does.
TakeBatch ==
    /\ writer.at = "ready" /\ writer.watermark < Len(log)
    /\ \E n \in 1 .. MaxBatch :
         /\ writer.watermark + n <= Len(log)
         /\ writer' = [writer EXCEPT !.at = "project", !.candidate = writer.model,
                          !.through = writer.watermark + n]
    /\ UNCHANGED <<log, spans, store>>

ProjectEvent ==
    /\ writer.at = "project"
    /\ LET seq == writer.candidate.through["spans"] + 1 IN
         /\ seq <= writer.through
         /\ \E next \in {IF Applies(writer.candidate, log[seq], seq)
                         THEN Applied(writer.candidate, log[seq], seq) ELSE EmptySnapshot} :
              writer' = IF next = EmptySnapshot
                        THEN Refused(writer)
                        ELSE [writer EXCEPT !.candidate = next,
                                 !.at = IF seq = writer.through THEN "transaction" ELSE @]
    /\ UNCHANGED <<log, spans, store>>

replace_all(s, w) == [s EXCEPT !.snapshot = w.candidate]
advance_persisted_watermarks(s, w) ==
    [s EXCEPT !.committed = w.through, !.read_model = w.through]

\* One transaction appends the events, replaces the tables and moves both
\* watermarks; a failing statement or commit leaves the database as it was.
Transaction ==
    /\ writer.at = "transaction"
    /\ \/ /\ store' = advance_persisted_watermarks(replace_all(store, writer), writer)
          /\ writer' = [writer EXCEPT !.at = "validate"]
       \/ /\ writer' = WriterFails(writer)
          /\ UNCHANGED store
    /\ UNCHANGED <<log, spans>>

\* The metadata read back must show the commit; only then the writer moves on.
refresh_metadata_after_commit ==
    /\ writer.at = "validate"
    /\ \/ writer' = [at |-> "ready", model |-> writer.candidate, watermark |-> writer.through,
                     candidate |-> EmptySnapshot, through |-> 0]
       \/ writer' = WriterFails(writer)
    /\ UNCHANGED <<log, spans, store>>

\* The last transaction marks the archive complete if its watermarks are the writer's.
finalize_run ==
    /\ writer.at = "ready"
    /\ IF ~store.clean /\ store.committed = writer.watermark /\ store.read_model = writer.watermark
       THEN \/ store' = [store EXCEPT !.clean = TRUE] /\ writer' = [writer EXCEPT !.at = "final"]
            \/ writer' = WriterFails(writer) /\ UNCHANGED store
       ELSE writer' = WriterFails(writer) /\ UNCHANGED store
    /\ UNCHANGED <<log, spans>>

WriterNext ==
    TakeBatch \/ ProjectEvent \/ Transaction \/ refresh_metadata_after_commit \/ finalize_run

(***************************************************************************)
(* Queries.                                                                *)
(***************************************************************************)
validate_model(m, watermark) == \A p \in Projectors : m.through[p] = watermark

\* project_snapshot: whether a query gets an answer in this state.
QueryAnswers ==
    /\ store.read_model <= store.committed
    /\ validate_model(store.snapshot, store.read_model)

(***************************************************************************)
(* The reference: the snapshot of a prefix, said directly of its events.   *)
(***************************************************************************)
Prefix(n, kinds) == {i \in 1 .. n : log[i].kind \in kinds}
Latest(S) == CHOOSE i \in S : \A j \in S : j <= i
Earliest(S) == CHOOSE i \in S : \A j \in S : i <= j

\* One entry per key, in the order of the keys' first events (or last ones).
Keys(n, kinds, Key(_)) == {Key(i) : i \in Prefix(n, kinds)}
InOrder(n, kinds, Key(_), Of(_)) ==
    SetToSortSeq({Of({i \in Prefix(n, kinds) : Key(i) = k}) : k \in Keys(n, kinds, Key)}, <)

SumUsage(S) ==
    LET known == {i \in S : log[i].detail.tag # "unavailable"}
        With(t) == Cardinality({i \in S : log[i].detail.tag = t}) IN
    [finalized |-> Cardinality(S), reported |-> Cardinality(known), available |-> With("available"),
     partial |-> With("partial"), unavailable |-> With("unavailable"),
     known |-> IF known = {} THEN NoSum ELSE MapThenSumSet(LAMBDA i : log[i].detail.value, known)]

MessageOf(i, n) ==
    LET mine == {j \in Prefix(n, {"delta", "completed"}) : log[j].detail.name = log[i].detail.name}
        deltas == SetToSortSeq({j \in mine : log[j].kind = "delta"}, <)
        done == {j \in mine : log[j].kind = "completed"} IN
    [id |-> log[i].detail.name, scope |-> log[i].scope, first |-> i, latest |-> Latest(mine),
     text |-> [k \in 1 .. Len(deltas) |-> log[deltas[k]].detail.value],
     completion |-> IF done = {} THEN None ELSE Latest(done),
     truncated |-> \E j \in done : log[j].detail.tag = "truncated"]

SpanOf(i, n) ==
    LET ends == {j \in Prefix(n, {"finish"}) : log[j].span = i} IN
    [id |-> i, started_at |-> log[i].at, scope |-> log[i].scope, parent |-> log[i].span,
     caused_by |-> log[i].caused_by, finish |-> IF ends = {} THEN None ELSE Latest(ends),
     finished_at |-> IF ends = {} THEN None ELSE log[Latest(ends)].at]

\* The same projection of the i-th event of a list of event indices.
Each(s, Entry(_)) == [k \in 1 .. Len(s) |-> Entry(s[k])]

\* The snapshot holds exactly what the committed events say, whatever the batches
\* were and wherever the writer stopped: every span with its end, every message
\* with all its text, the latest plan, counter and context of each scope, and
\* usage sums that count each Act once (SnapshotProjector, commit_batch).
SnapshotIsExact ==
    LET n == store.committed  m == store.snapshot
        ScopeOf(i) == log[i].scope
        NameOf(i) == log[i].detail.name
        SeriesOf(i) == <<log[i].scope, log[i].detail.name>>
        LastOf(i, kinds, Key(_)) == Latest({j \in Prefix(n, kinds) : Key(j) = Key(i)}) IN
    /\ store.read_model = n /\ QueryAnswers
    /\ m.elapsed = (IF n = 0 THEN 0 ELSE CHOOSE t \in {log[i].at : i \in 1 .. n} :
                                            \A i \in 1 .. n : log[i].at <= t)
    /\ m.spans = Each(SetToSortSeq(Prefix(n, {"start"}), <), LAMBDA i : SpanOf(i, n))
    /\ m.messages = Each(InOrder(n, {"delta", "completed"}, NameOf, Earliest), LAMBDA i : MessageOf(i, n))
    /\ Each(m.plans, LAMBDA p : p.sequence)
         = Each(InOrder(n, {"plan"}, ScopeOf, Earliest), LAMBDA i : LastOf(i, {"plan"}, ScopeOf))
    /\ Each(m.counters, LAMBDA c : c.sequence)
         = Each(InOrder(n, {"counter"}, SeriesOf, Earliest), LAMBDA i : LastOf(i, {"counter"}, SeriesOf))
    /\ Each(m.contexts, LAMBDA c : c.sequence) = InOrder(n, {"context"}, ScopeOf, Latest)
    /\ m.aggregate = SumUsage(Prefix(n, {"usage"}))
    /\ \A k \in 1 .. Len(m.scoped) :
          m.scoped[k].aggregate
            = SumUsage({i \in Prefix(n, {"usage"}) : scope_contains(m.scoped[k].scope, log[i].scope)})
    /\ m.gaps = SetToSortSeq(Prefix(n, {"gap"}), <)
    /\ store.clean => writer.at = "final" /\ writer.watermark = n
===============================================================================
