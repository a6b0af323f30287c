---------------------------- MODULE TraceProjection ----------------------------
(***************************************************************************)
(* The projection of a captured event prefix into a Perfetto trace         *)
(* (troupe-diagnostics-perfetto: collect.rs, tracks.rs, identity.rs,       *)
(* project.rs and the two scans of dump.rs).                               *)
(*                                                                         *)
(* The first scan collects tracks, span intervals, flows and usage, and    *)
(* fixes every identity before a byte is written; the second scan emits    *)
(* the packets of each event against that plan.  A track is the path of    *)
(* its segments from the root.  Names and annotations are left out: a      *)
(* track's name and kind are functions of its path.                        *)
(***************************************************************************)
EXTENDS EventReferences, SequencesExt

CONSTANTS MaxTime,     \* i64::MAX nanoseconds
          MaxExact,    \* the largest value a counter packet holds exactly
          MaxEntries   \* entries of the structural index (StructuralIndexLimits)

VARIABLE export  \* the dump in progress

ScopeFields == <<"scene", "actor", "cue", "effect", "act", "tool", "session">>
UsageCoverage == {"finalized", "reported", "available", "partial", "unavailable"}

root == <<>>
metadata_track == <<<<"metadata", 1>>>>

NoPlan == [lane |-> <<>>, tracks |-> {}, flows |-> {}]
NewCollector == [refs |-> [s \in {} |-> None], tracks |-> {root, metadata_track},
                 intervals |-> [s \in {} |-> None], flows |-> {}, act_usage |-> {},
                 reserved |-> 2]
NewProjector == [known |-> 0, coverage |-> [c \in UsageCoverage |-> 0]]

TraceInit ==
    /\ RefInit
    /\ export = [at |-> "idle", through |-> 0, next |-> 1, collector |-> NewCollector,
                 plan |-> NoPlan, projector |-> NewProjector, packets |-> <<>>]

(***************************************************************************)
(* Tracks.                                                                 *)
(***************************************************************************)
scope_track_identity(scope) ==
    LET fixed == SelectSeq(ScopeFields, LAMBDA f : f \in DOMAIN scope)
    IN [i \in 1 .. Len(fixed) |-> <<fixed[i], scope[fixed[i]]>>]

counter_track_identity(parent, series) == Append(parent, <<"counter", series>>)

\* register_scope registers every prefix of the path, the parents first.
register_scope(scope) ==
    LET path == scope_track_identity(scope) IN {SubSeq(path, 1, n) : n \in 0 .. Len(path)}

ContextSeries(e) == IF e.detail.tag = "full" THEN {"used", "window", "cost"} ELSE {"cost"}

\* The counter tracks an event needs (collect_event_tracks).
register_counters(e) ==
    LET parent == scope_track_identity(e.scope) IN
    CASE e.kind = "counter" -> {counter_track_identity(parent, e.detail.name)}
      [] e.kind = "context" -> {counter_track_identity(parent, s) : s \in ContextSeries(e)}
      [] e.kind = "usage"   -> {counter_track_identity(root, s) : s \in
                                  UsageCoverage \cup IF e.detail.tag = "unavailable" THEN {} ELSE {"known"}}
      [] OTHER -> {}

(***************************************************************************)
(* The collecting scan.                                                    *)
(***************************************************************************)
collect_spans(held, e, seq) ==
    CASE e.kind = "start" ->
           [s \in DOMAIN held \cup {seq} |->
               IF s = seq THEN [finish |-> Unfinished, parent |-> scope_track_identity(e.scope),
                                role |-> <<e.family, e.detail.name>>]
               ELSE held[s]]
      [] e.kind = "finish" -> [held EXCEPT ![e.span].finish = seq]
      [] OTHER -> held

collect_flows(e, seq) == {<<link[1], link[2], seq>> : link \in e.caused_by}

\* The entries observe reserves in the structural index for one event.
reserve(c, e, seq) ==
    LET new == (register_scope(e.scope) \cup register_counters(e)) \ c.tracks
    IN Cardinality(new) + Cardinality(collect_flows(e, seq))
         + (IF e.kind = "start" THEN 3 ELSE 1) + (IF e.kind = "usage" THEN 1 ELSE 0)

\* The conditions under which observe takes an event.
Observable(c, e, seq) ==
    /\ e.at <= MaxTime
    /\ prepare(c.refs, e, seq)
    /\ e.kind = "usage" => scope_track_identity(e.scope) \notin c.act_usage
    /\ c.reserved + reserve(c, e, seq) <= MaxEntries

observe(c, e, seq) ==
    [refs |-> commit(c.refs, e, seq),
     tracks |-> c.tracks \cup register_scope(e.scope) \cup register_counters(e),
     intervals |-> collect_spans(c.intervals, e, seq),
     flows |-> c.flows \cup collect_flows(e, seq),
     act_usage |-> IF e.kind = "usage" THEN c.act_usage \cup {scope_track_identity(e.scope)}
                   ELSE c.act_usage,
     reserved |-> c.reserved + reserve(c, e, seq)]

(***************************************************************************)
(* Lanes.  Slices of one track must nest.  The spans of one parent track   *)
(* and role are placed in start order, each in the first lane whose        *)
(* innermost span still open at its start ends after it.                   *)
(***************************************************************************)
Ends(finish, start) == finish # Unfinished /\ finish < start

\* Variant: an open span is taken for one that ends first.
FitsOpen(stack, finish) ==
    stack = <<>> \/ Last(stack) = Unfinished \/ finish <= Last(stack)

fits(stack, finish) ==
    \/ stack = <<>>
    \/ Last(stack) = Unfinished
    \/ finish # Unfinished /\ finish <= Last(stack)

\* One lane with the spans removed that ended before the start.  A finished
\* span is never below an open one, so this is popping from the end.
popped(stack, start) == SelectSeq(stack, LAMBDA f : ~Ends(f, start))

place(acc, start, interval) ==
    LET group == <<interval.parent, interval.role>>
        lanes == IF group \in DOMAIN acc.lanes THEN acc.lanes[group] ELSE <<>>
        free == {n \in 1 .. Len(lanes) : fits(popped(lanes[n], start), interval.finish)}
        n == IF free = {} THEN Len(lanes) + 1 ELSE CHOOSE k \in free : \A m \in free : k <= m
        stack == IF n > Len(lanes) THEN <<>> ELSE popped(lanes[n], start)
        filled == [k \in 1 .. (IF n > Len(lanes) THEN n ELSE Len(lanes)) |->
                      IF k = n THEN Append(stack, interval.finish) ELSE lanes[k]]
    IN [lanes |-> [g \in DOMAIN acc.lanes \cup {group} |->
                      IF g = group THEN filled ELSE acc.lanes[g]],
        lane |-> [s \in DOMAIN acc.lane \cup {start} |->
                      IF s = start
                      THEN Append(interval.parent, <<"lane", <<interval.role, n>>>>)
                      ELSE acc.lane[s]]]

allocate_span_lanes(intervals) ==
    LET starts == SetToSortSeq(DOMAIN intervals, <)
    IN FoldLeft(LAMBDA acc, start : place(acc, start, intervals[start]),
                [lanes |-> [g \in {} |-> <<>>], lane |-> [s \in {} |-> <<>>]], starts).lane

\* finish: the tracks and flows get their dense ids (here the tracks and flows
\* themselves), which is the last use of the structural index.
finish(c) ==
    LET lane == allocate_span_lanes(c.intervals)
    IN [lane |-> lane, tracks |-> c.tracks \cup {lane[s] : s \in DOMAIN lane},
        flows |-> c.flows]

finish_entries(c, plan) ==
    c.reserved + Cardinality(plan.tracks \ c.tracks) + Cardinality(DOMAIN plan.lane)
      + 2 * Cardinality(plan.tracks) + 3 * Cardinality(plan.flows)

(***************************************************************************)
(* The packets of one event.                                               *)
(***************************************************************************)
packet(e, type, track, span, value) ==
    [type |-> type, track |-> track, at |-> e.at, span |-> span, value |-> value,
     starts |-> {}, ends |-> {}]

instant_packet(e, track) == packet(e, "instant", track, None, 0)

exact_counter_value(value) == value <= MaxExact

\* A value that no counter holds exactly stays text on the scope's track.
numeric_packet(e, track, fallback, value) ==
    IF exact_counter_value(value) THEN packet(e, "counter", track, None, value)
    ELSE instant_packet(e, fallback)

UsageProjector(p, e) ==
    [known |-> IF e.detail.tag = "unavailable" THEN p.known ELSE p.known + e.detail.value,
     coverage |-> [c \in UsageCoverage |->
        p.coverage[c] + IF c \in {"finalized", e.detail.tag}
                           \/ (c = "reported" /\ e.detail.tag # "unavailable")
                        THEN 1 ELSE 0]]

CoverageOrder == <<"finalized", "reported", "available", "partial", "unavailable">>

act_usage(p, e) ==
    <<instant_packet(e, scope_track_identity(e.scope))>>
      \o (IF e.detail.tag = "unavailable" THEN <<>>
          ELSE <<numeric_packet(e, counter_track_identity(root, "known"), root, p.known)>>)
      \o [i \in 1 .. Len(CoverageOrder) |->
            numeric_packet(e, counter_track_identity(root, CoverageOrder[i]), root,
                           p.coverage[CoverageOrder[i]])]

context_usage(e) ==
    LET scope == scope_track_identity(e.scope)  series == SetToSeq(ContextSeries(e)) IN
    <<instant_packet(e, scope)>>
      \o [i \in 1 .. Len(series) |->
            numeric_packet(e, counter_track_identity(scope, series[i]), scope, e.detail.value)]

span_start(plan, e, seq) == packet(e, "begin", plan.lane[seq], seq, 0)
span_finish(plan, e) == packet(e, "end", plan.lane[e.span], e.span, 0)

containing_or_scope_track(plan, e) ==
    IF e.span = None THEN scope_track_identity(e.scope) ELSE plan.lane[e.span]

event_packets(plan, p, e, seq) ==
    LET scope == scope_track_identity(e.scope) IN
    CASE e.kind = "start"   -> <<span_start(plan, e, seq)>>
      [] e.kind = "finish"  -> <<span_finish(plan, e)>>
      [] e.kind = "instant" -> <<instant_packet(e, containing_or_scope_track(plan, e))>>
      [] e.kind = "counter" ->
           <<numeric_packet(e, counter_track_identity(scope, e.detail.name), scope, e.detail.value)>>
      [] e.kind = "context" -> context_usage(e)
      [] e.kind = "usage"   -> act_usage(p, e)
      [] OTHER              -> <<instant_packet(e, scope)>>

\* The first packet of an event carries its flows.
attach_flows(plan, packets, seq) ==
    [packets EXCEPT
       ![1].starts = {f \in plan.flows : f[2] = seq},
       ![1].ends = {f \in plan.flows : f[3] = seq}]

\* Every packet must name a track the plan described.
project_event(plan, p, e, seq) ==
    attach_flows(plan, event_packets(plan, p, e, seq), seq)

(***************************************************************************)
(* The capture boundary: a trace whose events all have one timestamp and   *)
(* that leaves spans open gets one more packet, so that it has an extent.  *)
(***************************************************************************)
OpenSpans(x) == {s \in DOMAIN x.collector.intervals : x.collector.intervals[s].finish = Unfinished}
Timestamps(x) == {log[i].at : i \in 1 .. x.through}
NeedsBoundary(x) == OpenSpans(x) # {} /\ Cardinality(Timestamps(x)) = 1

capture_boundary(x) ==
    LET t == CHOOSE t \in Timestamps(x) : TRUE
        mark == [at |-> IF t < MaxTime THEN t + 1 ELSE t - 1]
    IN packet(mark, "instant", root, None, 0)

BoundaryFirst(x) == NeedsBoundary(x) /\ MaxTime \in Timestamps(x)

(***************************************************************************)
(* Steps.                                                                  *)
(***************************************************************************)
\* The exporter reads one captured prefix, up to the requested sequence.
Begin ==
    /\ export.at = "idle"
    /\ \E through \in 1 .. Len(log) :
         export' = [export EXCEPT !.at = "collect", !.through = through]
    /\ UNCHANGED refVars

Collect ==
    /\ export.at = "collect" /\ export.next <= export.through
    /\ LET e == log[export.next] IN
         export' = IF Observable(export.collector, e, export.next)
                   THEN [export EXCEPT !.collector = observe(@, e, export.next), !.next = @ + 1]
                   ELSE [export EXCEPT !.at = "refused"]
    /\ UNCHANGED refVars

Plan ==
    /\ export.at = "collect" /\ export.next > export.through
    /\ \E plan \in {finish(export.collector)} :
         export' = IF finish_entries(export.collector, plan) > MaxEntries
                   THEN [export EXCEPT !.at = "refused"]
                   ELSE [export EXCEPT !.at = "emit", !.next = 1, !.plan = plan,
                            !.packets = IF BoundaryFirst(export) THEN <<capture_boundary(export)>>
                                        ELSE <<>>]
    /\ UNCHANGED refVars

Emit ==
    /\ export.at = "emit" /\ export.next <= export.through
    /\ LET e == log[export.next]
           p == IF e.kind = "usage" THEN UsageProjector(export.projector, e) ELSE export.projector
       IN \E out \in {project_event(export.plan, p, e, export.next)} :
            export' = IF \A i \in 1 .. Len(out) : out[i].track \in export.plan.tracks
                      THEN [export EXCEPT !.packets = @ \o out, !.projector = p, !.next = @ + 1]
                      ELSE [export EXCEPT !.at = "broken"]
    /\ UNCHANGED refVars

Finish ==
    /\ export.at = "emit" /\ export.next > export.through
    /\ export' = [export EXCEPT !.at = "done",
                     !.packets = IF NeedsBoundary(export) /\ ~BoundaryFirst(export)
                                 THEN Append(@, capture_boundary(export)) ELSE @]
    /\ UNCHANGED refVars

TraceStep == Begin \/ Collect \/ Plan \/ Emit \/ Finish

(***************************************************************************)
(* Properties.                                                             *)
(***************************************************************************)
\* Slices nest on every track: the end of a slice closes the innermost slice
\* that is open on its track, and it is the slice of the same span
\* (allocate_span_lanes for any overlap of spans, finished or not).
SlicesNest ==
    LET out == export.packets  I == 1 .. Len(out) IN
    \A j \in I : out[j].type = "end" =>
       \E i \in 1 .. j - 1 :
          /\ out[i].type = "begin" /\ out[i].span = out[j].span /\ out[i].track = out[j].track
          /\ \A k \in i + 1 .. j - 1 :
                out[k].type = "begin" /\ out[k].track = out[j].track =>
                   \E l \in k + 1 .. j - 1 : out[l].type = "end" /\ out[l].span = out[k].span

\* The two scans agree: once the collecting scan accepted the prefix, the
\* emitting scan finds every track, span and flow it needs, so that an export
\* that wrote a byte does not stop for the content of the events.
ScansAgree == export.at # "broken"

\* An export is well formed, and a finished one says of the prefix what the events say.  Every causal link
\* is one flow that starts and ends once, in that order.  Every counter holds
\* the exact value: the known tokens are the sum over the Acts so far, and a
\* value no counter can hold appears in none.  Times stay in range, and a trace
\* with an open span has an extent.
ExportIsExact ==
    LET out == export.packets  I == 1 .. Len(out)
        known == counter_track_identity(root, "known") IN
    /\ SlicesNest /\ ScansAgree
    /\ export.at = "done" =>
       /\ \A t \in 1 .. export.through : \A link \in log[t].caused_by :
             LET f == <<link[1], link[2], t>> IN
             \E i, j \in I :
                /\ i < j /\ {k \in I : f \in out[k].starts} = {i}
                /\ {k \in I : f \in out[k].ends} = {j}
       /\ \A i \in I : out[i].type = "counter" => out[i].value <= MaxExact
       /\ LET reported == {s \in 1 .. export.through :
                             log[s].kind = "usage" /\ log[s].detail.tag # "unavailable"}
              total == MapThenSumSet(LAMBDA s : log[s].detail.value, reported)
          IN reported # {} /\ total <= MaxExact =>
                \E i \in I : out[i].track = known /\ out[i].value = total
       /\ \A i \in I : out[i].at \in 0 .. MaxTime
       /\ OpenSpans(export) # {} => Cardinality({out[i].at : i \in I}) > 1
===============================================================================
