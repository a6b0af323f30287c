---------------------------- MODULE EventReferences ----------------------------
(***************************************************************************)
(* The references between the events of one Run (troupe-diagnostics-core,  *)
(* validate.rs).  The hub, the store writer and the trace exporter each    *)
(* hold a ReferenceValidator and pass every event through it; the log is   *)
(* the sequence of the events it accepted.                                 *)
(*                                                                         *)
(* An event carries the span it refers to: the parent of a starting span,  *)
(* the span that finishes, or the span an instant lies in (None if none).  *)
(* Its time is read by the producer before the hub orders it, so times     *)
(* need not grow along the log.  The twelve error codes are one refusal.   *)
(***************************************************************************)
EXTENDS Integers, FiniteSets, Sequences

CONSTANTS Scopes,          \* scopes: functions from scope fields to ids
          Relations,       \* causal relations
          Details,         \* what a kind of event carries besides the header
          MAX_CAUSAL_LINKS

ASSUME LinkBound == MAX_CAUSAL_LINKS \in Nat

VARIABLES log,    \* accepted events, in sequence order
          spans   \* the validator's span records, by start sequence

refVars == <<log, spans>>

None == 0
Unfinished == -1
Families == {"built_in", "custom"}
SpanKinds == {"start", "finish"}
InstantKinds == {"instant"}
RecordKinds == {"counter", "context", "usage", "delta", "completed", "plan", "gap"}

Event == [kind : SpanKinds \cup InstantKinds \cup RecordKinds, at : Nat,
          scope : Scopes, span : Nat, family : Families,
          caused_by : SUBSET (Relations \X Nat), detail : Details]

SpanRecord == [family : Families, scope : Scopes, started_at : Nat,
               finished_at : Nat \cup {Unfinished}, latest_contained_at : Nat,
               parent : Nat]

RefInit ==
    /\ log = <<>>
    /\ spans = [s \in {} |-> None]

\* Every field the parent's scope fixes is fixed to the same id by the child's.
scope_contains(parent, child) ==
    \A f \in DOMAIN parent : f \in DOMAIN child /\ child[f] = parent[f]

\* A session generation of zero is the sentinel of an unknown one.
validate_scope(e) ==
    "session" \in DOMAIN e.scope => e.scope["session"] # 0

validate_causal_links(e, seq) ==
    /\ Cardinality(e.caused_by) <= MAX_CAUSAL_LINKS
    /\ \A link \in e.caused_by : link[2] \in 1 .. seq - 1

validate_open_span_reference(held, e) ==
    /\ e.span \in DOMAIN held
    /\ held[e.span].finished_at = Unfinished

\* A span or an instant inside another span.
validate_containing_span(held, e) ==
    e.span # None =>
       /\ validate_open_span_reference(held, e)
       /\ scope_contains(held[e.span].scope, e.scope)
       /\ e.at >= held[e.span].started_at

\* Variant: the children of the span need not be finished.
FinishOverChildren(held, e) ==
    /\ e.span \in DOMAIN held
    /\ held[e.span].family = e.family
    /\ held[e.span].finished_at = Unfinished
    /\ held[e.span].scope = e.scope
    /\ held[e.span].started_at <= e.at
    /\ held[e.span].latest_contained_at <= e.at

validate_span_finish(held, e) ==
    /\ e.span \in DOMAIN held
    /\ held[e.span].family = e.family
    /\ held[e.span].finished_at = Unfinished
    /\ held[e.span].scope = e.scope
    /\ held[e.span].started_at <= e.at
    /\ held[e.span].latest_contained_at <= e.at
    /\ \A child \in DOMAIN held :
          held[child].parent = e.span =>
             held[child].finished_at # Unfinished /\ held[child].finished_at <= e.at

\* prepare: the checks of an event that would take the given sequence.
prepare(held, e, seq) ==
    /\ validate_scope(e)
    /\ validate_causal_links(e, seq)
    /\ e.kind \in {"start", "instant"} => validate_containing_span(held, e)
    /\ e.kind = "finish" => validate_span_finish(held, e)

\* commit: the span records after the event took the given sequence.
StartSpan(held, e, seq) ==
    [s \in DOMAIN held \cup {seq} |->
        IF s = seq
        THEN [family |-> e.family, scope |-> e.scope, started_at |-> e.at,
              finished_at |-> Unfinished, latest_contained_at |-> 0, parent |-> e.span]
        ELSE held[s]]

FinishSpan(held, e) == [held EXCEPT ![e.span].finished_at = e.at]

ContainedInstant(held, e) ==
    [held EXCEPT ![e.span].latest_contained_at = IF e.at > @ THEN e.at ELSE @]

commit(held, e, seq) ==
    IF e.kind = "start" THEN StartSpan(held, e, seq)
    ELSE IF e.kind = "finish" THEN FinishSpan(held, e)
    ELSE IF e.kind = "instant" /\ e.span # None THEN ContainedInstant(held, e)
    ELSE held

\* The hub accepts an event with the next sequence of the Run.
Record(e) ==
    LET seq == Len(log) + 1 IN
    /\ prepare(spans, e, seq)
    /\ log' = Append(log, e)
    /\ spans' = commit(spans, e, seq)

RefNext == \E e \in Event : Record(e)

RefSpec == RefInit /\ [][RefNext]_refVars

(***************************************************************************)
(* Properties.                                                             *)
(***************************************************************************)
RefTypeInv ==
    /\ log \in Seq(Event)
    /\ spans \in [DOMAIN spans -> SpanRecord]
    /\ DOMAIN spans \subseteq 1 .. Len(log)

\* Spans form a forest and each lies inside its parent: it starts later in the
\* log and not earlier in time, its scope refines the parent's, and once the
\* parent is finished so is it, not later than the parent.  validate_span_start
\* and validate_span_finish check this one event at a time, against times that
\* are not ordered like the log.
SpansLieInParents ==
    \A s \in DOMAIN spans :
       /\ spans[s].finished_at # Unfinished =>
             /\ spans[s].started_at <= spans[s].finished_at
             /\ spans[s].latest_contained_at <= spans[s].finished_at
       /\ spans[s].parent # None =>
             LET p == spans[s].parent IN
             /\ p \in DOMAIN spans /\ p < s
             /\ scope_contains(spans[p].scope, spans[s].scope)
             /\ spans[p].started_at <= spans[s].started_at
             /\ spans[p].finished_at # Unfinished =>
                   /\ spans[s].finished_at # Unfinished
                   /\ spans[s].finished_at <= spans[p].finished_at
===============================================================================
