------------------------- MODULE EventReferencesProofs -------------------------
(***************************************************************************)
(* Proofs about the event references of EventReferences: for any scopes,   *)
(* relations, details and link bound, every log the ReferenceValidator     *)
(* accepts keeps its spans inside their parents.                           *)
(***************************************************************************)
EXTENDS EventReferences, TLAPS

RefInv == RefTypeInv /\ SpansLieInParents

\* A finish changes one field of one record.
LEMMA FinishChangesOne ==
  ASSUME NEW held, held \in [DOMAIN held -> SpanRecord], NEW e \in Event, e.span \in DOMAIN held
  PROVE  /\ DOMAIN FinishSpan(held, e) = DOMAIN held
         /\ FinishSpan(held, e) \in [DOMAIN held -> SpanRecord]
         /\ \A s \in DOMAIN held : s # e.span => FinishSpan(held, e)[s] = held[s]
         /\ FinishSpan(held, e)[e.span].finished_at = e.at
         /\ \A s \in DOMAIN held :
               /\ FinishSpan(held, e)[s].started_at = held[s].started_at
               /\ FinishSpan(held, e)[s].latest_contained_at = held[s].latest_contained_at
               /\ FinishSpan(held, e)[s].parent = held[s].parent
               /\ FinishSpan(held, e)[s].scope = held[s].scope
  BY DEF FinishSpan, Event, SpanRecord

\* So does an instant inside a span.
LEMMA InstantChangesOne ==
  ASSUME NEW held, held \in [DOMAIN held -> SpanRecord], NEW e \in Event, e.span \in DOMAIN held
  PROVE  /\ DOMAIN ContainedInstant(held, e) = DOMAIN held
         /\ ContainedInstant(held, e) \in [DOMAIN held -> SpanRecord]
         /\ \A s \in DOMAIN held : s # e.span => ContainedInstant(held, e)[s] = held[s]
         /\ \A s \in DOMAIN held :
               /\ ContainedInstant(held, e)[s].started_at = held[s].started_at
               /\ ContainedInstant(held, e)[s].finished_at = held[s].finished_at
               /\ ContainedInstant(held, e)[s].parent = held[s].parent
               /\ ContainedInstant(held, e)[s].scope = held[s].scope
  BY DEF ContainedInstant, Event, SpanRecord

LEMMA RefInitial == RefInit => RefInv
  BY DEF RefInit, RefInv, RefTypeInv, SpansLieInParents

\* Each accepted event keeps the invariant: a start is placed under an open span,
\* a finish finds its children finished, an instant touches an open span only.
LEMMA RefPreserved == RefInv /\ [RefNext]_refVars => RefInv'
<1> SUFFICES ASSUME RefInv, [RefNext]_refVars PROVE RefInv'
  OBVIOUS
<1>1. CASE UNCHANGED refVars
  BY <1>1 DEF refVars, RefInv, RefTypeInv, SpansLieInParents
<1>2. CASE RefNext
  <2>1. PICK e \in Event : Record(e)
    BY <1>2 DEF RefNext
  <2> DEFINE seq == Len(log) + 1
  <2>2. /\ log \in Seq(Event) /\ log' = Append(log, e) /\ log' \in Seq(Event)
        /\ Len(log) \in Nat /\ Len(log') = seq /\ seq \in Nat
    BY <2>1 DEF Record, RefInv, RefTypeInv
  <2>3. spans' = commit(spans, e, seq) /\ prepare(spans, e, seq)
    BY <2>1 DEF Record
  <2>4. spans \in [DOMAIN spans -> SpanRecord] /\ DOMAIN spans \subseteq 1 .. Len(log)
    BY DEF RefInv, RefTypeInv
  <2>5. seq \notin DOMAIN spans
    BY <2>2, <2>4
  <2>6. e.at \in Nat /\ e.span \in Nat /\ e.kind \in SpanKinds \cup InstantKinds \cup RecordKinds
    BY DEF Event
  <2> HIDE DEF seq
  <2>7. ASSUME UNCHANGED spans PROVE RefInv'
    BY <2>7, <2>2, <2>4 DEF RefInv, RefTypeInv, SpansLieInParents, seq
  <2>8. CASE e.kind = "start"
    <3>1. spans' = StartSpan(spans, e, seq) /\ validate_containing_span(spans, e)
      BY <2>3, <2>8 DEF commit, prepare
    <3>2. /\ DOMAIN spans' = DOMAIN spans \cup {seq}
          /\ \A s \in DOMAIN spans : spans'[s] = spans[s]
          /\ spans'[seq] \in SpanRecord /\ spans'[seq].scope = e.scope
          /\ spans'[seq].started_at = e.at /\ spans'[seq].finished_at = Unfinished
          /\ spans'[seq].parent = e.span
      BY <3>1, <2>2, <2>5 DEF StartSpan, Event, SpanRecord
    <3>3. RefTypeInv'
      <4>1. spans' = [s \in DOMAIN spans' |-> spans'[s]]
        BY <3>1 DEF StartSpan
      <4>2. \A s \in DOMAIN spans' : spans'[s] \in SpanRecord
        BY <3>2, <2>4
      <4> QED
        BY <4>1, <4>2, <3>2, <2>2, <2>4 DEF RefTypeInv, seq
    <3>4. SpansLieInParents'
      <4> SUFFICES ASSUME NEW s \in DOMAIN spans' PROVE SpansLieInParents!(s)'
        BY DEF SpansLieInParents
      <4>1. CASE s = seq
        BY <4>1, <3>1, <3>2, <2>2, <2>4, <2>5, <2>6
           DEF validate_containing_span, validate_open_span_reference, None, Unfinished, seq
      <4>2. CASE s \in DOMAIN spans
        BY <4>2, <3>2, <2>5 DEF RefInv, SpansLieInParents
      <4> QED
        BY <4>1, <4>2, <3>2
    <3> QED
      BY <3>3, <3>4 DEF RefInv
  <2>9. CASE e.kind = "finish"
    <3>1. spans' = FinishSpan(spans, e) /\ validate_span_finish(spans, e)
      BY <2>3, <2>9 DEF commit, prepare
    <3>2. e.span \in DOMAIN spans
      BY <3>1 DEF validate_span_finish
    <3>3. /\ DOMAIN spans' = DOMAIN spans
          /\ spans' \in [DOMAIN spans -> SpanRecord]
          /\ \A s \in DOMAIN spans : s # e.span => spans'[s] = spans[s]
          /\ spans'[e.span].finished_at = e.at
          /\ \A s \in DOMAIN spans :
                /\ spans'[s].started_at = spans[s].started_at
                /\ spans'[s].latest_contained_at = spans[s].latest_contained_at
                /\ spans'[s].parent = spans[s].parent
                /\ spans'[s].scope = spans[s].scope
      BY <3>1, <3>2, <2>4, FinishChangesOne
    <3>4. RefTypeInv'
      BY <3>3, <2>2, <2>4 DEF RefTypeInv, seq
    <3>5. SpansLieInParents'
      <4> SUFFICES ASSUME NEW s \in DOMAIN spans' PROVE SpansLieInParents!(s)'
        BY DEF SpansLieInParents
      <4>1. SpansLieInParents!(s) /\ s \in DOMAIN spans /\ spans[s] \in SpanRecord
        BY <3>3, <2>4 DEF RefInv, SpansLieInParents
      <4>2. CASE s = e.span
        BY <4>1, <4>2, <3>1, <3>3, <2>4, <2>6 DEF validate_span_finish, Unfinished, None, SpanRecord
      <4>3. CASE s # e.span /\ spans[s].parent = e.span
        BY <4>1, <4>3, <3>1, <3>3, <2>4, <2>6 DEF validate_span_finish, Unfinished, None, SpanRecord
      <4>4. CASE s # e.span /\ spans[s].parent # e.span
        BY <4>1, <4>4, <3>3
      <4> QED
        BY <4>2, <4>3, <4>4
    <3> QED
      BY <3>4, <3>5 DEF RefInv
  <2>10. CASE e.kind = "instant" /\ e.span # None
    <3>1. spans' = ContainedInstant(spans, e) /\ validate_open_span_reference(spans, e)
      BY <2>3, <2>10 DEF commit, prepare, validate_containing_span
    <3>2. e.span \in DOMAIN spans /\ spans[e.span].finished_at = Unfinished
      BY <3>1 DEF validate_open_span_reference
    <3>3. /\ DOMAIN spans' = DOMAIN spans
          /\ spans' \in [DOMAIN spans -> SpanRecord]
          /\ \A s \in DOMAIN spans : s # e.span => spans'[s] = spans[s]
          /\ \A s \in DOMAIN spans :
                /\ spans'[s].started_at = spans[s].started_at
                /\ spans'[s].finished_at = spans[s].finished_at
                /\ spans'[s].parent = spans[s].parent
                /\ spans'[s].scope = spans[s].scope
      BY <3>1, <3>2, <2>4, InstantChangesOne
    <3>4. RefTypeInv'
      BY <3>3, <2>2, <2>4 DEF RefTypeInv, seq
    <3>5. SpansLieInParents'
      <4> SUFFICES ASSUME NEW s \in DOMAIN spans' PROVE SpansLieInParents!(s)'
        BY DEF SpansLieInParents
      <4>1. SpansLieInParents!(s) /\ s \in DOMAIN spans
        BY <3>3 DEF RefInv, SpansLieInParents
      <4> QED
        BY <4>1, <3>2, <3>3
    <3> QED
      BY <3>4, <3>5 DEF RefInv
  <2> QED
    BY <2>3, <2>7, <2>8, <2>9, <2>10 DEF commit
<1> QED
  BY <1>1, <1>2

\* Spans lie inside their parents in every reachable state, for every value of the
\* constants: the property the exporter's lanes and the store's span projection
\* take for granted of a Run's log.
THEOREM SpansAlwaysLieInParents == RefSpec => [](RefTypeInv /\ SpansLieInParents)
<1>1. RefInit => RefInv
  BY RefInitial
<1>2. RefInv /\ [RefNext]_refVars => RefInv'
  BY RefPreserved
<1> QED
  BY <1>1, <1>2, PTL DEF RefSpec, RefInv
===============================================================================
