----------------------------- MODULE EventFollow -----------------------------
(***************************************************************************)
(* The command line follower (`events --follow`): one finite query, then   *)
(* a stream that is reopened at the cursor whenever it breaks.             *)
(*                                                                         *)
(* The follower is the record [phase, cursor, requested, ready, adopt,     *)
(* reconnect, from, out]: out is every sequence written to the output and  *)
(* from the sequence the output starts after.                              *)
(***************************************************************************)
EXTENDS EventStream

\* What the user asked for: the whole Run, the last event, or only what follows.
EventStarts == {[k |-> "after", n |-> 0], [k |-> "tail", n |-> 1], [k |-> "tail", n |-> 0]}

is_tail_zero(start) == start.k = "tail" /\ start.n = 0

FollowerNew(start) ==
  [phase |-> "query", start |-> start, cursor |-> 0, requested |-> 0, ready |-> FALSE,
   adopt |-> is_tail_zero(start), reconnect |-> FALSE, from |-> 0, out |-> <<>>]

Follows(f) == f.phase \in {"query", "identity", "connect", "stream"}

Finishes(f, phase) == [f EXCEPT !.phase = phase, !.requested = 0, !.ready = FALSE]

-----------------------------------------------------------------------------
(* The finite query *)

\* FiniteEventQuery::resolve, for the two forms the follower uses
ResolveAfter(start, watermark) ==
  IF start.k = "after"
  THEN IF start.n < watermark THEN start.n ELSE watermark
  ELSE IF start.n > watermark THEN 0 ELSE watermark - start.n

\* The server answers a range query with the dense events up to the captured watermark.
query_events(start, watermark) ==
  LET after == ResolveAfter(start, watermark)
  IN  [i \in 1..(watermark - after) |-> after + i]

\* The response is accepted only when it is exactly the requested dense range.
validate_events_response(start, watermark, events) ==
  LET after == ResolveAfter(start, watermark)
  IN  /\ Len(events) = watermark - after
      /\ \A i \in 1..Len(events) : events[i] = after + i

InitialQuery(f, watermark, events) ==
  IF validate_events_response(f.start, watermark, events)
  THEN [f EXCEPT !.phase = "identity", !.cursor = watermark,
                 !.from = ResolveAfter(f.start, watermark), !.out = events]
  ELSE Finishes(f, "error")

-----------------------------------------------------------------------------
(* The stream *)

\* Temporary failures keep the cursor and try again.
Reconnects(f) == [f EXCEPT !.phase = "identity", !.reconnect = TRUE, !.requested = 0, !.ready = FALSE]

revalidate_identity(f, reachable) ==
  IF reachable THEN [f EXCEPT !.phase = "connect"] ELSE Reconnects(f)

\* The cursor of the request: the after query, repeated as Last-Event-ID on a reconnect.
RequestCursor(f) == resolve_effective_cursor(IF f.reconnect THEN f.cursor ELSE 0, f.cursor)

\* What the follower does with the response status.
connect(f, status) ==
  CASE status >= 500 -> Reconnects(f)
    [] status = 200 -> [f EXCEPT !.phase = "stream", !.requested = f.cursor, !.ready = FALSE]
    [] OTHER -> Finishes(f, "error")

\* Variant: events at or before the cursor are written again.
ConsumeRepeats(f, sequence) ==
  IF sequence > f.cursor + 1 THEN Finishes(f, "error")
  ELSE [f EXCEPT !.cursor = sequence, !.out = Append(@, sequence)]

consume_event(f, sequence) ==
  CASE sequence <= f.cursor -> f
    [] sequence = f.cursor + 1 -> [f EXCEPT !.cursor = sequence, !.out = Append(@, sequence)]
    [] sequence > f.cursor + 1 -> Finishes(f, "error")

ConsumeReady(f, frame) ==
  IF f.ready \/ frame.a # f.requested THEN Finishes(f, "error")
  ELSE [f EXCEPT !.ready = TRUE, !.adopt = FALSE,
                 !.cursor = IF f.adopt THEN frame.b ELSE @,
                 !.from = IF f.adopt THEN frame.b ELSE @]

\* One frame of the response body.
consume_connection(f, frame) ==
  IF ~decode_control_payload(frame) \/ (frame.k # "ready" /\ ~f.ready)
  THEN Finishes(f, "error")
  ELSE CASE frame.k = "ready" -> ConsumeReady(f, frame)
         [] frame.k = "resync" -> Finishes(f, "error")
         [] frame.k = "event" -> consume_event(f, frame.a)
         [] frame.k = "heartbeat" -> IF frame.b < f.cursor THEN Finishes(f, "error") ELSE f
         [] frame.k = "gap" -> IF frame.b < f.cursor THEN Finishes(f, "error") ELSE Reconnects(f)
         [] frame.k = "closed" ->
              IF frame.b # f.cursor THEN Finishes(f, "error") ELSE Finishes(f, "closed")

=============================================================================
