----------------------------- MODULE EventStream -----------------------------
(***************************************************************************)
(* The server side of the live event stream: the commit signal the writer  *)
(* thread advances, the bounded subscriber queue behind one HTTP response, *)
(* and the replay session that drives a subscriber from its cursor through *)
(* the captured head into the live tail.                                   *)
(*                                                                         *)
(* Every operator is one function of the code over the record it locks.    *)
(* A frame is [k, a, b]: its kind, its event ID or cursor, its watermark.  *)
(* Every frame has the same size, so the byte limit is a number of frames; *)
(* no frame is larger than the whole buffer.  A page holds one event.      *)
(***************************************************************************)
EXTENDS Integers, Sequences

CONSTANTS MaxBufferedEvents,   \* SubscriberLimits.max_buffered_events
          MaxBufferedFrames    \* SubscriberLimits.max_buffered_bytes, in frames

ASSUME SubscriberLimits == MaxBufferedEvents \in Nat \ {0} /\ MaxBufferedFrames \in Nat \ {0}

-----------------------------------------------------------------------------
(* Frames *)

SseFrameKinds == {"ready", "event", "heartbeat", "gap", "resync", "closed"}

Frame(kind, a, b) == [k |-> kind, a |-> a, b |-> b]

NoFrame == Frame("none", 0, 0)

diagnostic_event(sequence) == Frame("event", sequence, 0)

stream_ready(resumeAfter, replayThrough) == Frame("ready", resumeAfter, replayThrough)

heartbeat_frame(watermark) == Frame("heartbeat", 0, watermark)

delivery_gap(lastDelivered, watermark) == Frame("gap", lastDelivered, watermark)

resync_required(watermark) == Frame("resync", 0, watermark)

stream_closed(watermark) == Frame("closed", 0, watermark)

\* Controls are decoded with their own consistency checks on both ends.
ControlIsValid(f) ==
  CASE f.k = "ready"  -> f.a <= f.b
    [] f.k = "gap"    -> f.a <= f.b
    [] OTHER          -> TRUE

decode_control_payload(f) == f.k \in SseFrameKinds /\ ControlIsValid(f)

-----------------------------------------------------------------------------
(* The commit signal: a watch channel of [status, head] *)

SignalNew == [status |-> "open", head |-> 0]

validate_advance(sig, previous, committed) ==
  /\ sig.status = "open"
  /\ previous = sig.head
  /\ committed > previous

latch_invalid(sig) == [sig EXCEPT !.status = "invalid"]

SignalAdvance(sig, previous, committed) ==
  IF validate_advance(sig, previous, committed)
  THEN [sig EXCEPT !.head = committed]
  ELSE latch_invalid(sig)

\* A close that does not match the signalled head is refused and changes nothing.
SignalClose(sig, final) ==
  IF sig.status = "open" /\ final = sig.head
  THEN [sig EXCEPT !.status = "closed"]
  ELSE sig

-----------------------------------------------------------------------------
(* The subscriber queue *)

open_subscriber(resumeAfter, replayThrough) ==
  [q |-> <<stream_ready(resumeAfter, replayThrough)>>, enq |-> resumeAfter,
   del |-> resumeAfter, first |-> FALSE, term |-> NoFrame, acc |-> TRUE]

resync_body(watermark) ==
  [q |-> <<>>, enq |-> 0, del |-> 0, first |-> FALSE,
   term |-> resync_required(watermark), acc |-> FALSE]

\* Queued facts are dropped, an undelivered ready frame is kept in front.
terminate_delivery(s, terminal) ==
  LET keep == ~s.first /\ s.q # <<>> /\ Head(s.q).k = "ready"
  IN  [s EXCEPT !.q = IF keep THEN <<Head(s.q)>> ELSE <<>>,
                !.term = terminal, !.acc = FALSE]

QueuedEvents(s) == Len(SelectSeq(s.q, LAMBDA f : f.k = "event"))

Full(s) ==
  \/ QueuedEvents(s) + 1 > MaxBufferedEvents
  \/ Len(s.q) + 1 > MaxBufferedFrames

Larger(m, n) == IF m > n THEN m ELSE n

Sent(s, status) == [sub |-> s, status |-> status]

\* Variant: a live push waits for room like a replay does.
EnqueueAlwaysWaits(s, sequence, watermark, wait) ==
  IF s.acc /\ Full(s) THEN Sent(s, "Wait")
  ELSE Sent([s EXCEPT !.q = Append(@, diagnostic_event(sequence)), !.enq = sequence], "Enqueued")

try_enqueue_event(s, sequence, watermark, wait) ==
  LET head == Larger(watermark, s.del) IN
  CASE ~s.acc -> Sent(s, "Closed")
    [] s.acc /\ (watermark < sequence \/ watermark < s.enq) ->
         Sent(terminate_delivery(s, resync_required(head)), "ResyncRequired")
    [] s.acc /\ watermark >= sequence /\ watermark >= s.enq /\ sequence <= s.enq ->
         Sent(s, "Duplicate")
    [] s.acc /\ watermark >= sequence /\ sequence > s.enq + 1 ->
         Sent(terminate_delivery(s, resync_required(head)), "ResyncRequired")
    [] s.acc /\ watermark >= sequence /\ sequence = s.enq + 1 ->
         IF ~Full(s)
         THEN Sent([s EXCEPT !.q = Append(@, diagnostic_event(sequence)),
                             !.enq = sequence], "Enqueued")
         ELSE IF wait THEN Sent(s, "Wait")
         ELSE Sent(terminate_delivery(s, delivery_gap(s.del, head)), "Overflowed")

\* At most one heartbeat is queued; a heartbeat never displaces a fact.
try_send_heartbeat(s, watermark) ==
  CASE ~s.acc -> Sent(s, "Closed")
    [] s.acc /\ watermark < s.enq -> Sent(s, "Err")
    [] s.acc /\ watermark >= s.enq ->
         IF (\E i \in 1..Len(s.q) : s.q[i].k = "heartbeat") \/ Len(s.q) + 1 > MaxBufferedFrames
         THEN Sent(s, "DroppedControl")
         ELSE Sent([s EXCEPT !.q = Append(@, heartbeat_frame(watermark))], "Enqueued")

SubscriberClose(s, watermark) ==
  CASE watermark < s.enq -> Sent(s, "Err")
    [] watermark >= s.enq /\ ~s.acc -> Sent(s, "Closed")
    [] watermark >= s.enq /\ s.acc ->
         Sent([s EXCEPT !.acc = FALSE, !.term = stream_closed(watermark)], "Enqueued")

SubscriberResync(s, watermark) ==
  IF s.acc THEN terminate_delivery(s, resync_required(watermark)) ELSE s

\* The frame the response body yields next, and the state it leaves.
CanPoll(s) == s.q # <<>> \/ s.term # NoFrame

NextFrame(s) == IF s.q # <<>> THEN Head(s.q) ELSE s.term

poll_frame(s) ==
  IF s.q # <<>>
  THEN [s EXCEPT !.q = Tail(@), !.first = TRUE,
                 !.del = IF Head(s.q).k = "event" THEN Head(s.q).a ELSE @]
  ELSE [s EXCEPT !.term = NoFrame]

-----------------------------------------------------------------------------
(* The replay session: [sub, phase, ingested, through, failed] *)

NoSession == [sub |-> resync_body(0), phase |-> "none", ingested |-> 0, through |-> 0,
              failed |-> FALSE]

\* nonempty Last-Event-ID wins over the after query
resolve_effective_cursor(lastEventId, after) == IF lastEventId # 0 THEN lastEventId ELSE after

\* Retention is dense from sequence 1; 0 stands for "nothing retained".
retained_earliest(head) == IF head = 0 THEN 0 ELSE 1

is_recoverable_from(cursor, earliest) ==
  IF earliest = 0 THEN cursor = 0 ELSE cursor + 1 >= earliest

\* The outcome of begin, with the head captured after the listener subscribed.
begin(cursor, sig, head, fault) ==
  CASE fault \/ sig.status = "invalid" -> [status |-> 500, session |-> NoSession]
    [] ~fault /\ sig.status # "invalid" /\ cursor > head -> [status |-> 409, session |-> NoSession]
    [] ~fault /\ sig.status # "invalid" /\ cursor <= head ->
         [status |-> 200,
          session |-> IF is_recoverable_from(cursor, retained_earliest(head))
                      THEN [sub |-> open_subscriber(cursor, head), phase |-> "replaying",
                            ingested |-> cursor, through |-> head, failed |-> FALSE]
                      ELSE [NoSession EXCEPT !.sub = resync_body(head), !.phase = "ended"]]

post_stream_resync(c, sig) ==
  IF c.phase = "ended" THEN c
  ELSE [c EXCEPT !.sub = SubscriberResync(@, Larger(sig.head, c.ingested)), !.phase = "ended"]

\* A driver error ends the driver, tells the client and reports a core failure.
DriverFails(c, sig) == [post_stream_resync(c, sig) EXCEPT !.failed = TRUE]

\* The range a page asks for must lie within the head its reader captured.
PageIsCaptured(through, head) == through <= head

\* One event pushed: the status decides whether the driver goes on.
Pushed(c, sequence, sent) ==
  CASE sent.status = "Enqueued" -> [c EXCEPT !.sub = sent.sub, !.ingested = sequence]
    [] sent.status \in {"Duplicate", "Wait"} -> c
    [] sent.status \in {"Closed", "Overflowed", "ResyncRequired"} ->
         [c EXCEPT !.sub = sent.sub, !.phase = "ended"]

\* push_replay_page waits for room, so replay never overflows the client.
push_replay_page(c) ==
  Pushed(c, c.ingested + 1, try_enqueue_event(c.sub, c.ingested + 1, c.through, TRUE))

\* The whole live range is pushed without yielding to another task of the runtime.
push_live_page(c) ==
  LET next == Pushed(c, c.ingested + 1, try_enqueue_event(c.sub, c.ingested + 1, c.through, FALSE))
  IN  IF next.phase = "pushing" /\ next.ingested = c.through THEN [next EXCEPT !.phase = "live"] ELSE next

drive_live_range(c, sig, head) ==
  IF PageIsCaptured(c.through, head) THEN push_live_page(c) ELSE DriverFails(c, sig)

\* next_live_range when it returns no range: an ended tail ends the session.
EndOfTail(c, sig) ==
  CASE sig.status = "invalid" ->
         [c EXCEPT !.sub = SubscriberResync(@, Larger(sig.head, c.ingested)), !.phase = "ended"]
    [] sig.status = "closed" /\ sig.head = c.ingested ->
         [c EXCEPT !.sub = SubscriberClose(@, sig.head).sub, !.phase = "ended"]
    [] sig.status = "closed" /\ sig.head < c.ingested -> post_stream_resync(c, sig)
    [] OTHER -> c

\* wait_for_live_range: a newer head starts a range, an ended tail ends the session
wait_for_live_range(c, sig) ==
  IF sig.status # "invalid" /\ sig.head > c.ingested
  THEN [c EXCEPT !.phase = "pushing", !.through = sig.head]
  ELSE EndOfTail(c, sig)

finish_replay(c, sig) ==
  IF c.ingested # c.through THEN DriverFails(c, sig)
  ELSE LET live == [c EXCEPT !.phase = "live"]
       IN  IF sig.status # "invalid" /\ sig.head > c.ingested THEN live ELSE EndOfTail(live, sig)

drive_replay(c, sig, head) ==
  IF c.ingested >= c.through THEN finish_replay(c, sig)
  ELSE IF PageIsCaptured(c.through, head) THEN push_replay_page(c) ELSE DriverFails(c, sig)

heartbeat(c, sig) ==
  LET sent == try_send_heartbeat(c.sub, Larger(sig.head, c.ingested))
  IN  CASE sent.status = "Err" -> [c EXCEPT !.phase = "ended", !.failed = TRUE]
        [] sent.status = "Closed" -> [c EXCEPT !.phase = "ended"]
        [] OTHER -> [c EXCEPT !.sub = sent.sub]

=============================================================================
