---------------------------- MODULE LiveController ----------------------------
(***************************************************************************)
(* The browser's live controller and the part of its state that follows    *)
(* the Run: cursor, bounded live edge, snapshot window, pause and the      *)
(* freshness of a cached query.                                            *)
(*                                                                         *)
(* The live edge holds the events after Larger(base, dropped) up to        *)
(* delivered; the window the events of (after, through].  0 stands for the *)
(* null of dropped_through and of the Last-Event-ID.                       *)
(***************************************************************************)
EXTENDS EventStream

CONSTANTS LiveEdgeCapacity,     \* LIVE_EDGE_EVENT_CAPACITY
          SnapshotSuffix,       \* SNAPSHOT_SUFFIX_MAX_EVENTS
          Relevant              \* the sequences the cached query depends on

ASSUME ViewLimits == LiveEdgeCapacity \in Nat \ {0} /\ SnapshotSuffix \in Nat \ {0}

NoQuery == [k |-> "none", cap |-> 0, stale |-> FALSE, inv |-> 0]

NoFetch == -1

ControllerNew ==
  [phase |-> "idle", op |-> "none", active |-> FALSE,
   es |-> "none", url |-> 0, lastId |-> 0, ready |-> FALSE, expected |-> 0,
   delivered |-> 0, watermark |-> 0, base |-> 0, dropped |-> 0,
   window |-> [after |-> 0, through |-> 0], lost |-> 0,
   paused |-> FALSE, pausedAt |-> 0, request |-> FALSE,
   query |-> NoQuery, fetch |-> NoFetch]

isTerminal(w) == w.phase \in {"closed", "failed", "stopped"}

HasState(w) == w.phase \notin {"idle", "bootstrapping", "snapshot"}

closeStream(w) == [w EXCEPT !.es = "none", !.url = 0, !.lastId = 0, !.ready = FALSE, !.expected = 0]

fail(w) ==
  IF w.phase = "stopped" THEN w ELSE [closeStream(w) EXCEPT !.phase = "failed", !.op = "none"]

stop(w) == [closeStream(w) EXCEPT !.phase = "stopped", !.op = "none", !.fetch = NoFetch]

openStream(w, after) ==
  [w EXCEPT !.es = "connecting", !.url = after, !.lastId = 0, !.ready = FALSE, !.expected = after]

-----------------------------------------------------------------------------
(* The state reducer *)

invalidateQueries(q, sequence) ==
  IF q.k = "have" /\ sequence > q.cap /\ sequence \in Relevant
  THEN [q EXCEPT !.stale = TRUE, !.inv = Larger(@, sequence)] ELSE q

invalidateAllQueries(q, through) ==
  IF q.k = "have" /\ through > q.cap
  THEN [q EXCEPT !.stale = TRUE, !.inv = Larger(@, through)] ELSE q

\* The edge keeps its newest events and remembers the last one it dropped.
appendLiveEvent(w) ==
  LET first == Larger(w.base, w.dropped)
  IN  IF w.delivered - first >= LiveEdgeCapacity THEN first + 1 ELSE w.dropped

acceptedEvent(w, sequence) ==
  [w EXCEPT !.delivered = sequence, !.watermark = Larger(@, sequence),
            !.dropped = appendLiveEvent(w), !.query = invalidateQueries(@, sequence)]

watermarkObserved(w, through) ==
  IF through <= w.watermark THEN w
  ELSE [w EXCEPT !.watermark = through, !.query = invalidateAllQueries(@, through)]

\* duplicates are ignored; a hole is a delivery issue
receiveEvent(w, sequence) ==
  CASE sequence <= w.delivered -> [state |-> w, issue |-> FALSE]
    [] sequence = w.delivered + 1 -> [state |-> acceptedEvent(w, sequence), issue |-> FALSE]
    [] sequence > w.delivered + 1 ->
         LET head == Larger(w.watermark, sequence)
         IN  [state |-> [w EXCEPT !.watermark = head, !.query = invalidateAllQueries(@, head)],
              issue |-> TRUE]

pause(w) ==
  IF w.paused THEN w
  ELSE [w EXCEPT !.paused = TRUE, !.pausedAt = w.delivered, !.request = FALSE]

resume(w) ==
  LET rawLoss == w.dropped > w.pausedAt
      deliveryLag == w.delivered < w.watermark
      projectionLost == w.lost > w.pausedAt
  IN  IF ~w.paused THEN w
      ELSE [w EXCEPT !.paused = FALSE, !.pausedAt = 0,
                     !.request = w.watermark > w.pausedAt
                                 /\ (rawLoss \/ deliveryLag \/ projectionLost)]

resumeRequestConsumed(w) == [w EXCEPT !.request = FALSE]

snapshotSuffixAfter(watermark) ==
  IF watermark > SnapshotSuffix THEN watermark - SnapshotSuffix ELSE 0

\* Variant: the part of the history the suffix leaves out is not marked.
HydrateUnmarked(w, watermark) ==
  LET after == snapshotSuffixAfter(watermark)
  IN  [w EXCEPT !.delivered = watermark, !.watermark = watermark, !.base = watermark,
                !.dropped = 0, !.window = [after |-> after, through |-> watermark],
                !.lost = 0, !.request = w.paused /\ w.request, !.query = NoQuery]

\* tools and results are rebuilt from the suffix alone: the rest is marked dropped
hydrateDiagnosticStateFromSnapshot(w, watermark) ==
  LET after == snapshotSuffixAfter(watermark)
  IN  [w EXCEPT !.delivered = watermark, !.watermark = watermark, !.base = watermark,
                !.dropped = 0, !.window = [after |-> after, through |-> watermark],
                !.lost = after, !.request = w.paused /\ w.request, !.query = NoQuery]

\* Variant: only the events still in the live edge can make an answer stale.
CacheFromEdgeOnly(w, captured) ==
  LET seen == {s \in (Larger(w.base, w.dropped) + 1)..w.delivered : s > captured /\ s \in Relevant}
  IN  [k |-> "have", cap |-> captured, stale |-> seen # {}, inv |-> 0]

cacheQueryForCurrentState(w, captured) ==
  LET historyUnknown == \/ w.base > captured
                        \/ w.dropped > captured
                        \/ w.delivered < w.watermark
      after == Larger(w.base, w.dropped)
      seen == {s \in (after + 1)..w.delivered : s > captured /\ s \in Relevant}
  IN  IF historyUnknown /\ w.watermark > captured
      THEN [k |-> "have", cap |-> captured, stale |-> TRUE, inv |-> w.watermark]
      ELSE [k |-> "have", cap |-> captured, stale |-> seen # {},
            inv |-> IF seen = {} THEN 0 ELSE CHOOSE s \in seen : \A t \in seen : t <= s]

\* an answer older than what already invalidated the entry stays stale
cacheQueryResult(previous, result) ==
  IF previous.k = "have" /\ previous.inv > result.cap
  THEN [result EXCEPT !.stale = TRUE, !.inv = Larger(@, previous.inv)] ELSE result

-----------------------------------------------------------------------------
(* The controller *)

\* status first, then the snapshot: a Run that was no longer active then is complete in it
StateFromSnapshot(w, watermark) ==
  IF HasState(w) /\ watermark < w.delivered THEN fail(w)
  ELSE LET next == [hydrateDiagnosticStateFromSnapshot(w, watermark) EXCEPT !.op = "none"]
       IN  IF ~w.active THEN [next EXCEPT !.phase = "closed"]
           ELSE openStream([next EXCEPT !.phase = "connecting"], watermark)

controller_start(w) == [w EXCEPT !.phase = "bootstrapping", !.op = "status"]

StatusReceived(w, active) ==
  [w EXCEPT !.active = active, !.op = "snapshot",
            !.phase = IF @ = "bootstrapping" THEN "snapshot" ELSE @]

beginResync(w) ==
  IF isTerminal(w) \/ w.op # "none" THEN w
  ELSE [closeStream(w) EXCEPT !.phase = "resyncing", !.op = "status"]

\* The browser reopens the same EventSource by itself, with the last event's ID.
EventSourceCursor(w) == resolve_effective_cursor(w.lastId, w.url)

onOpen(w) ==
  [w EXCEPT !.es = "open", !.ready = FALSE, !.expected = w.delivered,
            !.phase = IF @ = "connecting" THEN "connecting" ELSE "reconnecting"]

\* A lost connection is retried; a response other than a stream is not.
onError(w, retries) ==
  IF isTerminal(w) THEN w
  ELSE [w EXCEPT !.es = IF retries THEN "connecting" ELSE "dead", !.ready = FALSE,
                 !.expected = w.delivered, !.phase = "reconnecting"]

handleReady(w, frame) ==
  CASE w.ready -> fail(w)
    [] ~w.ready /\ (frame.a # w.expected \/ frame.b < w.watermark) -> beginResync(w)
    [] ~w.ready /\ frame.a = w.expected /\ frame.b >= w.watermark ->
         [watermarkObserved(w, frame.b) EXCEPT !.ready = TRUE, !.phase = "live"]

handleClosed(w, frame) ==
  [closeStream(watermarkObserved(w, frame.b)) EXCEPT !.phase = "closed"]

handleEvent(w, sequence) ==
  IF ~w.ready THEN fail(w)
  ELSE LET next == receiveEvent([w EXCEPT !.lastId = sequence], sequence)
       IN  IF next.issue THEN beginResync(next.state) ELSE next.state

\* the browser decodes controls with the same checks as the server's own decoder
decodeSseFrame(frame) == frame.k \in SseFrameKinds /\ ControlIsValid(frame)

handleFrame(w, frame) ==
  IF ~decodeSseFrame(frame) THEN fail(w)
  ELSE CASE frame.k = "event" -> handleEvent(w, frame.a)
         [] frame.k = "ready" -> handleReady(w, frame)
         [] frame.k = "heartbeat" -> IF w.ready THEN watermarkObserved(w, frame.b) ELSE fail(w)
         [] frame.k \in {"gap", "resync"} -> beginResync(watermarkObserved(w, frame.b))
         [] frame.k = "closed" -> handleClosed(w, frame)

=============================================================================
