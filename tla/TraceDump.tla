------------------------------- MODULE TraceDump -------------------------------
(***************************************************************************)
(* One trace download: the CLI's RemoteDumpProducer, the server's handler  *)
(* future and response body, and the blocking worker that exports a        *)
(* captured prefix (server/dump.rs, diagnostic_cli/dump.rs and the two     *)
(* scans of troupe-diagnostics-perfetto dump.rs).                          *)
(*                                                                         *)
(* Worker and body meet in a Bridge: one chunk and a waker for each side,  *)
(* under one lock.  The trace of the first n events is n + 1 packets (the  *)
(* descriptors, then one per event) of two chunks each.  What the packets  *)
(* say is TraceProjection's subject, what becomes of the received file     *)
(* TracePublication's.                                                     *)
(***************************************************************************)
EXTENDS Naturals, Sequences

CONSTANTS Archive,        \* TRUE: the request opens the archive under its own lease
          MaxCommitted,   \* committed events of the Run
          Requested       \* values of ?through=, 0 for none

VARIABLES committed,   \* the Run's committed watermark
          serving,     \* which Run answers at the address: "this" or "other"
          online,      \* the connection is up
          gate,        \* StartupGate: "none", "pending", "ready" or "failed"
          bridge,      \* BridgeState
          worker,      \* the blocking worker
          handler,     \* the route future, then the body it returned
          client       \* RemoteDumpProducer

dumpVars == <<committed, serving, online, gate, bridge, worker, handler, client>>

NoChunk == 0
ChunksOf(events) == 2 * (events + 1)

NewBridge == [body_started |-> FALSE, cancelled |-> FALSE, chunk |-> NoChunk,
              terminal |-> "open", producer_waker |-> FALSE, body_waker |-> FALSE]

DumpInit ==
    /\ committed \in 1 .. MaxCommitted
    /\ serving = "this" /\ online = TRUE /\ gate = "none"
    /\ bridge = NewBridge
    /\ worker = [at |-> "idle", lease |-> FALSE, captured |-> 0, through |-> 0, written |-> 0,
                 woken |-> FALSE]
    /\ handler = [at |-> "idle", polled |-> FALSE]
    /\ \E t \in Requested :
         client = [at |-> "identity_before", through |-> t, meta |-> 0, received |-> <<>>]

(***************************************************************************)
(* The bridge.  Each operation is one critical section; the wakers it      *)
(* takes are called after it.                                              *)
(***************************************************************************)
\* cancel: the chunk is dropped and both sides are woken.
cancelled_bridge(b) ==
    [b EXCEPT !.cancelled = TRUE, !.chunk = NoChunk,
              !.producer_waker = FALSE, !.body_waker = FALSE]

\* Variant: the producer's waker is dropped, not called.
WakerDropped(w, b) == w

Woken(w, b) == [w EXCEPT !.woken = @ \/ b.producer_waker]
Polled(h, b) == [h EXCEPT !.polled = @ \/ b.body_waker]

\* finish: a cancelled bridge keeps its state.
finished_bridge(b, result) ==
    IF b.cancelled THEN b ELSE [b EXCEPT !.terminal = result, !.body_waker = FALSE]

Ended(w) == [w EXCEPT !.at = "done", !.lease = FALSE, !.woken = FALSE]

\* Before the first byte every failure is an error response through the gate.
fail_startup == worker' = Ended(worker) /\ gate' = "failed"

(***************************************************************************)
(* The worker.                                                             *)
(***************************************************************************)
\* open_active or open_archive.  The archive reader takes a lease of its own.
OpenReader ==
    /\ worker.at = "open"
    /\ \/ worker' = [worker EXCEPT !.at = "capture", !.lease = Archive] /\ UNCHANGED gate
       \/ fail_startup
    /\ UNCHANGED <<committed, serving, online, bridge, handler, client>>

\* capture fixes the watermark; a request beyond it is refused.
Capture ==
    /\ worker.at = "capture"
    /\ LET through == IF client.through = 0 THEN committed ELSE client.through IN
         IF through > committed
         THEN fail_startup
         ELSE /\ worker' = [worker EXCEPT !.at = "preflight", !.captured = committed,
                               !.through = through]
              /\ UNCHANGED gate
    /\ UNCHANGED <<committed, serving, online, bridge, handler, client>>

\* The collecting scan: no byte is written, so its failure is an error response.
Preflight ==
    /\ worker.at = "preflight"
    /\ \/ worker' = [worker EXCEPT !.at = "announce"] /\ UNCHANGED gate
       \/ fail_startup
    /\ UNCHANGED <<committed, serving, online, bridge, handler, client>>

\* The first poll_write sends the response metadata, if the handler still waits.
Announce ==
    /\ worker.at = "announce"
    /\ IF handler.at = "waiting"
       THEN /\ gate' = "ready" /\ worker' = [worker EXCEPT !.at = "register"]
            /\ UNCHANGED <<bridge, handler>>
       ELSE /\ gate' = "failed" /\ worker' = Ended(worker)
            /\ bridge' = cancelled_bridge(bridge) /\ handler' = Polled(handler, bridge)
    /\ UNCHANGED <<committed, serving, online, client>>

\* ... and then waits for the body in a second critical section.
wait_for_body ==
    /\ worker.at = "register"
    /\ IF bridge.body_started
       THEN worker' = [worker EXCEPT !.at = "write"] /\ UNCHANGED bridge
       ELSE /\ worker' = [worker EXCEPT !.at = "parked"]
            /\ bridge' = [bridge EXCEPT !.producer_waker = TRUE]
    /\ UNCHANGED <<committed, serving, online, gate, handler, client>>

Unpark ==
    /\ worker.at = "parked" /\ worker.woken
    /\ worker' = [worker EXCEPT !.at = "write", !.woken = FALSE]
    /\ UNCHANGED <<committed, serving, online, gate, bridge, handler, client>>

poll_write ==
    /\ worker.at = "write" /\ worker.written < ChunksOf(worker.through)
    /\ \/ /\ bridge.cancelled
          /\ worker' = Ended(worker)
          /\ UNCHANGED <<bridge, handler>>
       \/ /\ ~bridge.cancelled /\ (~bridge.body_started \/ bridge.chunk # NoChunk)
          /\ worker' = [worker EXCEPT !.at = "parked"]
          /\ bridge' = [bridge EXCEPT !.producer_waker = TRUE]
          /\ UNCHANGED handler
       \/ /\ ~bridge.cancelled /\ bridge.body_started /\ bridge.chunk = NoChunk
          /\ worker' = [worker EXCEPT !.written = @ + 1]
          /\ bridge' = [bridge EXCEPT !.chunk = worker.written + 1, !.producer_waker = FALSE,
                           !.body_waker = FALSE]
          /\ handler' = Polled(handler, bridge)
    /\ UNCHANGED <<committed, serving, online, gate, client>>

\* The producer ends: with every packet written, or because the emitting scan
\* could not read a page.
EndProducer ==
    /\ worker.at = "write"
    /\ \E result \in {"complete", "failed"} :
         /\ result = "complete" <=> worker.written = ChunksOf(worker.through)
         /\ bridge' = finished_bridge(bridge, result)
    /\ handler' = Polled(handler, bridge)
    /\ worker' = Ended(worker)
    /\ UNCHANGED <<committed, serving, online, gate, client>>

(***************************************************************************)
(* The handler.                                                            *)
(***************************************************************************)
\* The future of the route receives the outcome of the gate.
AwaitStartup ==
    /\ handler.at = "waiting" /\ online /\ gate \in {"ready", "failed"}
    /\ IF gate = "ready"
       THEN /\ handler' = [at |-> "body", polled |-> TRUE]
            /\ client' = [client EXCEPT !.at = "headers", !.meta = worker.through]
            /\ UNCHANGED <<bridge, worker>>
       ELSE /\ handler' = [handler EXCEPT !.at = "gone"]
            /\ client' = [client EXCEPT !.at = "failed"]
            /\ bridge' = cancelled_bridge(bridge) /\ worker' = Woken(worker, bridge)
    /\ UNCHANGED <<committed, serving, online, gate>>

\* The connection polls the body: a chunk first, then the end, clean or failed.
\* The first poll releases the worker that waits for the body.
poll_frame ==
    /\ handler.at = "body" /\ online /\ handler.polled
    /\ client.at = "body"  \* the frames of a response follow its headers
    /\ LET started == [bridge EXCEPT !.body_started = TRUE, !.body_waker = TRUE,
                          !.producer_waker = @ /\ bridge.body_started /\ bridge.chunk = NoChunk]
           wakes == ~bridge.body_started \/ bridge.chunk # NoChunk
           w == IF wakes THEN Woken(worker, bridge) ELSE worker IN
       IF bridge.chunk # NoChunk
       THEN /\ client' = [client EXCEPT !.received = Append(@, bridge.chunk)]
            /\ bridge' = [started EXCEPT !.chunk = NoChunk]
            /\ worker' = w
            /\ UNCHANGED <<handler, online>>
       ELSE IF bridge.terminal = "open" /\ ~bridge.cancelled
       THEN /\ bridge' = started /\ handler' = [handler EXCEPT !.polled = FALSE]
            /\ worker' = w
            /\ UNCHANGED <<client, online>>
       ELSE \* the body ends and is dropped, which cancels the bridge
            /\ bridge' = cancelled_bridge(bridge) /\ worker' = Woken(w, bridge)
            /\ handler' = [at |-> "gone", polled |-> FALSE]
            /\ IF bridge.terminal = "failed"
               THEN online' = FALSE /\ UNCHANGED client
               ELSE client' = [client EXCEPT !.at = "ended"] /\ UNCHANGED online
    /\ UNCHANGED <<committed, serving, gate>>

\* A lost connection drops the waiting future or the body: both cancel the bridge.
DropHandler ==
    /\ ~online /\ handler.at \in {"waiting", "body"}
    /\ bridge' = cancelled_bridge(bridge) /\ worker' = Woken(worker, bridge)
    /\ handler' = [at |-> "gone", polled |-> FALSE]
    /\ UNCHANGED <<committed, serving, online, gate, client>>

(***************************************************************************)
(* The client.                                                             *)
(***************************************************************************)
ClientFails(c) == [c EXCEPT !.at = "failed"]

IdentityBefore ==
    /\ client.at = "identity_before"
    /\ client' = IF serving = "this" THEN [client EXCEPT !.at = "request"] ELSE ClientFails(client)
    /\ UNCHANGED <<committed, serving, online, gate, bridge, worker, handler>>

\* The request starts the handler, which starts the worker.
Request ==
    /\ client.at = "request" /\ online
    /\ client' = [client EXCEPT !.at = "response"]
    /\ handler' = [handler EXCEPT !.at = "waiting"]
    /\ worker' = [worker EXCEPT !.at = "open"]
    /\ gate' = "pending"
    /\ UNCHANGED <<committed, serving, online, bridge>>

\* The response headers name the Run and repeat the requested sequence.
validate_remote_metadata ==
    /\ client.at = "headers"
    /\ client' = IF serving = "this" /\ client.through \in {0, client.meta}
                 THEN [client EXCEPT !.at = "body"] ELSE ClientFails(client)
    /\ online' = (online /\ client'.at = "body")
    /\ UNCHANGED <<committed, serving, gate, bridge, worker, handler>>

\* The body must end between two packets and begin with the metadata descriptor.
TraceBodyValidator ==
    /\ client.at = "ended"
    /\ client' = IF client.received # <<>> /\ client.received[1] = 1 /\ Len(client.received) % 2 = 0
                 THEN [client EXCEPT !.at = "identity_after"] ELSE ClientFails(client)
    /\ UNCHANGED <<committed, serving, online, gate, bridge, worker, handler>>

IdentityAfter ==
    /\ client.at = "identity_after"
    /\ client' = IF serving = "this" THEN [client EXCEPT !.at = "success"] ELSE ClientFails(client)
    /\ UNCHANGED <<committed, serving, online, gate, bridge, worker, handler>>

ConnectionLost ==
    /\ ~online /\ client.at \in {"request", "response", "headers", "body"}
    /\ client' = ClientFails(client)
    /\ UNCHANGED <<committed, serving, online, gate, bridge, worker, handler>>

(***************************************************************************)
(* The environment.                                                        *)
(***************************************************************************)
\* The client is interrupted, or the connection breaks.
Disconnect ==
    /\ online
    /\ online' = FALSE
    /\ UNCHANGED <<committed, serving, gate, bridge, worker, handler, client>>

\* The Run ends and another one takes its address.
Replace ==
    /\ serving = "this"
    /\ serving' = "other"
    /\ online' = (online /\ handler.at \notin {"waiting", "body"})
    /\ UNCHANGED <<committed, gate, bridge, worker, handler, client>>

CommitEvent ==
    /\ committed < MaxCommitted
    /\ committed' = committed + 1
    /\ UNCHANGED <<serving, online, gate, bridge, worker, handler, client>>

WorkerStep == \/ OpenReader \/ Capture \/ Preflight \/ Announce \/ wait_for_body \/ Unpark
              \/ poll_write \/ EndProducer
HandlerStep == AwaitStartup \/ poll_frame \/ DropHandler
ClientStep == \/ IdentityBefore \/ Request \/ validate_remote_metadata \/ TraceBodyValidator
              \/ IdentityAfter \/ ConnectionLost
DumpNext == WorkerStep \/ HandlerStep \/ ClientStep \/ Disconnect \/ Replace \/ CommitEvent

\* The blocking thread, the server's executor and the client run.
DumpFairness ==
    /\ WF_dumpVars(WorkerStep) /\ WF_dumpVars(HandlerStep) /\ WF_dumpVars(ClientStep)

(***************************************************************************)
(* Properties.                                                             *)
(***************************************************************************)
\* A download that succeeds is the whole trace of the sequence its headers named:
\* every chunk of the captured prefix, once and in order.  A worker that fails
\* between two packets must not look like the end of the trace.
DownloadIsComplete ==
    client.at = "success" =>
       /\ client.received = [i \in 1 .. ChunksOf(client.meta) |-> i]
       /\ client.meta = worker.through /\ worker.through <= worker.captured
       /\ client.through # 0 => client.meta = client.through

\* Every download ends on both sides, and the worker lets go of the archive,
\* unless the connection is lost in the one window between the send of the
\* metadata and the registration of the worker's waker.
DownloadsEnd ==
    [](worker.at = "register" => online) =>
       <>[](worker.at \in {"idle", "done"} /\ ~worker.lease /\ client.at \in {"success", "failed"})
===============================================================================
