------------------------------ MODULE LiveStream ------------------------------
(***************************************************************************)
(* A Run's committed log, the server that streams it and one client of it: *)
(* a command line follower or a browser.  Clients do not interact, so one  *)
(* is enough; which one it is, is chosen at the start ("view" is a browser *)
(* whose user pauses and queries, "web" one that only follows).            *)
(*                                                                         *)
(* A frame leaves the server's queue and reaches the client in one step.   *)
(* Bytes lost in flight when a connection breaks are frames that were not  *)
(* polled before it broke.                                                 *)
(***************************************************************************)
EXTENDS EventFollow, LiveController

CONSTANTS MaxEvents,    \* events the Run commits at most
          MaxBatch,     \* events in one commit
          MaxFaults     \* broken connections and failed store reads

ASSUME StreamBounds == MaxEvents \in Nat /\ MaxBatch \in Nat \ {0} /\ MaxFaults \in Nat

VARIABLES kind,      \* which client this behaviour has, and whether its user looks around
          store,     \* the committed head and whether the Run is finalized
          signal,    \* the commit signal
          server,    \* "running" or "stopped"
          conn,      \* the replay session of the client's connection
          cli,       \* the follower
          web,       \* the browser controller
          faults,    \* faults so far, and whether a store read failed
          reported   \* a core failure reached the Run

vars == <<kind, store, signal, server, conn, cli, web, faults, reported>>

Init ==
  /\ kind \in {"cli", "web", "view"}
  /\ store = [head |-> 0, final |-> FALSE]
  /\ signal = SignalNew
  /\ server = "running"
  /\ conn = NoSession
  /\ \E start \in EventStarts :
       /\ cli = FollowerNew(start)
       /\ kind # "cli" => start.k = "after"
  /\ web = ControllerNew
  /\ faults = [n |-> 0, read |-> FALSE]
  /\ reported = FALSE

-----------------------------------------------------------------------------
(* The Run *)

\* The writer commits a batch; its observer is notified afterwards, by the same thread.
CommitBatch ==
  /\ ~store.final /\ signal.head = store.head
  /\ \E n \in 1..MaxBatch :
       /\ store.head + n <= MaxEvents
       /\ store' = [store EXCEPT !.head = @ + n]
  /\ UNCHANGED <<kind, signal, server, conn, cli, web, faults, reported>>

NotifyCommitted ==
  /\ signal.head < store.head
  /\ signal' = SignalAdvance(signal, signal.head, store.head)
  /\ UNCHANGED <<kind, store, server, conn, cli, web, faults, reported>>

\* Ordered shutdown: finalize the Run, close the live stream, stop the server.
FinalizeWriter ==
  /\ ~store.final /\ signal.head = store.head
  /\ store' = [store EXCEPT !.final = TRUE]
  /\ UNCHANGED <<kind, signal, server, conn, cli, web, faults, reported>>

CloseLiveStream ==
  /\ store.final /\ signal.status = "open"
  /\ signal' = SignalClose(signal, store.head)
  /\ UNCHANGED <<kind, store, server, conn, cli, web, faults, reported>>

\* stop_connections aborts every connection task; the clients see a broken body.
Breaks ==
  /\ conn' = NoSession
  /\ cli' = IF cli.phase = "stream" THEN Reconnects(cli) ELSE cli
  /\ web' = IF web.es = "open" THEN onError(web, TRUE) ELSE web

StopServer ==
  /\ signal.status = "closed" /\ server = "running"
  /\ server' = "stopped"
  /\ Breaks
  /\ UNCHANGED <<kind, store, signal, faults, reported>>

-----------------------------------------------------------------------------
(* The server's driver task *)

DriverTurn(step) ==
  /\ \E next \in {step} \ {conn} :
       /\ conn' = next
       /\ reported' = (reported \/ next.failed)
  /\ UNCHANGED <<kind, store, signal, server, cli, web>>

DriveReplay ==
  /\ conn.phase = "replaying"
  /\ DriverTurn(drive_replay(conn, signal, store.head))
  /\ UNCHANGED faults

DriveLive ==
  /\ \/ conn.phase = "live" /\ DriverTurn(wait_for_live_range(conn, signal))
     \/ conn.phase = "pushing" /\ DriverTurn(drive_live_range(conn, signal, store.head))
  /\ UNCHANGED faults

Heartbeat ==
  /\ conn.phase = "live"
  /\ DriverTurn(heartbeat(conn, signal))
  /\ UNCHANGED faults

\* A page could not be read from the store.
ReadFails ==
  /\ faults.n < MaxFaults
  /\ \/ conn.phase = "replaying" /\ conn.ingested < conn.through
     \/ conn.phase = "pushing"
  /\ DriverTurn(DriverFails(conn, signal))
  /\ faults' = [n |-> faults.n + 1, read |-> TRUE]

-----------------------------------------------------------------------------
(* Connections *)

\* One GET of the stream is answered: the session that "begin" leaves.
MayFault == {FALSE} \union {b \in {TRUE} : faults.n < MaxFaults}

Begun(started, fault) ==
  /\ conn' = started.session
  /\ reported' = (reported \/ started.status >= 500)
  /\ faults' = IF fault THEN [n |-> faults.n + 1, read |-> TRUE] ELSE faults

\* The response body yields a frame to the client.
PollFrame ==
  /\ CanPoll(conn.sub) /\ conn.phase # "pushing"
  /\ LET frame == NextFrame(conn.sub)
         next == [conn EXCEPT !.sub = poll_frame(@)]
     IN  /\ cli' = IF cli.phase = "stream" THEN consume_connection(cli, frame) ELSE cli
         /\ web' = IF web.es = "open" THEN handleFrame(web, frame) ELSE web
         \* a client drops the response it is done with: after a terminal frame, always
         /\ conn' = IF cli'.phase = "stream" \/ web'.es = "open" THEN next ELSE NoSession
  /\ UNCHANGED <<kind, store, signal, server, faults, reported>>

ConnectionBreaks ==
  /\ conn # NoSession /\ faults.n < MaxFaults
  /\ Breaks
  /\ faults' = [faults EXCEPT !.n = @ + 1]
  /\ UNCHANGED <<kind, store, signal, server, reported>>

-----------------------------------------------------------------------------
(* The follower *)

OnlyCli == UNCHANGED <<kind, store, signal, server, web>>

FollowQuery ==
  /\ kind = "cli" /\ cli.phase = "query" /\ server = "running"
  /\ cli' = InitialQuery(cli, store.head, query_events(cli.start, store.head))
  /\ OnlyCli /\ UNCHANGED <<conn, faults, reported>>

\* The first query has no retry: without a server the command ends with an error.
FollowQueryFails ==
  /\ kind = "cli" /\ cli.phase = "query" /\ server = "stopped"
  /\ cli' = Finishes(cli, "error")
  /\ OnlyCli /\ UNCHANGED <<conn, faults, reported>>

FollowIdentity ==
  /\ kind = "cli" /\ cli.phase = "identity"
  /\ cli' = revalidate_identity(cli, server = "running")
  /\ OnlyCli /\ UNCHANGED <<conn, faults, reported>>

FollowConnect ==
  /\ kind = "cli" /\ cli.phase = "connect"
  /\ IF server = "running"
     THEN \E fault \in MayFault :
            LET started == begin(RequestCursor(cli), signal, store.head, fault)
            IN  cli' = connect(cli, started.status) /\ Begun(started, fault)
     ELSE cli' = Reconnects(cli) /\ UNCHANGED <<conn, faults, reported>>
  /\ OnlyCli

FollowInterrupted ==
  /\ kind = "cli" /\ Follows(cli)
  /\ cli' = Finishes(cli, "interrupted")
  /\ conn' = NoSession
  /\ OnlyCli /\ UNCHANGED <<faults, reported>>

-----------------------------------------------------------------------------
(* The browser *)

OnlyWeb == UNCHANGED <<kind, store, signal, server, cli>>

WebStart ==
  /\ kind # "cli" /\ web.phase = "idle"
  /\ web' = controller_start(web)
  /\ OnlyWeb /\ UNCHANGED <<conn, faults, reported>>

\* A status or snapshot fetch completes, or fails because the server is gone.
WebFetch ==
  /\ kind # "cli" /\ web.op # "none"
  /\ web' = CASE server = "stopped" -> fail(web)
              [] server = "running" /\ web.op = "status" -> StatusReceived(web, ~store.final)
              [] server = "running" /\ web.op = "snapshot" -> StateFromSnapshot(web, store.head)
  /\ OnlyWeb /\ UNCHANGED <<conn, faults, reported>>

WebConnect ==
  /\ kind # "cli" /\ web.es = "connecting" /\ server = "running"
  /\ \E fault \in MayFault :
       LET started == begin(EventSourceCursor(web), signal, store.head, fault)
       IN  /\ web' = IF started.status = 200 THEN onOpen(web) ELSE onError(web, FALSE)
           /\ Begun(started, fault)
  /\ OnlyWeb

WebPause ==
  /\ kind = "view" /\ HasState(web) /\ ~web.paused
  /\ web' = pause(web)
  /\ OnlyWeb /\ UNCHANGED <<conn, faults, reported>>

WebResume ==
  /\ kind = "view" /\ HasState(web) /\ web.paused
  /\ web' = resume(web)
  /\ OnlyWeb /\ UNCHANGED <<conn, faults, reported>>

WebRequestConsumed ==
  /\ kind = "view" /\ web.request
  /\ web' = resumeRequestConsumed(web)
  /\ OnlyWeb /\ UNCHANGED <<conn, faults, reported>>

\* A view asks the server; the answer comes back whenever it does.
WebQuery ==
  /\ kind = "view" /\ HasState(web) /\ ~isTerminal(web) /\ server = "running"
  /\ web.fetch = NoFetch
  /\ web' = [web EXCEPT !.fetch = store.head]
  /\ OnlyWeb /\ UNCHANGED <<conn, faults, reported>>

WebQueryAnswered ==
  /\ kind = "view" /\ web.fetch # NoFetch
  /\ web' = [web EXCEPT !.fetch = NoFetch,
                        !.query = cacheQueryResult(@, cacheQueryForCurrentState(web, web.fetch))]
  /\ OnlyWeb /\ UNCHANGED <<conn, faults, reported>>

WebStop ==
  /\ kind # "cli" /\ web.phase # "stopped"
  /\ web' = stop(web)
  /\ conn' = NoSession
  /\ OnlyWeb /\ UNCHANGED <<faults, reported>>

-----------------------------------------------------------------------------

Run == CommitBatch \/ FinalizeWriter \/ CloseLiveStream \/ StopServer

Serve == NotifyCommitted \/ DriveReplay \/ DriveLive

Client == FollowQuery \/ FollowQueryFails \/ FollowIdentity \/ FollowConnect
          \/ WebStart \/ WebFetch \/ WebConnect

User == FollowInterrupted \/ WebPause \/ WebResume \/ WebRequestConsumed
        \/ WebQuery \/ WebQueryAnswered \/ WebStop

Next == Run \/ Serve \/ PollFrame \/ Client \/ User \/ Heartbeat \/ ReadFails \/ ConnectionBreaks

\* The writer thread and the server's tasks keep running, and so does the client's loop; the
\* Run may stay open, users need not act, and heartbeats and faults need not happen.
Spec == Init /\ [][Next]_vars /\ WF_vars(Serve) /\ WF_vars(PollFrame \/ Client)

-----------------------------------------------------------------------------
(* Properties *)

\* events --follow writes each committed event after its starting point exactly once and in
\* order, across every reconnect, overflow and broken connection, and it ends with success
\* only when everything the Run committed has been written.
FollowWritesEachEventOnce ==
  /\ \A i \in 1..Len(cli.out) : cli.out[i] = cli.from + i
  /\ cli.phase \notin {"query", "error"} => cli.cursor = cli.from + Len(cli.out)
  /\ cli.phase = "closed" => store.final /\ cli.cursor = store.head

\* A client ends in an error, and the Run is told of a core failure, only when the server is
\* gone or a store read failed: a slow, paused, disconnected or reconnecting client is
\* isolated, and a browser that says the Run is closed holds all of it.
ClientsAreIsolated ==
  /\ reported => faults.read
  /\ cli.phase = "error" \/ web.phase = "failed" => faults.read \/ server = "stopped"
  /\ web.phase = "closed" => store.final /\ web.delivered = store.head

\* Clients get the whole Run or learn that they did not, whatever the others do.
DeliveryIsExact == FollowWritesEachEventOnce /\ ClientsAreIsolated

\* What the browser can show without asking the server.
Shown(w) ==
  {s \in 1..w.delivered : \/ s > Larger(w.base, w.dropped)
                          \/ s > w.window.after /\ s <= w.window.through}

\* Resuming a paused view either asks the server for the range that passed meanwhile or
\* still holds all of it, although the live edge and the snapshot window are bounded and
\* the state may have been rebuilt from a snapshot while paused.
ResumeLosesNothing ==
  [][web.paused /\ ~web'.paused /\ ~web'.request =>
       \A s \in (web.pausedAt + 1)..web.watermark : s \in Shown(web)]_web

\* A cached query result that is not marked stale has seen every event it depends on up to
\* the watermark the browser knows, whatever order answers, events and resyncs came in.
CachedQueriesAreFresh ==
  web.query.k = "have" /\ ~web.query.stale =>
    \A s \in (web.query.cap + 1)..web.watermark : s \notin Relevant

\* A client that keeps following catches up with whatever has been committed, again after
\* every commit, overflow and reconnect, for as long as the server runs.
CommittedEventsArrive ==
  []<>(\/ IF kind = "cli" THEN cli.cursor = store.head ELSE web.delivered = store.head
       \/ server = "stopped" \/ faults.read
       \/ cli.phase = "interrupted" \/ web.phase = "stopped" \/ kind = "view")
=============================================================================
