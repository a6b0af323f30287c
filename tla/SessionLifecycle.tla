-------------------------- MODULE SessionLifecycle --------------------------
(***************************************************************************)
(* What a session tells diagnostics about its own life.                    *)
(*                                                                         *)
(* The agent runtime filters each fact once (SessionDiagnosticLifecycle)   *)
(* and hands the rest, in the order they were enqueued, to the canonical   *)
(* bridge, which keeps one projection of open spans per session and        *)
(* refuses a fact that does not fit it.  A refusal is a core observation   *)
(* failure of the Run.  The two are one record here: the queue has one     *)
(* dispatcher, so facts reach the bridge in the order of the enqueues.     *)
(***************************************************************************)
EXTENDS Naturals

LifecycleNew ==
  [latest |-> 0,             \* latest_opening_attempt, 0 before the first
   ready |-> FALSE, broken |-> FALSE, closing |-> FALSE,
   cleanup_complete |-> FALSE, closed |-> FALSE,
   opening_span |-> 0,       \* generation of the bridge's open opening span
   closing_span |-> FALSE,
   lifecycle_span |-> TRUE,  \* opened by observe_opening when the slot is made
   refused |-> {}]           \* the kinds of fact the bridge refused

Refuse(life, kind) == [life EXCEPT !.refused = @ \cup {kind}]

\* session_opening_attempt: a retry finishes the previous opening span.
BridgeOpeningAttempt(life, generation) ==
  IF life.ready \/ life.closing_span \/ life.closed
     \/ (life.opening_span # 0 /\ generation <= life.opening_span)
  THEN Refuse(life, "attempt")
  ELSE [life EXCEPT !.opening_span = generation]

observe_opening_attempt(life, generation) ==
  IF generation <= life.latest THEN life
  ELSE BridgeOpeningAttempt([life EXCEPT !.latest = generation], generation)

\* session_ready needs the opening span of the same generation.
BridgeReady(life, generation) ==
  IF life.closed \/ life.opening_span # generation THEN Refuse(life, "ready")
  ELSE [life EXCEPT !.opening_span = 0, !.ready = TRUE]

observe_ready(life, generation) ==
  IF life.ready THEN life ELSE BridgeReady(life, generation)

BridgeBroken(life) == IF life.closed THEN Refuse(life, "broken") ELSE life

observe_broken(life) ==
  IF life.broken THEN life ELSE BridgeBroken([life EXCEPT !.broken = TRUE])

\* session_closing ends an abandoned opening span and opens the closing one.
BridgeClosing(life) ==
  IF life.closing_span \/ life.closed THEN Refuse(life, "closing")
  ELSE [life EXCEPT !.opening_span = 0, !.closing_span = TRUE]

\* session_closed ends the closing and the lifecycle span.
BridgeClosed(life) ==
  IF ~life.closing_span THEN Refuse(life, "closed")
  ELSE [life EXCEPT !.closing_span = FALSE, !.lifecycle_span = FALSE]

observe_closing(life) ==
  LET closing == IF life.closing THEN life
                 ELSE BridgeClosing([life EXCEPT !.closing = TRUE])
  IN  IF closing.cleanup_complete /\ ~closing.closed
      THEN [BridgeClosed(closing) EXCEPT !.closed = TRUE] ELSE closing

observe_cleanup_complete(life) ==
  LET complete == [life EXCEPT !.cleanup_complete = TRUE]
  IN  IF life.closing /\ ~life.closed
      THEN [BridgeClosed(complete) EXCEPT !.closed = TRUE] ELSE complete
=============================================================================
