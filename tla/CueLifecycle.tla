---------------------------- MODULE CueLifecycle ----------------------------
(***************************************************************************)
(* The diagnostic lifecycle of one Cue, as CueLifecycleProducer keeps it   *)
(* (diagnostic_runtime/cue_producer.rs).  The orchestration calls one hook *)
(* per step of a CueOperation; each hook checks the phase it expects,      *)
(* emits the span and counter events of the step, and moves the phase on.  *)
(*                                                                         *)
(* A lifecycle is a record: "phase" is the CuePhase ("absent" stands for   *)
(* no producer in the table), "cancelRequested" for cancel_sequence, and   *)
(* "failed" for a state failure latched in the Runtime because of this Cue *)
(* (fail_state and latch_missing: the Run cannot finish cleanly any more). *)
(* A span is open exactly in the phases "enqueued" (the mailbox wait) and  *)
(* "dispatched" (the execution).                                           *)
(***************************************************************************)

LifecyclePhases == {"absent", "admitted", "enqueued", "dispatched", "terminal"}

Lifecycles == [phase : LifecyclePhases, cancelRequested : BOOLEAN,
               callerFinished : BOOLEAN, failed : BOOLEAN]

NoLifecycle == [phase |-> "absent", cancelRequested |-> FALSE,
                callerFinished |-> FALSE, failed |-> FALSE]

\* fail_state and latch_missing: the producer failure of the Run is latched.
Latch(l) == [l EXCEPT !.failed = TRUE]

\* remove: the producer leaves the table; what it latched stays latched.
Removed(l) == [NoLifecycle EXCEPT !.failed = l.failed]

\* with_producer, and the test of producer_failed that the hooks begin with.
WithProducer(l, expected, next) ==
  CASE l.phase = "absent" -> Latch(l)
    [] l.phase # "absent" /\ l.failed -> l
    [] l.phase # "absent" /\ ~l.failed -> IF expected THEN next ELSE Latch(l)

Admitted(l) ==
  IF l.phase = "absent" THEN [l EXCEPT !.phase = "admitted"] ELSE Latch(l)

Enqueued(l) ==
  WithProducer(l, l.phase = "admitted", [l EXCEPT !.phase = "enqueued"])

Dispatched(l) ==
  WithProducer(l, l.phase = "enqueued", [l EXCEPT !.phase = "dispatched"])

CancelRequested(l) ==
  WithProducer(l, l.phase # "terminal" /\ ~l.cancelRequested,
               [l EXCEPT !.cancelRequested = TRUE])

\* A Cue that was retired before its caller finished has no producer left,
\* and the hook does nothing.
CallerFinished(l) ==
  CASE l.phase = "absent" -> l
    [] l.phase # "absent" /\ l.callerFinished -> Latch(l)
    [] OTHER -> [l EXCEPT !.callerFinished = TRUE]

\* Completed before dispatch is a state failure; every other outcome closes
\* the span that is open, if one is.
Terminal(l, outcome) ==
  LET closed == [l EXCEPT !.phase = "terminal"]
  IN  IF l.phase # "absent" /\ l.failed
      THEN closed
      ELSE WithProducer(l, \/ l.phase = "dispatched"
                           \/ l.phase \in {"admitted", "enqueued"} /\ outcome # "success",
                        closed)

\* Retirement from the mailbox expects a terminal lifecycle and removes the
\* producer in either case.
Retired(l) ==
  IF l.phase = "terminal" THEN Removed(l) ELSE Removed(Latch(l))
=============================================================================
