--------------------------- MODULE RunDiagnostics ---------------------------
(***************************************************************************)
(* What the diagnostics record of a Run and of its Scenes.  Three          *)
(* producers follow the hooks of the orchestration: the                    *)
(* RuntimeLifecycleProducer of the Run (diagnostic_runtime/                *)
(* runtime_producer.rs), the SceneLifecycleProducer of a Scene             *)
(* (scene_producer.rs) and the SceneDrainProducer of its end               *)
(* (scene_drain_producer.rs).  Each checks that a hook is due, opens or    *)
(* closes the span of the step, and latches a failure of the whole Run in  *)
(* the first one when it is not.                                           *)
(*                                                                         *)
(* The state of all three is one record "diag".  A span is "none", "open"  *)
(* or the outcome it was closed with.  A failure is "state" when a hook    *)
(* was out of order, "external" when the pipeline behind the producers     *)
(* failed.  An error is "none", "cancelled" (asyncio.CancelledError) or    *)
(* "error".                                                                *)
(***************************************************************************)
EXTENDS Naturals

Outcomes == {"completed", "cancelled", "failed"}

\* phase_terminal, scene_terminal and returned_terminal.
OutcomeOf(error) ==
  CASE error = "none" -> "completed"
    [] error = "cancelled" -> "cancelled"
    [] error = "error" -> "failed"

\* The producer of the Run; "installed" is its place in the registry.
NoRun ==
  [installed |-> FALSE, started |-> FALSE, span |-> "none", start |-> "none",
   stop |-> "none", shutdown |-> "none", first |-> "none", terminal |-> "none",
   failure |-> "none"]

\* The producer of the current Scene; "there" is its entry in the table.
NoScene == [there |-> FALSE, span |-> "none", task |-> "none", cleaned |-> FALSE]

NoDrain ==
  [there |-> FALSE, driver |-> "pending", closed |-> FALSE, cancelling |-> FALSE,
   cleaning |-> FALSE, failed |-> FALSE, drain |-> "none", cleanup |-> "none",
   drained |-> "none", cleaned |-> "completed"]

NoDiagnostics == [run |-> NoRun, scene |-> NoScene, drain |-> NoDrain]

Broken(d) == d.run.failure # "none"

\* latch_failure keeps the first failure.
Latched(d, cause) ==
  IF Broken(d) THEN d ELSE [d EXCEPT !.run.failure = cause]

-----------------------------------------------------------------------------
(* RuntimeLifecycleProducer.                                               *)

\* observe_core and observe_binding: a hook without a producer, and every
\* hook after a failure, is ignored; one that is not due latches a failure.
ObserveRun(d, due, next) ==
  CASE ~d.run.installed \/ Broken(d) -> d
    [] d.run.installed /\ ~Broken(d) -> IF due THEN next ELSE Latched(d, "state")

\* install and run_started.
RunStarted(d) ==
  [d EXCEPT !.run.installed = TRUE, !.run.started = TRUE, !.run.span = "open"]

EnterStart(d) ==
  ObserveRun(d, d.run.started /\ d.run.start = "none", [d EXCEPT !.run.start = "open"])

FinishStart(d, error) ==
  ObserveRun(d, d.run.start = "open",
          [d EXCEPT !.run.start = OutcomeOf(error),
                    !.run.first = IF error = "none" THEN @ ELSE OutcomeOf(error)])

ObserveSceneReturn(d, error) ==
  ObserveRun(d, TRUE, [d EXCEPT !.run.first = IF error = "error" /\ @ = "none"
                                           THEN "failed" ELSE @])

EnterStop(d) ==
  ObserveRun(d, d.run.started /\ d.run.start = "completed" /\ d.run.stop = "none",
          [d EXCEPT !.run.stop = "open"])

FinishStop(d, error) ==
  ObserveRun(d, d.run.stop = "open",
          [d EXCEPT !.run.stop = OutcomeOf(error),
                    !.run.first = IF error # "none" /\ @ = "none"
                                  THEN OutcomeOf(error) ELSE @])

EnterShutdown(d) ==
  IF d.run.span \in Outcomes THEN d
  ELSE ObserveRun(d, d.run.shutdown = "none", [d EXCEPT !.run.shutdown = "open"])

\* The phases a lifecycle may return with: either start succeeded and stop ran,
\* or start did not and stop was never entered.  An error is a ProductionFailed.
LifecycleReturned(d, failed) ==
  LET proven == \/ d.run.start = "completed" /\ d.run.stop \in Outcomes
                \/ d.run.start \in {"cancelled", "failed"} /\ d.run.stop = "none"
      due == /\ d.run.terminal = "none" /\ d.run.span = "open" /\ proven
             /\ failed \/ d.run.first = "none"
      terminal == CASE ~failed -> "completed"
                    [] failed /\ d.run.first # "none" -> d.run.first
                    [] failed /\ d.run.first = "none" -> "failed"
  IN  ObserveRun(d, due, [d EXCEPT !.run.terminal = terminal])

\* finish_run, which closes the shutdown span with the outcome of the Run, and
\* the detach of observe_core, which happens whatever finish_run found.
FinishRun(d) ==
  LET due == /\ d.run.span = "open" /\ d.run.terminal # "none"
             /\ d.run.start # "open" /\ d.run.stop # "open"
      closed == [d EXCEPT !.run.span = d.run.terminal,
                          !.run.shutdown = IF @ = "open" THEN d.run.terminal ELSE @]
  IN  [ObserveRun(d, due, closed) EXCEPT !.run.installed = FALSE]

-----------------------------------------------------------------------------
(* SceneLifecycleProducer.                                                 *)

\* A latch goes through the producer of the Run, as long as it is registered.
LatchedInRun(d) == IF d.run.installed THEN Latched(d, "state") ELSE d

SceneCreated(d) ==
  CASE ~d.run.installed \/ Broken(d) -> d
    [] d.run.installed /\ ~Broken(d) /\ d.scene.there -> Latched(d, "state")
    [] OTHER -> [d EXCEPT !.scene = [NoScene EXCEPT !.there = TRUE, !.span = "open"],
                          !.drain = NoDrain]

\* The span closes once the task has ended and the Scene is drained, in either
\* order; after a failure of the Run it stays open.
TryFinish(d) ==
  IF d.scene.task = "none" \/ ~d.scene.cleaned THEN d
  ELSE [d EXCEPT !.scene.there = FALSE,
                 !.scene.span = IF Broken(d) THEN @ ELSE d.scene.task]

TaskFinished(d, error) ==
  IF ~d.scene.there \/ d.scene.task # "none" THEN LatchedInRun(d)
  ELSE TryFinish([d EXCEPT !.scene.task = OutcomeOf(error)])

SceneFinished(d) ==
  IF ~d.scene.there \/ d.scene.cleaned THEN LatchedInRun(d)
  ELSE TryFinish([d EXCEPT !.scene.cleaned = TRUE])

-----------------------------------------------------------------------------
(* SceneDrainProducer.                                                     *)

\* producer_or_install.
WithDrain(d) ==
  IF d.drain.there \/ ~d.run.installed \/ Broken(d) \/ ~d.scene.there THEN d
  ELSE [d EXCEPT !.drain = [NoDrain EXCEPT !.there = TRUE]]

\* A producer that has failed ignores its hooks; one that is not due fails it.
DrainObserves(d, due, next) ==
  CASE ~d.drain.there \/ d.drain.failed -> d
    [] d.drain.there /\ ~d.drain.failed ->
         IF due THEN next ELSE [Latched(d, "state") EXCEPT !.drain.failed = TRUE]

\* driver_exited: the coroutine of the Scene returned or raised, or its driver
\* was closed before it ran.
DriverExited(found, exit, error) ==
  LET d == WithDrain(found)
  IN  DrainObserves(d, d.drain.driver = "pending" /\ ~d.drain.closed,
        [d EXCEPT !.drain.driver = "observed",
                  !.drain.drained = IF exit = "closed" THEN "cancelled" ELSE OutcomeOf(error),
                  !.drain.cleaned = IF exit = "closed" THEN OutcomeOf(error) ELSE "completed"])

\* admission_closed: a Scene that closes although its driver never reported is
\* recorded as a gap.
AdmissionClosed(found) ==
  LET d == WithDrain(found)
  IN  DrainObserves(d, ~d.drain.closed,
        IF d.drain.driver = "pending"
        THEN [d EXCEPT !.drain.closed = TRUE, !.drain.driver = "lost"]
        ELSE [d EXCEPT !.drain.closed = TRUE, !.drain.drain = "open"])

CleanupStarted(found) ==
  LET d == WithDrain(found)
  IN  DrainObserves(d, d.drain.closed /\ ~d.drain.cleaning,
        [d EXCEPT !.drain.cleaning = TRUE, !.drain.cleanup = "open"])

CancellationStarted(found) ==
  LET d == WithDrain(found)
  IN  DrainObserves(d, d.drain.closed /\ d.drain.cleaning /\ ~d.drain.cancelling,
        [d EXCEPT !.drain.cancelling = TRUE])

\* cleanup_finished closes the drain span, then the cleanup span, and the
\* producer leaves the table.
CleanupFinished(found) ==
  LET d == WithDrain(found)
      closed == [d EXCEPT !.drain.drain = IF @ = "open" THEN d.drain.drained ELSE @,
                          !.drain.cleanup = d.drain.cleaned]
  IN  [DrainObserves(d, d.drain.closed /\ d.drain.cleaning, closed)
         EXCEPT !.drain.there = FALSE]
=============================================================================
