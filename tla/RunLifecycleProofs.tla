-------------------------- MODULE RunLifecycleProofs --------------------------
(***************************************************************************)
(* Proofs about one Run: what its place in run_lifecycle says of its task, *)
(* its Scene, the task factory and its diagnostics.  RunInv is inductive   *)
(* for every step of the Run; ActorCastingProofs adds those of the casts.  *)
(***************************************************************************)
EXTENDS RunLifecycle, TLAPS

Errors == {"none", "cancelled", "error"}
Spans == {"none", "open"} \cup Outcomes
Phases == {"start", "scene", "stop"}

RunRecords == [installed : BOOLEAN, started : BOOLEAN, span : Spans, start : Spans, stop : Spans,
               shutdown : Spans, first : {"none"} \cup Outcomes, terminal : {"none"} \cup Outcomes,
               failure : {"none", "state", "external"}]
SceneRecords == [there : BOOLEAN, span : Spans, task : {"none"} \cup Outcomes, cleaned : BOOLEAN]
DrainRecords == [there : BOOLEAN, driver : {"pending", "observed", "lost"}, closed : BOOLEAN,
                 cancelling : BOOLEAN, cleaning : BOOLEAN, failed : BOOLEAN, drain : Spans,
                 cleanup : Spans, drained : {"none"} \cup Outcomes, cleaned : Outcomes]
Diagnostics == [run : RunRecords, scene : SceneRecords, drain : DrainRecords]

Finals == {"finish", "sessions", "done"}
Waits == {"wait", "cancel", "drain"}

\* The types that the steps of a Run rely on.
RunTypes ==
  /\ story.results \subseteq Errors
  /\ core \in [shutdown : BOOLEAN, observed : BOOLEAN]
  /\ loop \in {"free", "closing"} /\ replaced \in BOOLEAN
  /\ task \in [state : {"none", "running", "done"}, cancel : BOOLEAN, docile : BOOLEAN, error : Errors]
  /\ scene \in [phase : {"Open", "Closing", "Closed"}, operations : {0, 1}]
  /\ returned \in Errors /\ failures \in Seq(Phases)

\* Where the lifecycle is, and the task that is there then.
ControlInv ==
  /\ stage \in {"start", "stop", "scene"} =>
       at \in {"entry", "dispatch", "returned", "close", "check"} \cup Waits
  /\ stage \in {"start", "scene"} => at # "entry"
  /\ stage \in {"bind", "install", "loop", "restore", "finish", "done"} => at = "entry"
  /\ stage \in {"bind", "start", "install", "loop", "scene", "restore", "stop"} \cup Finals
  /\ stage = "sessions" => at \in {"entry", "register", "check", "await", "list", "wait"}
  /\ stage \in {"start", "scene", "stop"} /\ at \in Waits => task.state \in {"running", "done"}
  /\ at \in {"cancel", "drain"} => stage \in {"start", "scene"}
  /\ at = "close" => stage = "scene" /\ task.state = "done"
  /\ at = "check" /\ stage = "scene" => task.state = "done"
  /\ stage = "start" => at # "check"
  /\ stage = "stop" => at # "check"
  /\ at \in {"entry", "dispatch"} \/ stage = "sessions" => task.state = "none"
  /\ at = "returned" => task.state # "running"

\* The Scene, the callback that closes it, and the task factory.
SceneInv ==
  /\ scene.phase = "Open" <=> stage = "scene" /\ task.state = "running"
  /\ scene.phase = "Closed" => scene.operations = 0
  /\ scene.phase = "Closing" => /\ scene.operations = 1 /\ loop = "free"
                                /\ stage = "scene" /\ at \in Waits \cup {"close"}
  /\ loop = "closing" => /\ scene.phase = "Closed" /\ task.state = "done"
                         /\ stage = "scene" /\ at \in Waits \cup {"close", "check"}
  /\ factory = "wrapper" => stage \in {"loop", "scene", "restore"}
  /\ replaced => stage \notin {"bind", "start", "install"}
  /\ replaced /\ stage \in {"stop"} \cup Finals => failures # << >>

\* The producer of the Run, at each stage.
RunSpans(d) ==
  /\ d.run.installed <=> stage \notin {"bind", "sessions", "done"}
  /\ d.run.started <=> stage # "bind"
  /\ stage = "bind" => d.run.span = "none" /\ d.run.start = "none"
  /\ stage = "start" => d.run.start = "open"
  /\ stage \in {"install", "loop", "scene", "restore", "stop"} => d.run.start = "completed"
  /\ stage \in {"bind", "start", "install", "loop", "scene", "restore"} => d.run.stop = "none"
  /\ stage = "stop" => d.run.stop = IF at = "entry" THEN "none" ELSE "open"
  /\ stage \notin {"bind", "sessions", "done"} => /\ d.run.span = "open"
                                                  /\ d.run.shutdown \in {"none", "open"}
  /\ stage \notin Finals => d.run.terminal = "none"
  /\ stage = "bind" \/ ~core.observed => d.run.shutdown = "none"
  /\ d.run.first # "completed"
  /\ d.run.first # "none" => failures # << >>
  /\ d.run.first = "cancelled" => "cancelled" \in {d.run.start, d.run.stop}
  /\ stage \in Finals =>
       /\ \/ d.run.start = "completed" /\ d.run.stop \in Outcomes
          \/ d.run.start \in {"cancelled", "failed"} /\ d.run.stop = "none"
       /\ d.run.terminal \in Outcomes
       /\ d.run.terminal = "completed" <=> failures = << >>
       /\ d.run.terminal = "cancelled" => "cancelled" \in {d.run.start, d.run.stop}
  /\ stage \in {"sessions", "done"} => /\ d.run.span = d.run.terminal
                                       /\ d.run.shutdown \in {"none", d.run.span}

\* The producers of a Scene: nothing there, a Scene that runs, one whose
\* operation is cancelled, one that is drained, all by where the Scene is.
NoSpans(d) ==
  /\ ~d.scene.there /\ d.scene.span # "open" /\ ~d.drain.there
  /\ d.drain.drain # "open" /\ d.drain.cleanup # "open"
Runs(d) == d.scene = [NoScene EXCEPT !.there = TRUE, !.span = "open"] /\ d.drain = NoDrain
Drains(d) ==
  /\ d.scene.there /\ ~d.scene.cleaned /\ d.scene.span = "open"
  /\ d.scene.task = "none" <=> at \in Waits
  /\ d.drain.there /\ ~d.drain.failed /\ d.drain.closed /\ d.drain.cleaning
  /\ d.drain.drain = "open" => d.drain.drained \in Outcomes
Drained(d) ==
  /\ d.scene.there /\ d.scene.cleaned /\ d.scene.span = "open" /\ d.scene.task = "none"
  /\ ~d.drain.there /\ d.drain.drain # "open" /\ d.drain.cleanup # "open"
SceneSpans(d) ==
  /\ scene.phase = "Open" => Runs(d)
  /\ scene.phase = "Closing" \/ loop = "closing" => Drains(d)
  /\ scene.phase = "Closed" /\ loop = "free" =>
       IF stage = "scene" /\ at \in Waits THEN Drained(d) ELSE NoSpans(d)

\* As long as nothing outside of them fails, the diagnostics follow the Run; a
\* failure freezes the producer of the Run before it is finished.
DiagInv ==
  /\ diag \in Diagnostics
  /\ ~Broken(diag) => RunSpans(diag) /\ SceneSpans(diag)
  /\ Broken(diag) => /\ diag.run.failure = "external" /\ stage # "bind"
                     /\ diag.run.span = "open"

FlowInv == RunTypes /\ ControlInv /\ SceneInv
RunInv == FlowInv /\ DiagInv

-----------------------------------------------------------------------------
(* The control of the lifecycle.                                           *)

\* A failure more makes the record of the failures non-empty.
LEMMA PhaseAppended ==
  ASSUME NEW f \in Seq(Phases), NEW p \in Phases
  PROVE  Append(f, p) \in Seq(Phases) /\ Append(f, p) # << >>
<1>1. Append(f, p) \in Seq(Phases) /\ Len(Append(f, p)) = Len(f) + 1
  OBVIOUS
<1>2. Len(f) \in Nat /\ Len(<< >>) = 0
  OBVIOUS
<1> QED
  BY <1>1, <1>2

\* The failure that restore_factory records.
LEMMA OnePhase == <<"scene">> \in Seq(Phases)
BY DEF Phases

\* Every step of the Run keeps the task, the Scene and the factory with the place
\* of the lifecycle.
LEMMA FlowStep ==
  ASSUME FlowInv, RunNext
  PROVE  FlowInv'
<1> USE DEF FlowInv, At, To
<1>1. CASE BindRun
  <2>1. RunTypes'
    BY <1>1 DEF RunTypes, Errors, BindRun, rest, python
  <2>2. ControlInv'
    BY <1>1 DEF RunTypes, ControlInv, Waits, Finals, BindRun, rest, python
  <2>3. SceneInv'
    BY <1>1 DEF RunTypes, ControlInv, SceneInv, Waits, Finals, BindRun, rest, python
  <2> QED
    BY <2>1, <2>2, <2>3
<1>2. CASE AwaitTask
  <2>1. RunTypes'
    BY <1>2 DEF RunTypes, Errors, AwaitTask, rest, python, After
  <2>2. ControlInv'
    BY <1>2 DEF RunTypes, ControlInv, Waits, Finals, AwaitTask, rest, python, After
  <2>3. SceneInv'
    BY <1>2 DEF RunTypes, ControlInv, SceneInv, Waits, Finals, AwaitTask, rest, python, After
  <2> QED
    BY <2>1, <2>2, <2>3
<1>3. CASE ShutdownObserved
  <2>1. RunTypes'
    BY <1>3 DEF RunTypes, Errors, ShutdownObserved, rest, python
  <2>2. ControlInv'
    BY <1>3 DEF RunTypes, ControlInv, Waits, Finals, ShutdownObserved, rest, python
  <2>3. SceneInv'
    BY <1>3 DEF RunTypes, ControlInv, SceneInv, Waits, Finals, ShutdownObserved, rest, python
  <2> QED
    BY <2>1, <2>2, <2>3
<1>4. CASE AwaitCancelled
  <2>1. RunTypes'
    BY <1>4 DEF RunTypes, Errors, AwaitCancelled, rest, python, After
  <2>2. ControlInv'
    BY <1>4 DEF RunTypes, ControlInv, Waits, Finals, AwaitCancelled, rest, python, After
  <2>3. SceneInv'
    BY <1>4 DEF RunTypes, ControlInv, SceneInv, Waits, Finals, AwaitCancelled, rest, python, After
  <2> QED
    BY <2>1, <2>2, <2>3
<1>5. CASE WaitSceneClosed
  <2>1. RunTypes'
    BY <1>5 DEF RunTypes, Errors, WaitSceneClosed, rest, python
  <2>2. ControlInv'
    BY <1>5 DEF RunTypes, ControlInv, Waits, Finals, WaitSceneClosed, rest, python
  <2>3. SceneInv'
    BY <1>5 DEF RunTypes, ControlInv, SceneInv, Waits, Finals, WaitSceneClosed, rest, python
  <2> QED
    BY <2>1, <2>2, <2>3
<1>6. CASE ReturnStart
  <2>1. RunTypes'
    <3>1. failures' \in Seq(Phases)
      <4>1. failures' = failures \/ failures' = Append(failures, "start")
        BY <1>6 DEF ReturnStart
      <4> QED
        BY <4>1, PhaseAppended, OnePhase DEF RunTypes, Phases
    <3>2. task' \in [state : {"none", "running", "done"}, cancel : BOOLEAN, docile : BOOLEAN,
                     error : Errors]
      BY <1>6 DEF ReturnStart, NoTask, Errors
    <3> QED
      BY <1>6, <3>1, <3>2 DEF RunTypes, ReturnStart, rest, Errors
  <2>2. ControlInv'
    BY <1>6 DEF RunTypes, ControlInv, Waits, Finals, ReturnStart, rest, NoTask
  <2>3. SceneInv'
    BY <1>6 DEF RunTypes, ControlInv, SceneInv, Waits, Finals, ReturnStart, rest, NoTask
  <2> QED
    BY <2>1, <2>2, <2>3
<1>7. CASE NextScene
  <2>1. RunTypes'
    BY <1>7 DEF RunTypes, Errors, NextScene, rest, python
  <2>2. ControlInv'
    BY <1>7 DEF RunTypes, ControlInv, Waits, Finals, NextScene, rest, python
  <2>3. SceneInv'
    BY <1>7 DEF RunTypes, ControlInv, SceneInv, Waits, Finals, NextScene, rest, python
  <2> QED
    BY <2>1, <2>2, <2>3
<1>8. CASE ReturnScene
  <2>1. RunTypes'
    <3>1. failures' \in Seq(Phases)
      <4>1. failures' = failures \/ failures' = Append(failures, "scene")
        BY <1>8 DEF ReturnScene
      <4> QED
        BY <4>1, PhaseAppended DEF RunTypes, Phases
    <3>2. task' \in [state : {"none", "running", "done"}, cancel : BOOLEAN, docile : BOOLEAN,
                     error : Errors]
      BY <1>8 DEF ReturnScene, NoTask, Errors
    <3> QED
      BY <1>8, <3>1, <3>2 DEF RunTypes, ReturnScene, rest, Errors
  <2>2. ControlInv'
    BY <1>8 DEF RunTypes, ControlInv, Waits, Finals, ReturnScene, rest, NoTask
  <2>3. SceneInv'
    BY <1>8 DEF RunTypes, ControlInv, SceneInv, Waits, Finals, ReturnScene, rest, NoTask
  <2> QED
    BY <2>1, <2>2, <2>3
<1>9. CASE EnterStopHook
  <2>1. RunTypes'
    BY <1>9 DEF RunTypes, Errors, EnterStopHook, rest, python
  <2>2. ControlInv'
    BY <1>9 DEF RunTypes, ControlInv, Waits, Finals, EnterStopHook, rest, python
  <2>3. SceneInv'
    BY <1>9 DEF RunTypes, ControlInv, SceneInv, Waits, Finals, EnterStopHook, rest, python
  <2> QED
    BY <2>1, <2>2, <2>3
<1>10. CASE ReturnStop
  <2>1. RunTypes'
    <3>1. failures' \in Seq(Phases)
      <4>1. failures' = failures \/ failures' = Append(failures, "stop")
        BY <1>10 DEF ReturnStop
      <4> QED
        BY <4>1, PhaseAppended DEF RunTypes, Phases
    <3>2. task' \in [state : {"none", "running", "done"}, cancel : BOOLEAN, docile : BOOLEAN,
                     error : Errors]
      BY <1>10 DEF ReturnStop, NoTask, Errors
    <3> QED
      BY <1>10, <3>1, <3>2 DEF RunTypes, ReturnStop, rest, Errors
  <2>2. ControlInv'
    BY <1>10 DEF RunTypes, ControlInv, Waits, Finals, ReturnStop, rest, NoTask
  <2>3. SceneInv'
    BY <1>10 DEF RunTypes, ControlInv, SceneInv, Waits, Finals, ReturnStop, rest, NoTask
  <2> QED
    BY <2>1, <2>2, <2>3
<1>11. CASE DropPermit
  <2>1. RunTypes'
    BY <1>11 DEF RunTypes, Errors, DropPermit, rest, python
  <2>2. ControlInv'
    BY <1>11 DEF RunTypes, ControlInv, Waits, Finals, DropPermit, rest, python
  <2>3. SceneInv'
    BY <1>11 DEF RunTypes, ControlInv, SceneInv, Waits, Finals, DropPermit, rest, python
  <2> QED
    BY <2>1, <2>2, <2>3
<1>12. CASE InstallWrapper
  <2>1. RunTypes'
    <3>1. failures' \in Seq(Phases)
      <4>1. failures' = failures \/ failures' = Append(failures, "scene")
        BY <1>12 DEF InstallWrapper
      <4> QED
        BY <4>1, PhaseAppended, OnePhase DEF RunTypes, Phases
    <3>2. replaced' \in BOOLEAN
      BY <1>12, Zenon DEF RunTypes, InstallWrapper
    <3> QED
      BY <1>12, <3>1, <3>2 DEF RunTypes, InstallWrapper, rest
  <2>2. ControlInv'
    BY <1>12 DEF RunTypes, ControlInv, Waits, Finals, InstallWrapper, rest, LoopFree
  <2>3. SceneInv'
    BY <1>12 DEF RunTypes, ControlInv, SceneInv, Waits, Finals, InstallWrapper, rest, LoopFree
  <2> QED
    BY <2>1, <2>2, <2>3
<1>13. CASE RestoreFactory
  <2>1. RunTypes'
    <3>1. failures' \in Seq(Phases)
      <4>1. failures' = failures \/ failures' = <<"scene">>
        BY <1>13 DEF RestoreFactory
      <4> QED
        BY <4>1, PhaseAppended, OnePhase DEF RunTypes, Phases
    <3>2. replaced' \in BOOLEAN
      BY <1>13, Zenon DEF RunTypes, RestoreFactory
    <3> QED
      BY <1>13, <3>1, <3>2 DEF RunTypes, RestoreFactory, rest
  <2>2. ControlInv'
    BY <1>13 DEF RunTypes, ControlInv, Waits, Finals, RestoreFactory, rest, LoopFree, CheckFails
  <2>3. SceneInv'
    BY <1>13 DEF RunTypes, ControlInv, SceneInv, Waits, Finals, RestoreFactory, rest, LoopFree,
                 CheckFails
  <2> QED
    BY <2>1, <2>2, <2>3
<1>14. CASE CallHook
  <2>1. RunTypes'
    BY <1>14 DEF RunTypes, Errors, CallHook, rest, LoopFree, RunningTask, NoTask
  <2>2. ControlInv'
    BY <1>14 DEF RunTypes, ControlInv, Waits, Finals, CallHook, rest, LoopFree, RunningTask, NoTask
  <2>3. SceneInv'
    BY <1>14 DEF RunTypes, ControlInv, SceneInv, Waits, Finals, CallHook, rest, LoopFree,
                 RunningTask, NoTask
  <2> QED
    BY <2>1, <2>2, <2>3
<1>15. CASE SceneRefused
  <2>1. RunTypes'
    BY <1>15 DEF RunTypes, Errors, SceneRefused, rest, LoopFree, EnsureWrapper, CheckFails
  <2>2. ControlInv'
    BY <1>15 DEF RunTypes, ControlInv, Waits, Finals, SceneRefused, rest, LoopFree, EnsureWrapper,
                 CheckFails
  <2>3. SceneInv'
    BY <1>15 DEF RunTypes, ControlInv, SceneInv, Waits, Finals, SceneRefused, rest, LoopFree,
                 EnsureWrapper, CheckFails
  <2> QED
    BY <2>1, <2>2, <2>3
<1>16. CASE CancelTask
  <2>1. RunTypes'
    BY <1>16 DEF RunTypes, Errors, CancelTask, rest, LoopFree
  <2>2. ControlInv'
    BY <1>16 DEF RunTypes, ControlInv, Waits, Finals, CancelTask, rest, LoopFree
  <2>3. SceneInv'
    BY <1>16 DEF RunTypes, ControlInv, SceneInv, Waits, Finals, CancelTask, rest, LoopFree
  <2> QED
    BY <2>1, <2>2, <2>3
<1>17. CASE CheckFactory
  <2>1. RunTypes'
    BY <1>17 DEF RunTypes, Errors, CheckFactory, rest, LoopFree, CheckFails
  <2>2. ControlInv'
    BY <1>17 DEF RunTypes, ControlInv, Waits, Finals, CheckFactory, rest, LoopFree, CheckFails
  <2>3. SceneInv'
    BY <1>17 DEF RunTypes, ControlInv, SceneInv, Waits, Finals, CheckFactory, rest, LoopFree,
                 CheckFails
  <2> QED
    BY <2>1, <2>2, <2>3
<1>18. CASE ObserveClosed
  <2>1. RunTypes'
    BY <1>18 DEF RunTypes, Errors, ObserveClosed, rest
  <2>2. ControlInv'
    BY <1>18 DEF RunTypes, ControlInv, Waits, Finals, ObserveClosed, rest
  <2>3. SceneInv'
    BY <1>18 DEF RunTypes, ControlInv, SceneInv, Waits, Finals, ObserveClosed, rest
  <2> QED
    BY <2>1, <2>2, <2>3
<1>19. CASE TaskEnds
  <2>1. RunTypes'
    <3>1. scene' \in [phase : {"Open", "Closing", "Closed"}, operations : {0, 1}]
      BY <1>19 DEF RunTypes, TaskEnds, ClosedScene
    <3>2. replaced' \in BOOLEAN
      BY <1>19, Zenon DEF RunTypes, TaskEnds, EnsureWrapper
    <3>3. task' \in [state : {"none", "running", "done"}, cancel : BOOLEAN, docile : BOOLEAN,
                     error : Errors]
      BY <1>19 DEF RunTypes, TaskEnds
    <3> QED
      BY <1>19, <3>1, <3>2, <3>3 DEF RunTypes, TaskEnds, rest
  <2>2. ControlInv'
    BY <1>19 DEF RunTypes, ControlInv, Waits, Finals, TaskEnds, rest, LoopFree, EnsureWrapper,
                 ClosedScene
  <2>3. SceneInv'
    BY <1>19 DEF RunTypes, ControlInv, SceneInv, Waits, Finals, TaskEnds, rest, LoopFree,
                 EnsureWrapper, ClosedScene
  <2> QED
    BY <2>1, <2>2, <2>3
<1>20. CASE StartCue
  <2>1. RunTypes'
    BY <1>20 DEF RunTypes, Errors, StartCue, rest, LoopFree
  <2>2. ControlInv'
    BY <1>20 DEF RunTypes, ControlInv, Waits, Finals, StartCue, rest, LoopFree
  <2>3. SceneInv'
    BY <1>20 DEF RunTypes, ControlInv, SceneInv, Waits, Finals, StartCue, rest, LoopFree
  <2> QED
    BY <2>1, <2>2, <2>3
<1>21. CASE OperationFinished
  <2>1. RunTypes'
    BY <1>21 DEF RunTypes, Errors, OperationFinished, rest, LoopFree
  <2>2. ControlInv'
    BY <1>21 DEF RunTypes, ControlInv, Waits, Finals, OperationFinished, rest, LoopFree
  <2>3. SceneInv'
    BY <1>21 DEF RunTypes, ControlInv, SceneInv, Waits, Finals, OperationFinished, rest, LoopFree
  <2> QED
    BY <2>1, <2>2, <2>3
<1>22. CASE ReplaceFactory
  <2>1. RunTypes'
    BY <1>22 DEF RunTypes, Errors, ReplaceFactory, LoopFree
  <2>2. ControlInv'
    BY <1>22 DEF RunTypes, ControlInv, Waits, Finals, ReplaceFactory, LoopFree
  <2>3. SceneInv'
    BY <1>22 DEF RunTypes, ControlInv, SceneInv, Waits, Finals, ReplaceFactory, LoopFree
  <2> QED
    BY <2>1, <2>2, <2>3
<1>23. CASE DiagnosticsFail
  <2>1. RunTypes'
    BY <1>23 DEF RunTypes, Errors, DiagnosticsFail, python
  <2>2. ControlInv'
    BY <1>23 DEF RunTypes, ControlInv, Waits, Finals, DiagnosticsFail, python
  <2>3. SceneInv'
    BY <1>23 DEF RunTypes, ControlInv, SceneInv, Waits, Finals, DiagnosticsFail, python
  <2> QED
    BY <2>1, <2>2, <2>3
<1>24. ASSUME NEW r \in Requesters, RequestShutdown(r) \/ ObserveShutdown(r)
      PROVE  FlowInv'
  <2>1. RunTypes'
    BY <1>24 DEF RunTypes, Errors, RequestShutdown, ObserveShutdown, python
  <2>2. ControlInv'
    BY <1>24 DEF RunTypes, ControlInv, Waits, Finals, RequestShutdown, ObserveShutdown, python
  <2>3. SceneInv'
    BY <1>24 DEF RunTypes, ControlInv, SceneInv, Waits, Finals, RequestShutdown, ObserveShutdown,
                 python
  <2> QED
    BY <2>1, <2>2, <2>3
<1>25. ASSUME NEW foreign \in BOOLEAN, SceneNotCreated(foreign)
      PROVE  FlowInv'
  <2>1. RunTypes'
    BY <1>25 DEF RunTypes, Errors, SceneNotCreated, LoopFree, CheckFails
  <2>2. ControlInv'
    BY <1>25 DEF RunTypes, ControlInv, Waits, Finals, SceneNotCreated, LoopFree, CheckFails
  <2>3. SceneInv'
    BY <1>25 DEF RunTypes, ControlInv, SceneInv, Waits, Finals, SceneNotCreated, LoopFree,
                 CheckFails
  <2> QED
    BY <2>1, <2>2, <2>3
<1>26. ASSUME NEW foreign \in BOOLEAN, SceneCreates(foreign)
      PROVE  FlowInv'
  <2>1. RunTypes'
    BY <1>26 DEF RunTypes, Errors, SceneCreates, LoopFree, CheckFails, RunningTask, NoTask
  <2>2. ControlInv'
    BY <1>26 DEF RunTypes, ControlInv, Waits, Finals, SceneCreates, LoopFree, CheckFails,
                 RunningTask, NoTask
  <2>3. SceneInv'
    BY <1>26 DEF RunTypes, ControlInv, SceneInv, Waits, Finals, SceneCreates, LoopFree,
                 CheckFails, RunningTask, NoTask
  <2> QED
    BY <2>1, <2>2, <2>3
<1> QED
  BY <1>1, <1>2, <1>3, <1>4, <1>5, <1>6, <1>7, <1>8, <1>9, <1>10, <1>11, <1>12, <1>13, <1>14,
     <1>15, <1>16, <1>17, <1>18, <1>19, <1>20, <1>21, <1>22, <1>23, <1>24, <1>25,
     <1>26 DEF RunNext, Tokio, LoopCallbacks, UserCode

-----------------------------------------------------------------------------
(* What the hooks do to the record of the diagnostics.                     *)

\* phase_terminal and its likes: only the absence of an error is a completion.
LEMMA OutcomesOfErrors ==
  ASSUME NEW error \in Errors
  PROVE  /\ OutcomeOf(error) \in Outcomes
         /\ error = "none" <=> OutcomeOf(error) = "completed"
BY DEF Errors, OutcomeOf, Outcomes

\* A change of one of the three records leaves the others alone.
WithRun(d, r) == [d EXCEPT !.run = r]
WithScene(d, r) == [d EXCEPT !.scene = r]
WithDrainer(d, r) == [d EXCEPT !.drain = r]

\* The three records of the diagnostics.
LEMMA Parts ==
  ASSUME NEW d \in Diagnostics
  PROVE  d.run \in RunRecords /\ d.scene \in SceneRecords /\ d.drain \in DrainRecords
BY DEF Diagnostics

\* Another record of the Run.
LEMMA RunChanged ==
  ASSUME NEW d \in Diagnostics, NEW r \in RunRecords
  PROVE  /\ WithRun(d, r) \in Diagnostics /\ WithRun(d, r).run = r
         /\ WithRun(d, r).scene = d.scene /\ WithRun(d, r).drain = d.drain
BY DEF Diagnostics, WithRun

\* Another record of the Scene.
LEMMA SceneChanged ==
  ASSUME NEW d \in Diagnostics, NEW r \in SceneRecords
  PROVE  /\ WithScene(d, r) \in Diagnostics /\ WithScene(d, r).run = d.run
         /\ WithScene(d, r).scene = r /\ WithScene(d, r).drain = d.drain
BY DEF Diagnostics, WithScene

\* Another record of its drain.
LEMMA DrainChanged ==
  ASSUME NEW d \in Diagnostics, NEW r \in DrainRecords
  PROVE  /\ WithDrainer(d, r) \in Diagnostics /\ WithDrainer(d, r).run = d.run
         /\ WithDrainer(d, r).scene = d.scene /\ WithDrainer(d, r).drain = r
BY DEF Diagnostics, WithDrainer

\* TryFinish closes the span of the Scene when its task has ended and it is drained.
LEMMA TryFinishHook ==
  ASSUME NEW d \in Diagnostics
  PROVE  /\ TryFinish(d) \in Diagnostics
         /\ TryFinish(d).run = d.run /\ TryFinish(d).drain = d.drain
         /\ d.scene.task = "none" \/ ~d.scene.cleaned => TryFinish(d) = d
         /\ d.scene.task # "none" /\ d.scene.cleaned /\ ~Broken(d) =>
              ~TryFinish(d).scene.there /\ TryFinish(d).scene.span = d.scene.task
<1>1. CASE d.scene.task = "none" \/ ~d.scene.cleaned
  BY <1>1 DEF TryFinish
<1>2. CASE d.scene.task # "none" /\ d.scene.cleaned
  <2> DEFINE r == [d.scene EXCEPT !.there = FALSE, !.span = IF Broken(d) THEN @ ELSE d.scene.task]
  <2>1. r \in SceneRecords
    BY Parts DEF SceneRecords, Spans
  <2>2. r.there = FALSE /\ (~Broken(d) => r.span = d.scene.task)
    BY Parts DEF SceneRecords
  <2>3. TryFinish(d) = WithScene(d, r)
    BY <1>2 DEF TryFinish, WithScene
  <2> HIDE DEF r
  <2> QED
    BY <1>2, <2>1, <2>2, <2>3, SceneChanged
<1> QED
  BY <1>1, <1>2

\* A latch that finds a failure keeps it.
LEMMA BrokenLatches ==
  ASSUME NEW d \in Diagnostics, Broken(d)
  PROVE  Latched(d, "state") = d /\ LatchedInRun(d) = d /\ WithDrain(d) = d
BY DEF Latched, LatchedInRun, WithDrain

\* The end of the task, after a failure of the Run.
LEMMA BrokenTaskFinished ==
  ASSUME NEW d \in Diagnostics, Broken(d), NEW error \in Errors
  PROVE  TaskFinished(d, error) \in Diagnostics /\ TaskFinished(d, error).run = d.run
<1> DEFINE r == [d.scene EXCEPT !.task = OutcomeOf(error)]
<1>1. r \in SceneRecords
  BY Parts, OutcomesOfErrors DEF SceneRecords
<1>2. \/ TaskFinished(d, error) = d
      \/ TaskFinished(d, error) = TryFinish(WithScene(d, r))
  BY BrokenLatches DEF TaskFinished, WithScene
<1> HIDE DEF r
<1> QED
  BY <1>1, <1>2, SceneChanged, TryFinishHook

\* The end of the Scene, after a failure of the Run.
LEMMA BrokenSceneFinished ==
  ASSUME NEW d \in Diagnostics, Broken(d)
  PROVE  SceneFinished(d) \in Diagnostics /\ SceneFinished(d).run = d.run
<1> DEFINE r == [d.scene EXCEPT !.cleaned = TRUE]
<1>1. r \in SceneRecords
  BY Parts DEF SceneRecords
<1>2. SceneFinished(d) = d \/ SceneFinished(d) = TryFinish(WithScene(d, r))
  BY BrokenLatches DEF SceneFinished, WithScene
<1> HIDE DEF r
<1> QED
  BY <1>1, <1>2, SceneChanged, TryFinishHook

\* A hook of the drain of a Run that has failed changes at most the drain.
LEMMA BrokenDrainObserves ==
  ASSUME NEW d \in Diagnostics, Broken(d), NEW due, NEW next \in Diagnostics,
         next.run = d.run
  PROVE  /\ DrainObserves(d, due, next) \in Diagnostics
         /\ DrainObserves(d, due, next).run = d.run
<1> DEFINE r == [d.drain EXCEPT !.failed = TRUE]
<1>1. r \in DrainRecords
  BY Parts DEF DrainRecords
<1>2. \/ DrainObserves(d, due, next) = d \/ DrainObserves(d, due, next) = next
      \/ DrainObserves(d, due, next) = WithDrainer(d, r)
  BY BrokenLatches DEF DrainObserves, WithDrainer
<1> HIDE DEF r
<1> QED
  BY <1>1, <1>2, DrainChanged

\* ... which holds for each of its hooks.
LEMMA BrokenDrain ==
  ASSUME NEW d \in Diagnostics, Broken(d), NEW exit, NEW error \in Errors
  PROVE  /\ DriverExited(d, exit, error) \in Diagnostics
         /\ DriverExited(d, exit, error).run = d.run
         /\ AdmissionClosed(d) \in Diagnostics /\ AdmissionClosed(d).run = d.run
         /\ CleanupStarted(d) \in Diagnostics /\ CleanupStarted(d).run = d.run
         /\ CancellationStarted(d) \in Diagnostics /\ CancellationStarted(d).run = d.run
         /\ CleanupFinished(d) \in Diagnostics /\ CleanupFinished(d).run = d.run
<1>1. WithDrain(d) = d /\ d.drain \in DrainRecords
  BY BrokenLatches, Parts
<1>2. DriverExited(d, exit, error) \in Diagnostics /\ DriverExited(d, exit, error).run = d.run
  <2> DEFINE r == [d.drain EXCEPT !.driver = "observed",
                     !.drained = IF exit = "closed" THEN "cancelled" ELSE OutcomeOf(error),
                     !.cleaned = IF exit = "closed" THEN OutcomeOf(error) ELSE "completed"]
             due == d.drain.driver = "pending" /\ ~d.drain.closed
  <2>1. r \in DrainRecords
    BY <1>1, OutcomesOfErrors DEF DrainRecords, Outcomes
  <2>2. DriverExited(d, exit, error) = DrainObserves(d, due, WithDrainer(d, r))
    BY <1>1 DEF DriverExited, WithDrainer
  <2> HIDE DEF r, due
  <2> QED
    BY <2>1, <2>2, DrainChanged, BrokenDrainObserves
<1>3. AdmissionClosed(d) \in Diagnostics /\ AdmissionClosed(d).run = d.run
  <2> DEFINE r == IF d.drain.driver = "pending"
                  THEN [d.drain EXCEPT !.closed = TRUE, !.driver = "lost"]
                  ELSE [d.drain EXCEPT !.closed = TRUE, !.drain = "open"]
             due == ~d.drain.closed
  <2>1. r \in DrainRecords
    BY <1>1 DEF DrainRecords, Spans
  <2>2. AdmissionClosed(d) = DrainObserves(d, due, WithDrainer(d, r))
    BY <1>1 DEF AdmissionClosed, WithDrainer
  <2> HIDE DEF r, due
  <2> QED
    BY <2>1, <2>2, DrainChanged, BrokenDrainObserves
<1>4. CleanupStarted(d) \in Diagnostics /\ CleanupStarted(d).run = d.run
  <2> DEFINE r == [d.drain EXCEPT !.cleaning = TRUE, !.cleanup = "open"]
             due == d.drain.closed /\ ~d.drain.cleaning
  <2>1. r \in DrainRecords
    BY <1>1 DEF DrainRecords, Spans
  <2>2. CleanupStarted(d) = DrainObserves(d, due, WithDrainer(d, r))
    BY <1>1 DEF CleanupStarted, WithDrainer
  <2> HIDE DEF r, due
  <2> QED
    BY <2>1, <2>2, DrainChanged, BrokenDrainObserves
<1>5. CancellationStarted(d) \in Diagnostics /\ CancellationStarted(d).run = d.run
  <2> DEFINE r == [d.drain EXCEPT !.cancelling = TRUE]
             due == d.drain.closed /\ d.drain.cleaning /\ ~d.drain.cancelling
  <2>1. r \in DrainRecords
    BY <1>1 DEF DrainRecords
  <2>2. CancellationStarted(d) = DrainObserves(d, due, WithDrainer(d, r))
    BY <1>1 DEF CancellationStarted, WithDrainer
  <2> HIDE DEF r, due
  <2> QED
    BY <2>1, <2>2, DrainChanged, BrokenDrainObserves
<1>6. CleanupFinished(d) \in Diagnostics /\ CleanupFinished(d).run = d.run
  <2> DEFINE r == [d.drain EXCEPT !.drain = IF @ = "open" THEN d.drain.drained ELSE @,
                                  !.cleanup = d.drain.cleaned]
             due == d.drain.closed /\ d.drain.cleaning
             e == DrainObserves(d, due, WithDrainer(d, r))
             t == [e.drain EXCEPT !.there = FALSE]
  <2>1. r \in DrainRecords
    BY <1>1 DEF DrainRecords, Spans
  <2>2. CleanupFinished(d) = WithDrainer(e, t)
    BY <1>1 DEF CleanupFinished, WithDrainer
  <2> HIDE DEF r, due
  <2>3. e \in Diagnostics /\ e.run = d.run
    BY <2>1, DrainChanged, BrokenDrainObserves
  <2> HIDE DEF e
  <2>4. t \in DrainRecords
    BY <2>3, Parts DEF DrainRecords
  <2> HIDE DEF t
  <2> QED
    BY <2>2, <2>3, <2>4, DrainChanged
<1> QED
  BY <1>2, <1>3, <1>4, <1>5, <1>6

\* SceneScope::close, after a failure of the Run.
LEMMA BrokenClose ==
  ASSUME NEW d \in Diagnostics, Broken(d), NEW operations, NEW failed, Close(d, operations, failed)
  PROVE  diag' \in Diagnostics /\ diag'.run = d.run
<1> DEFINE cleaning == CleanupStarted(AdmissionClosed(d))
           finished == SceneFinished(CleanupFinished(cleaning))
<1>1. cleaning \in Diagnostics /\ cleaning.run = d.run
  BY BrokenDrain DEF Broken, Errors
<1>2. \/ diag' = CancellationStarted(cleaning)
      \/ diag' = finished \/ diag' = TaskFinished(finished, "error")
  BY DEF Close
<1> HIDE DEF cleaning
<1>3. /\ CancellationStarted(cleaning) \in Diagnostics /\ CancellationStarted(cleaning).run = d.run
      /\ CleanupFinished(cleaning) \in Diagnostics /\ CleanupFinished(cleaning).run = d.run
  BY <1>1, BrokenDrain DEF Broken, Errors
<1>4. finished \in Diagnostics /\ finished.run = d.run
  BY <1>3, BrokenSceneFinished DEF Broken
<1> HIDE DEF finished
<1>5. TaskFinished(finished, "error") \in Diagnostics /\ TaskFinished(finished, "error").run = d.run
  BY <1>4, BrokenTaskFinished DEF Broken, Errors
<1> QED
  BY <1>2, <1>3, <1>4, <1>5

-----------------------------------------------------------------------------
(* The hooks of a Scene that are due, in the order of its end.             *)

Working(d) == d \in Diagnostics /\ d.run.installed /\ ~Broken(d)

Exited(d) ==
  /\ d.scene.there /\ d.drain.there /\ ~d.drain.failed /\ ~d.drain.closed /\ ~d.drain.cleaning
  /\ ~d.drain.cancelling /\ d.drain.driver = "observed" /\ d.drain.drained \in Outcomes
Closes(d) ==
  /\ d.scene.there /\ d.drain.there /\ ~d.drain.failed /\ d.drain.closed
  /\ ~d.drain.cancelling /\ (d.drain.drain = "open" => d.drain.drained \in Outcomes)

\* driver_exited is due when the Scene runs.
LEMMA DriverExitedDue ==
  ASSUME NEW d, Working(d), d.scene.there, d.drain = NoDrain, NEW exit, NEW error \in Errors
  PROVE  /\ Working(DriverExited(d, exit, error)) /\ Exited(DriverExited(d, exit, error))
         /\ DriverExited(d, exit, error).run = d.run
         /\ DriverExited(d, exit, error).scene = d.scene
<1> DEFINE r == [NoDrain EXCEPT !.there = TRUE, !.driver = "observed",
                   !.drained = IF exit = "closed" THEN "cancelled" ELSE OutcomeOf(error),
                   !.cleaned = IF exit = "closed" THEN OutcomeOf(error) ELSE "completed"]
           n == [NoDrain EXCEPT !.there = TRUE]
<1>1. r \in DrainRecords /\ n \in DrainRecords
  BY OutcomesOfErrors DEF NoDrain, DrainRecords, Outcomes, Spans
<1>2. /\ r.there /\ ~r.failed /\ ~r.closed /\ ~r.cleaning /\ ~r.cancelling
      /\ r.driver = "observed" /\ r.drained \in Outcomes
  BY OutcomesOfErrors DEF NoDrain, Outcomes
<1>3. WithDrain(d) = WithDrainer(d, n)
  BY DEF WithDrain, Working, WithDrainer, NoDrain
<1>4. /\ WithDrainer(d, n).drain = n /\ n.there /\ ~n.failed /\ n.driver = "pending" /\ ~n.closed
  BY <1>1, DrainChanged DEF Working, NoDrain
<1>5. DriverExited(d, exit, error) =
        [WithDrainer(d, n) EXCEPT !.drain.driver = "observed",
           !.drain.drained = IF exit = "closed" THEN "cancelled" ELSE OutcomeOf(error),
           !.drain.cleaned = IF exit = "closed" THEN OutcomeOf(error) ELSE "completed"]
  BY <1>3, <1>4 DEF DriverExited, DrainObserves
<1>6. DriverExited(d, exit, error) = WithDrainer(d, r)
  BY <1>1, <1>5 DEF WithDrainer, Working, Diagnostics, NoDrain
<1> HIDE DEF r
<1> QED
  BY <1>1, <1>2, <1>6, DrainChanged DEF Working, Exited, Broken

\* admission_closed is due once, with or without a driver that has reported.
LEMMA AdmissionClosedDue ==
  ASSUME NEW d, Working(d), Exited(d) \/ (d.scene.there /\ d.drain = NoDrain)
  PROVE  /\ Working(AdmissionClosed(d)) /\ Closes(AdmissionClosed(d))
         /\ ~AdmissionClosed(d).drain.cleaning
         /\ AdmissionClosed(d).run = d.run /\ AdmissionClosed(d).scene = d.scene
<1>1. CASE Exited(d)
  <2> DEFINE r == [d.drain EXCEPT !.closed = TRUE, !.drain = "open"]
  <2>1. d.drain \in DrainRecords
    BY Parts DEF Working
  <2>2. r \in DrainRecords
    BY <2>1 DEF DrainRecords, Spans
  <2>3. /\ r.there /\ ~r.failed /\ r.closed /\ ~r.cleaning /\ ~r.cancelling
        /\ r.drained \in Outcomes
    BY <1>1, <2>1 DEF Exited, DrainRecords
  <2>4. AdmissionClosed(d) = WithDrainer(d, r)
    BY <1>1 DEF AdmissionClosed, DrainObserves, WithDrain, Exited, WithDrainer
  <2> HIDE DEF r
  <2> QED
    BY <1>1, <2>2, <2>3, <2>4, DrainChanged DEF Working, Closes, Broken, Exited
<1>2. CASE d.scene.there /\ d.drain = NoDrain
  <2> DEFINE r == [NoDrain EXCEPT !.there = TRUE, !.closed = TRUE, !.driver = "lost"]
             n == [NoDrain EXCEPT !.there = TRUE]
  <2>1. r \in DrainRecords /\ n \in DrainRecords
    BY DEF NoDrain, DrainRecords, Outcomes, Spans
  <2>2. /\ r.there /\ ~r.failed /\ r.closed /\ ~r.cleaning /\ ~r.cancelling
        /\ r.drain = "none"
    BY DEF NoDrain
  <2>3. WithDrain(d) = WithDrainer(d, n)
    BY <1>2 DEF WithDrain, Working, WithDrainer, NoDrain
  <2>4. /\ WithDrainer(d, n).drain = n /\ n.there /\ ~n.failed /\ n.driver = "pending" /\ ~n.closed
    BY <2>1, DrainChanged DEF Working, NoDrain
  <2>5. AdmissionClosed(d) =
          [WithDrainer(d, n) EXCEPT !.drain.closed = TRUE, !.drain.driver = "lost"]
    BY <2>3, <2>4 DEF AdmissionClosed, DrainObserves
  <2>6. AdmissionClosed(d) = WithDrainer(d, r)
    BY <2>1, <2>5 DEF WithDrainer, Working, Diagnostics, NoDrain
  <2> HIDE DEF r
  <2> QED
    BY <1>2, <2>1, <2>2, <2>6, DrainChanged DEF Working, Closes, Broken
<1> QED
  BY <1>1, <1>2

\* cleanup_started is due when the admission is closed.
LEMMA CleanupStartedDue ==
  ASSUME NEW d, Working(d), Closes(d), ~d.drain.cleaning
  PROVE  /\ Working(CleanupStarted(d)) /\ Closes(CleanupStarted(d))
         /\ CleanupStarted(d).drain.cleaning
         /\ CleanupStarted(d).run = d.run /\ CleanupStarted(d).scene = d.scene
<1> DEFINE r == [d.drain EXCEPT !.cleaning = TRUE, !.cleanup = "open"]
<1>1. d.drain \in DrainRecords
  BY Parts DEF Working
<1>2. r \in DrainRecords
  BY <1>1 DEF DrainRecords, Spans
<1>3. /\ r.there /\ ~r.failed /\ r.closed /\ r.cleaning /\ ~r.cancelling
      /\ r.drain = d.drain.drain /\ r.drained = d.drain.drained
  BY <1>1 DEF Closes, DrainRecords
<1>4. CleanupStarted(d) = WithDrainer(d, r)
  BY DEF CleanupStarted, DrainObserves, WithDrain, Closes, WithDrainer
<1> HIDE DEF r
<1> QED
  BY <1>2, <1>3, <1>4, DrainChanged DEF Working, Closes, Broken

\* cancellation_started is due while an operation is left.
LEMMA CancellationStartedDue ==
  ASSUME NEW d, Working(d), Closes(d), d.drain.cleaning
  PROVE  /\ Working(CancellationStarted(d)) /\ CancellationStarted(d).drain.there
         /\ ~CancellationStarted(d).drain.failed /\ CancellationStarted(d).drain.closed
         /\ CancellationStarted(d).drain.cleaning
         /\ CancellationStarted(d).drain.drain = d.drain.drain
         /\ CancellationStarted(d).drain.drained = d.drain.drained
         /\ CancellationStarted(d).run = d.run /\ CancellationStarted(d).scene = d.scene
<1> DEFINE r == [d.drain EXCEPT !.cancelling = TRUE]
<1>1. d.drain \in DrainRecords
  BY Parts DEF Working
<1>2. r \in DrainRecords
  BY <1>1 DEF DrainRecords
<1>3. /\ r.there /\ ~r.failed /\ r.closed /\ r.cleaning
      /\ r.drain = d.drain.drain /\ r.drained = d.drain.drained
  BY <1>1 DEF Closes, DrainRecords
<1>4. CancellationStarted(d) = WithDrainer(d, r)
  BY DEF CancellationStarted, DrainObserves, WithDrain, Closes, WithDrainer
<1> HIDE DEF r
<1> QED
  BY <1>2, <1>3, <1>4, DrainChanged DEF Working, Broken

\* cleanup_finished closes both spans of the drain.
LEMMA CleanupFinishedDue ==
  ASSUME NEW d, Working(d), d.drain.there, ~d.drain.failed, d.drain.closed, d.drain.cleaning,
         d.drain.drain = "open" => d.drain.drained \in Outcomes
  PROVE  /\ Working(CleanupFinished(d)) /\ ~CleanupFinished(d).drain.there
         /\ CleanupFinished(d).drain.drain # "open" /\ CleanupFinished(d).drain.cleanup # "open"
         /\ CleanupFinished(d).run = d.run /\ CleanupFinished(d).scene = d.scene
<1> DEFINE r == [d.drain EXCEPT !.drain = IF @ = "open" THEN d.drain.drained ELSE @,
                                !.cleanup = d.drain.cleaned]
           t == [r EXCEPT !.there = FALSE]
<1>1. d.drain \in DrainRecords
  BY Parts DEF Working
<1>2. r \in DrainRecords
  BY <1>1 DEF DrainRecords, Spans
<1>3. r.drain # "open" /\ r.cleanup # "open"
  BY <1>1 DEF DrainRecords, Outcomes
<1>4. CleanupFinished(d) = [WithDrainer(d, r) EXCEPT !.drain.there = FALSE]
  BY DEF CleanupFinished, DrainObserves, WithDrain, WithDrainer
<1>5. WithDrainer(d, r).drain = r /\ WithDrainer(d, r) \in Diagnostics
      /\ WithDrainer(d, r).run = d.run /\ WithDrainer(d, r).scene = d.scene
  BY <1>2, DrainChanged DEF Working
<1>6. CleanupFinished(d) = WithDrainer(WithDrainer(d, r), t)
  BY <1>4, <1>5 DEF WithDrainer
<1> HIDE DEF r
<1>7. t \in DrainRecords /\ t.there = FALSE /\ t.drain = r.drain /\ t.cleanup = r.cleanup
  BY <1>2 DEF DrainRecords
<1> HIDE DEF t
<1> QED
  BY <1>3, <1>5, <1>6, <1>7, DrainChanged DEF Working, Broken

\* The Scene is drained: its span ends now or with its task.
LEMMA SceneFinishedDue ==
  ASSUME NEW d, Working(d), d.scene.there, ~d.scene.cleaned, d.scene.span = "open"
  PROVE  /\ Working(SceneFinished(d))
         /\ SceneFinished(d).run = d.run /\ SceneFinished(d).drain = d.drain
         /\ IF d.scene.task = "none"
            THEN /\ SceneFinished(d).scene.there /\ SceneFinished(d).scene.cleaned
                 /\ SceneFinished(d).scene.span = "open" /\ SceneFinished(d).scene.task = "none"
            ELSE ~SceneFinished(d).scene.there /\ SceneFinished(d).scene.span # "open"
<1> DEFINE r == [d.scene EXCEPT !.cleaned = TRUE]
           e == WithScene(d, r)
<1>1. d.scene \in SceneRecords
  BY Parts DEF Working
<1>2. /\ r \in SceneRecords /\ r.there /\ r.cleaned /\ r.span = "open" /\ r.task = d.scene.task
      /\ d.scene.task # "open"
  BY <1>1 DEF SceneRecords, Outcomes
<1>3. SceneFinished(d) = TryFinish(e)
  BY DEF SceneFinished, WithScene
<1> HIDE DEF r
<1>4. e \in Diagnostics /\ e.run = d.run /\ e.drain = d.drain /\ e.scene = r
  BY <1>2, SceneChanged DEF Working
<1> HIDE DEF e
<1> QED
  BY <1>2, <1>3, <1>4, TryFinishHook DEF Working, Broken

\* The task has ended: the span of its Scene ends now or with the drain.
LEMMA TaskFinishedDue ==
  ASSUME NEW d, Working(d), d.scene.there, d.scene.task = "none", d.scene.span = "open",
         NEW error \in Errors
  PROVE  /\ Working(TaskFinished(d, error))
         /\ TaskFinished(d, error).run = d.run /\ TaskFinished(d, error).drain = d.drain
         /\ IF d.scene.cleaned
            THEN ~TaskFinished(d, error).scene.there /\ TaskFinished(d, error).scene.span # "open"
            ELSE /\ TaskFinished(d, error).scene.there /\ ~TaskFinished(d, error).scene.cleaned
                 /\ TaskFinished(d, error).scene.span = "open"
                 /\ TaskFinished(d, error).scene.task # "none"
<1> DEFINE r == [d.scene EXCEPT !.task = OutcomeOf(error)]
           e == WithScene(d, r)
<1>1. d.scene \in SceneRecords /\ OutcomeOf(error) \in Outcomes
  BY Parts, OutcomesOfErrors DEF Working
<1>2. /\ r \in SceneRecords /\ r.there /\ r.cleaned = d.scene.cleaned /\ r.span = "open"
      /\ r.task \in Outcomes
  BY <1>1 DEF SceneRecords
<1>3. r.task # "none" /\ r.task # "open"
  BY <1>2 DEF Outcomes
<1>4. TaskFinished(d, error) = TryFinish(e)
  BY DEF TaskFinished, WithScene
<1> HIDE DEF r
<1>5. e \in Diagnostics /\ e.run = d.run /\ e.drain = d.drain /\ e.scene = r
  BY <1>2, SceneChanged DEF Working
<1> HIDE DEF e
<1> QED
  BY <1>2, <1>3, <1>4, <1>5, TryFinishHook DEF Working, Broken

\* SceneScope::close up to the end of its cleanup: the span of the Scene is closed when the
\* end of its task is known.
Cleaning(d) == CleanupStarted(AdmissionClosed(d))
Finished(d) == SceneFinished(CleanupFinished(Cleaning(d)))

\* A Scene that may be closed: its driver has exited, or was never there.
Closable(d) == /\ Working(d) /\ d.scene.span = "open" /\ ~d.scene.cleaned
               /\ Exited(d) \/ (d.scene.there /\ d.drain = NoDrain)

\* A Scene that may be closed comes to its cleanup without a failure.
LEMMA CleaningDue ==
  ASSUME NEW d, Closable(d)
  PROVE  /\ Working(Cleaning(d)) /\ Closes(Cleaning(d)) /\ Cleaning(d).drain.cleaning
         /\ Cleaning(d).run = d.run /\ Cleaning(d).scene = d.scene
BY AdmissionClosedDue, CleanupStartedDue DEF Cleaning, Closable

\* ... and without operations to its end.
LEMMA FinishedDue ==
  ASSUME NEW d, Closable(d)
  PROVE  /\ Working(Finished(d)) /\ Finished(d).run = d.run
         /\ d.scene.task # "none" => NoSpans(Finished(d))
         /\ d.scene.task = "none" => Drained(Finished(d))
<1> DEFINE cleaning == Cleaning(d)
           cleaned == CleanupFinished(cleaning)
<1>1. /\ Working(cleaning) /\ Closes(cleaning) /\ cleaning.drain.cleaning
      /\ cleaning.run = d.run /\ cleaning.scene = d.scene
  BY CleaningDue
<1>2. Finished(d) = SceneFinished(cleaned)
  BY DEF Finished
<1> HIDE DEF cleaning
<1>3. /\ Working(cleaned) /\ ~cleaned.drain.there /\ cleaned.drain.drain # "open"
      /\ cleaned.drain.cleanup # "open" /\ cleaned.run = d.run /\ cleaned.scene = d.scene
  BY <1>1, CleanupFinishedDue DEF Closes
<1> HIDE DEF cleaned
<1>4. d.scene.there /\ d.scene.span = "open" /\ ~d.scene.cleaned
  BY DEF Closable, Exited
<1> QED
  BY <1>2, <1>3, <1>4, SceneFinishedDue DEF NoSpans, Drained

\* An operation that is left keeps the Scene draining.
LEMMA CloseDue ==
  ASSUME NEW d, Closable(d), NEW operations, Close(d, operations, FALSE)
  PROVE  /\ Working(diag') /\ diag'.run = d.run
         /\ operations # 0 => /\ diag'.scene = d.scene /\ diag'.drain.there
                              /\ ~diag'.drain.failed /\ diag'.drain.closed
                              /\ diag'.drain.cleaning
                              /\ diag'.drain.drain = "open" => diag'.drain.drained \in Outcomes
         /\ operations = 0 /\ d.scene.task # "none" => NoSpans(diag')
         /\ operations = 0 /\ d.scene.task = "none" => Drained(diag')
<1>1. diag' = IF operations = 0 THEN Finished(d) ELSE CancellationStarted(Cleaning(d))
  BY DEF Close, Finished, Cleaning
<1>2. CASE operations # 0
  BY <1>1, <1>2, CleaningDue, CancellationStartedDue DEF Closes
<1>3. CASE operations = 0
  BY <1>1, <1>3, FinishedDue
<1> QED
  BY <1>2, <1>3

\* The task of a Scene that could not be made ends after the Scene.
LEMMA CloseFailedDue ==
  ASSUME NEW d, Closable(d), d.scene.task = "none", Close(d, 0, TRUE)
  PROVE  Working(diag') /\ diag'.run = d.run /\ NoSpans(diag')
<1>1. diag' = TaskFinished(Finished(d), "error")
  BY DEF Close, Finished, Cleaning
<1>2. Working(Finished(d)) /\ Finished(d).run = d.run /\ Drained(Finished(d))
  BY FinishedDue
<1> QED
  BY <1>1, <1>2, TaskFinishedDue DEF Drained, NoSpans, Errors

\* scene_created is due when no Scene is there.
LEMMA SceneCreatedDue ==
  ASSUME NEW d, Working(d), ~d.scene.there
  PROVE  Working(SceneCreated(d)) /\ SceneCreated(d).run = d.run /\ Runs(SceneCreated(d))
<1> DEFINE r == [NoScene EXCEPT !.there = TRUE, !.span = "open"]
<1>1. r \in SceneRecords /\ NoDrain \in DrainRecords
  BY DEF NoScene, SceneRecords, Spans, NoDrain, DrainRecords, Outcomes
<1>2. SceneCreated(d) = WithDrainer(WithScene(d, r), NoDrain)
  BY DEF SceneCreated, Working, WithDrainer, WithScene
<1>3. /\ WithScene(d, r) \in Diagnostics /\ WithScene(d, r).run = d.run
      /\ WithScene(d, r).scene = r
  BY <1>1, SceneChanged DEF Working
<1> QED
  BY <1>1, <1>2, <1>3, DrainChanged DEF Working, Broken, Runs

-----------------------------------------------------------------------------
(* The diagnostics follow the lifecycle, step by step.                     *)

\* After a failure only the producers of a Scene may still change.
LEMMA BrokenFrame ==
  ASSUME DiagInv, Broken(diag), diag' \in Diagnostics, diag'.run = diag.run, stage' # "bind"
  PROVE  DiagInv'
BY DEF DiagInv, Broken

\* A step inside a stage that leaves the producer of the Run alone.
LEMMA RunFrame ==
  ASSUME RunSpans(diag), diag'.run = diag.run, UNCHANGED <<stage, failures>>,
         core'.observed = core.observed, stage = "stop" => (at = "entry" <=> at' = "entry")
  PROVE  RunSpans(diag)'
BY DEF RunSpans

\* A step that leaves the producers of the Scene alone, while there is a Scene ...
LEMMA SceneFrame ==
  ASSUME SceneSpans(diag), diag'.scene = diag.scene, diag'.drain = diag.drain,
         UNCHANGED <<scene, loop, stage>>, at \in Waits <=> at' \in Waits
  PROVE  SceneSpans(diag)'
BY DEF SceneSpans, Runs, Drains, Drained, NoSpans

\* ... and while there is none.
LEMMA IdleFrame ==
  ASSUME SceneSpans(diag), diag'.scene = diag.scene, diag'.drain = diag.drain,
         UNCHANGED <<scene, loop>>, scene.phase = "Closed", loop = "free",
         ~(stage = "scene" /\ at \in Waits), ~(stage' = "scene" /\ at' \in Waits)
  PROVE  SceneSpans(diag)'
BY DEF SceneSpans, NoSpans

\* Steps of the loop and of other threads that are not told to the diagnostics.
LEMMA SilentSteps ==
  ASSUME FlowInv, DiagInv, UNCHANGED diag,
         \/ ShutdownObserved \/ WaitSceneClosed \/ CallHook \/ SceneRefused \/ CancelTask
         \/ CheckFactory \/ StartCue \/ OperationFinished \/ ReplaceFactory
         \/ \E r \in Requesters : RequestShutdown(r)
  PROVE  DiagInv'
<1>1. UNCHANGED stage
  BY DEF ShutdownObserved, WaitSceneClosed, CallHook, SceneRefused, CancelTask, CheckFactory,
         StartCue, OperationFinished, ReplaceFactory, RequestShutdown, To, At
<1>2. CASE Broken(diag)
  BY <1>1, <1>2, BrokenFrame DEF DiagInv
<1>3. CASE ~Broken(diag)
  <2>1. UNCHANGED failures /\ core'.observed = core.observed
    BY DEF ShutdownObserved, WaitSceneClosed, CallHook, SceneRefused, CancelTask, CheckFactory,
           StartCue, OperationFinished, ReplaceFactory, RequestShutdown, rest, FlowInv, RunTypes
  <2>2. stage = "stop" => (at = "entry" <=> at' = "entry")
    BY DEF ShutdownObserved, WaitSceneClosed, CallHook, SceneRefused, CancelTask, CheckFactory,
           StartCue, OperationFinished, ReplaceFactory, RequestShutdown, To, At, FlowInv, ControlInv
  <2>3. RunSpans(diag)'
    BY <1>1, <1>3, <2>1, <2>2, RunFrame DEF DiagInv
  <2>4. SceneSpans(diag)'
    <3>1. CASE ShutdownObserved \/ WaitSceneClosed \/ CancelTask \/ ReplaceFactory
               \/ \E r \in Requesters : RequestShutdown(r)
      <4>1. UNCHANGED <<scene, loop>> /\ (at \in Waits <=> at' \in Waits)
        BY <3>1 DEF ShutdownObserved, WaitSceneClosed, CancelTask, ReplaceFactory, RequestShutdown,
                    To, At, python, Waits
      <4> QED
        BY <1>1, <1>3, <4>1, SceneFrame DEF DiagInv
    <3>2. CASE CallHook \/ SceneRefused \/ CheckFactory
      <4>1. /\ UNCHANGED <<scene, loop>> /\ scene.phase = "Closed" /\ loop = "free"
            /\ ~(stage = "scene" /\ at \in Waits) /\ ~(stage' = "scene" /\ at' \in Waits)
        BY <3>2 DEF CallHook, SceneRefused, CheckFactory, To, At, LoopFree, FlowInv, RunTypes,
                    ControlInv, SceneInv, Waits
      <4> QED
        BY <1>3, <4>1, IdleFrame DEF DiagInv
    <3>3. CASE StartCue \/ OperationFinished
      <4>1. /\ UNCHANGED at
            /\ \/ scene'.phase = scene.phase /\ loop' = loop
               \/ scene.phase = "Closing" /\ scene'.phase = "Closed" /\ loop' = "closing"
        BY <3>3 DEF StartCue, OperationFinished, FlowInv, RunTypes
      <4> QED
        BY <1>1, <1>3, <4>1 DEF DiagInv, SceneSpans, Runs, Drains, Drained, NoSpans
    <3> QED
      BY <3>1, <3>2, <3>3
  <2> QED
    BY <1>3, <2>3, <2>4 DEF DiagInv, Broken
<1> QED
  BY <1>2, <1>3

\* PythonTask::wait tells the end of the task to the Scene's producer.
LEMMA AwaitedSteps ==
  ASSUME FlowInv, DiagInv, AwaitTask \/ AwaitCancelled
  PROVE  DiagInv'
<1>1. /\ at \in Waits /\ task.state = "done" /\ task.error \in Errors
      /\ stage \in {"start", "scene", "stop"} /\ stage' = stage /\ at' = After
      /\ diag' = Awaited(task.error)
      /\ UNCHANGED <<scene, loop, failures, core>>
  BY DEF AwaitTask, AwaitCancelled, FlowInv, ControlInv, RunTypes, To, rest, python, Waits, Finals
<1>2. CASE Broken(diag)
  <2>1. diag' \in Diagnostics /\ diag'.run = diag.run
    BY <1>1, <1>2, BrokenTaskFinished DEF DiagInv, Awaited
  <2> QED
    BY <1>1, <1>2, <2>1, BrokenFrame
<1>3. CASE ~Broken(diag) /\ stage # "scene"
  <2>1. diag' = diag /\ at' = "returned" /\ at # "entry"
    BY <1>1, <1>3 DEF Awaited, After, Waits
  <2>2. RunSpans(diag)'
    BY <1>1, <1>3, <2>1, RunFrame DEF DiagInv
  <2>3. scene.phase = "Closed" /\ loop = "free"
    BY <1>3 DEF FlowInv, SceneInv, RunTypes
  <2>4. SceneSpans(diag)'
    BY <1>1, <1>3, <2>1, <2>3, IdleFrame DEF DiagInv
  <2> QED
    BY <1>3, <2>1, <2>2, <2>4 DEF DiagInv, Broken
<1>4. CASE ~Broken(diag) /\ stage = "scene"
  <2>1. diag' = TaskFinished(diag, task.error) /\ at' = "close"
    BY <1>1, <1>4 DEF Awaited, After
  <2>2. Working(diag)
    BY <1>4 DEF DiagInv, RunSpans, Working
  <2>3. scene.phase # "Open" /\ scene.phase \in {"Closing", "Closed"} /\ loop \in {"free", "closing"}
    BY <1>1 DEF FlowInv, SceneInv, RunTypes
  <2>4. /\ diag.scene.there /\ diag.scene.task = "none" /\ diag.scene.span = "open"
        /\ IF scene.phase = "Closing" \/ loop = "closing" THEN Drains(diag) ELSE Drained(diag)
    BY <1>1, <1>4, <2>3 DEF DiagInv, SceneSpans, Drains, Drained
  <2>5. /\ Working(diag') /\ diag'.run = diag.run /\ diag'.drain = diag.drain
        /\ IF diag.scene.cleaned
           THEN ~diag'.scene.there /\ diag'.scene.span # "open"
           ELSE /\ diag'.scene.there /\ ~diag'.scene.cleaned
                /\ diag'.scene.span = "open" /\ diag'.scene.task # "none"
    BY <1>1, <2>1, <2>2, <2>4, TaskFinishedDue
  <2>6. RunSpans(diag)'
    BY <1>1, <1>4, <2>5, RunFrame DEF DiagInv
  <2>7. at' \notin Waits
    BY <2>1 DEF Waits
  <2>8. SceneSpans(diag)'
    BY <1>1, <1>4, <2>3, <2>4, <2>5, <2>7 DEF SceneSpans, Drains, Drained, NoSpans
  <2> QED
    BY <2>5, <2>6, <2>8 DEF DiagInv, Working, Broken
<1> QED
  BY <1>2, <1>3, <1>4

\* observe_closed ends the drain and, with the task, the Scene.
LEMMA ClosedSteps ==
  ASSUME FlowInv, DiagInv, ObserveClosed
  PROVE  DiagInv'
<1>1. /\ stage = "scene" /\ scene.phase = "Closed" /\ loop = "closing" /\ loop' = "free"
      /\ diag' = SceneFinished(CleanupFinished(diag))
      /\ UNCHANGED <<scene, stage, at, failures, core>>
  BY DEF ObserveClosed, FlowInv, SceneInv, rest
<1>2. CASE Broken(diag)
  <2>1. /\ CleanupFinished(diag) \in Diagnostics /\ CleanupFinished(diag).run = diag.run
    BY <1>2, BrokenDrain DEF DiagInv, Errors
  <2>2. diag' \in Diagnostics /\ diag'.run = diag.run
    BY <1>1, <1>2, <2>1, BrokenSceneFinished DEF Broken
  <2> QED
    BY <1>1, <1>2, <2>2, BrokenFrame
<1>3. CASE ~Broken(diag)
  <2> DEFINE c == CleanupFinished(diag)
  <2>1. Working(diag) /\ Drains(diag)
    BY <1>1, <1>3 DEF DiagInv, RunSpans, Working, SceneSpans
  <2>2. /\ Working(c) /\ ~c.drain.there /\ c.drain.drain # "open" /\ c.drain.cleanup # "open"
        /\ c.run = diag.run /\ c.scene = diag.scene
    BY <2>1, CleanupFinishedDue DEF Drains
  <2> HIDE DEF c
  <2>3. /\ Working(diag') /\ diag'.run = diag.run /\ diag'.drain = c.drain
        /\ IF diag.scene.task = "none"
           THEN /\ diag'.scene.there /\ diag'.scene.cleaned
                /\ diag'.scene.span = "open" /\ diag'.scene.task = "none"
           ELSE ~diag'.scene.there /\ diag'.scene.span # "open"
    BY <1>1, <2>1, <2>2, SceneFinishedDue DEF Drains, c
  <2>4. RunSpans(diag)'
    BY <1>1, <1>3, <2>3, RunFrame DEF DiagInv
  <2>5. SceneSpans(diag)'
    BY <1>1, <2>1, <2>2, <2>3 DEF SceneSpans, Drains, Drained, NoSpans
  <2> QED
    BY <2>3, <2>4, <2>5 DEF DiagInv, Working, Broken
<1> QED
  BY <1>2, <1>3

\* The driver of a Scene returns and closes it.
LEMMA TaskEndsStep ==
  ASSUME FlowInv, DiagInv, TaskEnds
  PROVE  DiagInv'
<1>1. UNCHANGED <<stage, at, loop, failures, core>> /\ loop = "free" /\ task.state = "running"
  BY DEF TaskEnds, rest, LoopFree
<1>2. CASE stage # "scene"
  <2>1. UNCHANGED <<diag, scene>>
    BY <1>2 DEF TaskEnds
  <2>2. CASE Broken(diag)
    BY <1>1, <2>1, <2>2, BrokenFrame DEF DiagInv
  <2>3. CASE ~Broken(diag)
    BY <1>1, <2>1, <2>3, RunFrame, SceneFrame DEF DiagInv, Broken
  <2> QED
    BY <2>2, <2>3
<1>3. CASE stage = "scene"
  <2>1. PICK error \in story.results :
          Close(DriverExited(diag, "returned", error), scene.operations, FALSE)
    BY <1>3 DEF TaskEnds
  <2> DEFINE d == DriverExited(diag, "returned", error)
  <2>2. error \in Errors
    BY DEF FlowInv, RunTypes
  <2>3. /\ scene.phase = "Open" /\ at \in Waits /\ scene' = ClosedScene
        /\ scene.operations \in {0, 1}
    BY <1>1, <1>3 DEF FlowInv, RunTypes, ControlInv, SceneInv, TaskEnds, Waits
  <2>4. scene'.phase = IF scene.operations = 0 THEN "Closed" ELSE "Closing"
    BY <2>3 DEF ClosedScene, FlowInv, RunTypes
  <2>5. CASE Broken(diag)
    <3>1. d \in Diagnostics /\ d.run = diag.run
      BY <2>2, <2>5, BrokenDrain DEF DiagInv
    <3>2. diag' \in Diagnostics /\ diag'.run = diag.run
      BY <2>1, <2>5, <3>1, BrokenClose DEF Broken
    <3> QED
      BY <1>1, <1>3, <2>5, <3>2, BrokenFrame
  <2>6. CASE ~Broken(diag)
    <3>1. Working(diag) /\ Runs(diag)
      BY <1>3, <2>3, <2>6 DEF DiagInv, RunSpans, Working, SceneSpans
    <3>2. /\ diag.scene.there /\ diag.scene.span = "open" /\ ~diag.scene.cleaned
          /\ diag.scene.task = "none" /\ diag.drain = NoDrain
      BY <3>1 DEF Runs, NoScene
    <3>3. Working(d) /\ Exited(d) /\ d.run = diag.run /\ d.scene = diag.scene
      BY <2>2, <3>1, <3>2, DriverExitedDue
    <3>4. Close(d, scene.operations, FALSE)
      BY <2>1
    <3> HIDE DEF d
    <3>5. d.scene.span = "open" /\ d.scene.task = "none" /\ ~d.scene.cleaned
      BY <3>2, <3>3
    <3>6. Closable(d)
      BY <3>3, <3>5 DEF Closable
    <3>7. /\ Working(diag') /\ diag'.run = d.run
          /\ scene.operations # 0 =>
               /\ diag'.scene = d.scene /\ diag'.drain.there /\ ~diag'.drain.failed
               /\ diag'.drain.closed /\ diag'.drain.cleaning
               /\ diag'.drain.drain = "open" => diag'.drain.drained \in Outcomes
          /\ scene.operations = 0 => Drained(diag')
      BY <3>4, <3>5, <3>6, CloseDue
    <3>8. RunSpans(diag)'
      BY <1>1, <2>6, <3>3, <3>7, RunFrame DEF DiagInv
    <3>9. SceneSpans(diag)'
      BY <1>1, <1>3, <2>3, <2>4, <3>2, <3>3, <3>7 DEF SceneSpans, Drains, Drained
    <3> QED
      BY <3>7, <3>8, <3>9 DEF DiagInv, Working, Broken
  <2> QED
    BY <2>5, <2>6
<1> QED
  BY <1>2, <1>3

-----------------------------------------------------------------------------
(* The hooks of the Run's producer.                                        *)

\* After a failure the hooks of the Run are ignored.
LEMMA BrokenRun ==
  ASSUME NEW d, Broken(d), NEW error, NEW failed
  PROVE  /\ FinishStart(d, error) = d /\ ObserveSceneReturn(d, error) = d
         /\ EnterStop(d) = d /\ FinishStop(d, error) = d /\ EnterShutdown(d) = d
         /\ LifecycleReturned(d, failed) = d /\ SceneCreated(d) = d
         /\ FinishRun(d) = [d EXCEPT !.run.installed = FALSE]
BY DEF FinishStart, ObserveSceneReturn, EnterStop, FinishStop, EnterShutdown, LifecycleReturned,
       SceneCreated, FinishRun, ObserveRun

\* A hook that is due changes the record of the Run only.
LEMMA RunHook ==
  ASSUME NEW d \in Diagnostics, ~Broken(d), NEW r \in RunRecords, r.installed = TRUE,
         r.failure = d.run.failure
  PROVE  /\ Working(WithRun(d, r)) /\ WithRun(d, r).run = r
         /\ WithRun(d, r).scene = d.scene /\ WithRun(d, r).drain = d.drain
BY RunChanged DEF Working, Broken

\* A step of the lifecycle, between Scenes, that changes the record of the Run.
LEMMA RunStepFrame ==
  ASSUME FlowInv, DiagInv, ~Broken(diag), Working(diag'), RunSpans(diag)',
         diag'.scene = diag.scene, diag'.drain = diag.drain, UNCHANGED <<scene, loop>>,
         stage # "scene" \/ at \in {"dispatch", "returned"},
         stage' # "scene" \/ at' \in {"dispatch", "returned"}
  PROVE  DiagInv'
<1>1. scene.phase = "Closed" /\ loop = "free"
  BY DEF FlowInv, RunTypes, ControlInv, SceneInv, Waits
<1>2. ~(stage = "scene" /\ at \in Waits) /\ ~(stage' = "scene" /\ at' \in Waits)
  BY DEF Waits
<1>3. SceneSpans(diag)'
  BY <1>1, <1>2, IdleFrame DEF DiagInv
<1> QED
  BY <1>3 DEF DiagInv, Working, Broken

\* Any part of the diagnostics may fail; the Run is not finished then.
LEMMA FailStep ==
  ASSUME FlowInv, DiagInv, DiagnosticsFail
  PROVE  DiagInv'
<1> DEFINE r == [diag.run EXCEPT !.failure = "external"]
<1>1. /\ diag \in Diagnostics /\ ~Broken(diag) /\ diag.run.installed /\ stage' = stage
      /\ diag' = WithRun(diag, r)
  BY DEF DiagnosticsFail, Latched, WithRun, DiagInv
<1>2. diag.run.span = "open" /\ stage # "bind" /\ diag.run \in RunRecords
  BY <1>1, Parts DEF DiagInv, RunSpans
<1>3. r \in RunRecords /\ r.failure = "external" /\ r.span = diag.run.span
  BY <1>2 DEF RunRecords
<1> HIDE DEF r
<1>4. diag' \in Diagnostics /\ diag'.run = r
  BY <1>1, <1>3, RunChanged
<1> QED
  BY <1>1, <1>2, <1>3, <1>4 DEF DiagInv, Broken

\* observe_shutdown, the first time, while the Run is bound and not yet finished.
LEMMA ShutdownStep ==
  ASSUME FlowInv, DiagInv, NEW asker \in Requesters, ObserveShutdown(asker)
  PROVE  DiagInv'
<1>1. /\ UNCHANGED <<stage, at, scene, loop, failures>> /\ core'.observed = TRUE
      /\ diag' = IF core.observed THEN diag ELSE EnterShutdown(diag)
  BY DEF ObserveShutdown, python, FlowInv, RunTypes
<1>2. CASE Broken(diag)
  <2>1. diag' = diag
    BY <1>1, <1>2, BrokenRun
  <2> QED
    BY <1>1, <1>2, <2>1, BrokenFrame DEF DiagInv
<1>3. CASE ~Broken(diag)
  <2>1. diag \in Diagnostics /\ RunSpans(diag) /\ SceneSpans(diag) /\ diag.run \in RunRecords
    BY <1>3, Parts DEF DiagInv
  <2>2. CASE core.observed \/ stage \in {"bind", "sessions", "done"}
    <3>1. diag' = diag
      BY <1>1, <1>3, <2>1, <2>2 DEF EnterShutdown, ObserveRun, RunSpans, Finals
    <3>2. RunSpans(diag)'
      BY <1>1, <2>1, <2>2, <3>1 DEF RunSpans, Finals
    <3> QED
      BY <1>1, <1>3, <2>1, <3>1, <3>2, SceneFrame DEF DiagInv, Broken
  <2>3. CASE ~core.observed /\ stage \notin {"bind", "sessions", "done"}
    <3> DEFINE r == [diag.run EXCEPT !.shutdown = "open"]
    <3>1. /\ diag.run.installed = TRUE /\ diag.run.span = "open" /\ diag.run.shutdown = "none"
      BY <2>1, <2>3 DEF RunSpans, RunRecords
    <3>2. diag' = WithRun(diag, r)
      BY <1>1, <1>3, <2>3, <3>1 DEF EnterShutdown, ObserveRun, WithRun, Outcomes
    <3>3. /\ r \in RunRecords /\ r.installed = TRUE /\ r.failure = diag.run.failure
          /\ r.started = diag.run.started /\ r.span = diag.run.span
          /\ r.start = diag.run.start /\ r.stop = diag.run.stop /\ r.first = diag.run.first
          /\ r.terminal = diag.run.terminal /\ r.shutdown = "open"
      BY <2>1, <3>1 DEF RunRecords, Spans
    <3> HIDE DEF r
    <3>4. /\ Working(diag') /\ diag'.run = r
          /\ diag'.scene = diag.scene /\ diag'.drain = diag.drain
      BY <1>3, <2>1, <3>2, <3>3, RunHook
    <3>5. RunSpans(diag)'
      BY <1>1, <2>1, <2>3, <3>1, <3>3, <3>4 DEF RunSpans
    <3> QED
      BY <1>1, <2>1, <3>4, <3>5, SceneFrame DEF DiagInv, Working, Broken
  <2> QED
    BY <2>2, <2>3
<1> QED
  BY <1>2, <1>3

\* run_started opens the span of the Run, and that of start in it.
LEMMA BindStep ==
  ASSUME FlowInv, DiagInv, BindRun
  PROVE  DiagInv'
<1> DEFINE b == [diag.run EXCEPT !.installed = TRUE, !.started = TRUE, !.span = "open"]
           r == [b EXCEPT !.start = "open"]
           bound == WithRun(diag, b)
<1>1. /\ stage = "bind" /\ stage' = "start" /\ at' = "dispatch" /\ ~Broken(diag)
      /\ UNCHANGED <<scene, loop, failures>>
  BY DEF BindRun, At, To, python, DiagInv
<1>2. diag \in Diagnostics /\ RunSpans(diag) /\ diag.run \in RunRecords
  BY <1>1, Parts DEF DiagInv
<1>3. /\ b \in RunRecords /\ b.installed = TRUE /\ b.failure = diag.run.failure
      /\ b.started /\ b.start = "none" /\ b.span = "open" /\ b.stop = "none"
      /\ b.shutdown = "none" /\ b.first = diag.run.first /\ b.terminal = "none"
  BY <1>1, <1>2 DEF RunRecords, Spans, RunSpans, Finals
<1>4. diag' = EnterStart(bound)
  BY DEF BindRun, RunStarted, WithRun
<1>5. /\ r \in RunRecords /\ r.installed = TRUE /\ r.failure = b.failure
      /\ r.started /\ r.start = "open" /\ r.span = "open" /\ r.stop = "none"
      /\ r.shutdown = "none" /\ r.first = b.first /\ r.terminal = "none"
  BY <1>3 DEF RunRecords, Spans
<1> HIDE DEF b
<1>6. /\ Working(bound) /\ bound.run = b /\ bound.scene = diag.scene /\ bound.drain = diag.drain
  BY <1>1, <1>2, <1>3, RunHook
<1> HIDE DEF bound
<1>7. diag' = WithRun(bound, r)
  BY <1>3, <1>4, <1>6 DEF EnterStart, ObserveRun, WithRun, Working
<1> HIDE DEF r
<1>8. /\ Working(diag') /\ diag'.run = r /\ diag'.scene = diag.scene /\ diag'.drain = diag.drain
  BY <1>5, <1>6, <1>7, RunHook DEF Working
<1>9. RunSpans(diag)'
  BY <1>1, <1>2, <1>3, <1>5, <1>8 DEF RunSpans, Finals
<1> QED
  BY <1>1, <1>8, <1>9, RunStepFrame

\* The steps between two hooks that leave the diagnostics alone.
LEMMA BetweenSteps ==
  ASSUME FlowInv, DiagInv, InstallWrapper \/ RestoreFactory \/ NextScene
  PROVE  DiagInv'
<1>1. /\ stage \in {"install", "loop", "restore"}
      /\ \/ stage' \in {"loop", "restore"}
         \/ stage' = "stop" /\ at' = "entry"
         \/ stage' = "scene" /\ at' = "dispatch"
      /\ UNCHANGED <<scene, loop, diag, core>>
  BY DEF InstallWrapper, RestoreFactory, NextScene, At, To, rest, python
<1>2. failures # << >> => failures' # << >>
  <2>1. failures' = failures \/ failures' = Append(failures, "scene") \/ failures = << >>
    BY DEF InstallWrapper, RestoreFactory, NextScene
  <2> QED
    BY <2>1, PhaseAppended DEF FlowInv, RunTypes, Phases
<1>3. CASE Broken(diag)
  BY <1>1, <1>3, BrokenFrame DEF DiagInv
<1>4. CASE ~Broken(diag)
  <2>1. RunSpans(diag) /\ Working(diag)
    BY <1>1, <1>4 DEF DiagInv, RunSpans, Working
  <2>2. RunSpans(diag)'
    BY <1>1, <1>2, <2>1 DEF RunSpans, Finals
  <2> QED
    BY <1>1, <1>4, <2>1, <2>2, RunStepFrame
<1> QED
  BY <1>3, <1>4

\* The result of a Scene is the first failure of the Run, unless there was one.
LEMMA SceneReturnStep ==
  ASSUME FlowInv, DiagInv, ReturnScene
  PROVE  DiagInv'
<1>1. /\ stage = "scene" /\ at = "returned" /\ stage' \in {"loop", "restore"}
      /\ UNCHANGED <<scene, loop, core>> /\ diag' = ObserveSceneReturn(diag, returned)
  BY DEF ReturnScene, At, To, rest
<1>2. /\ failures # << >> => failures' # << >>
      /\ returned = "error" => failures' # << >>
  <2>1. Append(failures, "scene") # << >>
    BY PhaseAppended DEF FlowInv, RunTypes, Phases
  <2> QED
    BY <2>1 DEF ReturnScene
<1>3. CASE Broken(diag)
  <2>1. diag' = diag
    BY <1>1, <1>3, BrokenRun
  <2> QED
    BY <1>1, <1>3, <2>1, BrokenFrame DEF DiagInv
<1>4. CASE ~Broken(diag)
  <2> DEFINE r == [diag.run EXCEPT !.first = IF returned = "error" /\ @ = "none"
                                             THEN "failed" ELSE @]
  <2>1. diag \in Diagnostics /\ RunSpans(diag) /\ Working(diag) /\ diag.run \in RunRecords
    BY <1>1, <1>4, Parts DEF DiagInv, RunSpans, Working
  <2>2. diag' = WithRun(diag, r)
    BY <1>1, <2>1 DEF ObserveSceneReturn, ObserveRun, WithRun, Working
  <2>3. /\ r \in RunRecords /\ r.installed = diag.run.installed /\ r.failure = diag.run.failure
        /\ r.started = diag.run.started /\ r.span = diag.run.span
        /\ r.start = diag.run.start /\ r.stop = diag.run.stop /\ r.shutdown = diag.run.shutdown
        /\ r.terminal = diag.run.terminal
        /\ r.first = diag.run.first \/ (returned = "error" /\ r.first = "failed")
    BY <2>1 DEF RunRecords, Outcomes
  <2> HIDE DEF r
  <2>4. r.installed = TRUE
    BY <1>1, <2>1, <2>3 DEF RunSpans, RunRecords
  <2>5. /\ Working(diag') /\ diag'.run = r /\ diag'.scene = diag.scene /\ diag'.drain = diag.drain
    BY <1>4, <2>1, <2>2, <2>3, <2>4, RunHook
  <2>6. RunSpans(diag)'
    BY <1>1, <1>2, <2>1, <2>3, <2>5 DEF RunSpans, Finals
  <2> QED
    BY <1>1, <1>4, <2>5, <2>6, RunStepFrame
<1> QED
  BY <1>3, <1>4

\* stop is entered after a start that succeeded.
LEMMA EnterStopStep ==
  ASSUME FlowInv, DiagInv, EnterStopHook
  PROVE  DiagInv'
<1>1. /\ stage = "stop" /\ at = "entry" /\ stage' = "stop" /\ at' = "dispatch"
      /\ UNCHANGED <<scene, loop, core, failures>> /\ diag' = EnterStop(diag)
  BY DEF EnterStopHook, At, To, rest, python
<1>2. CASE Broken(diag)
  <2>1. diag' = diag
    BY <1>1, <1>2, BrokenRun
  <2> QED
    BY <1>1, <1>2, <2>1, BrokenFrame DEF DiagInv
<1>3. CASE ~Broken(diag)
  <2> DEFINE r == [diag.run EXCEPT !.stop = "open"]
  <2>1. diag \in Diagnostics /\ RunSpans(diag) /\ Working(diag) /\ diag.run \in RunRecords
    BY <1>1, <1>3, Parts DEF DiagInv, RunSpans, Working
  <2>2. /\ diag.run.started /\ diag.run.start = "completed" /\ diag.run.stop = "none"
        /\ diag.run.installed = TRUE
    BY <1>1, <2>1 DEF RunSpans, RunRecords
  <2>3. diag' = WithRun(diag, r)
    BY <1>1, <2>1, <2>2 DEF EnterStop, ObserveRun, WithRun, Working
  <2>4. /\ r \in RunRecords /\ r.installed = TRUE /\ r.failure = diag.run.failure
        /\ r.started = diag.run.started /\ r.span = diag.run.span
        /\ r.start = diag.run.start /\ r.stop = "open" /\ r.shutdown = diag.run.shutdown
        /\ r.terminal = diag.run.terminal /\ r.first = diag.run.first
    BY <2>1, <2>2 DEF RunRecords, Spans
  <2> HIDE DEF r
  <2>5. /\ Working(diag') /\ diag'.run = r /\ diag'.scene = diag.scene /\ diag'.drain = diag.drain
    BY <1>3, <2>1, <2>3, <2>4, RunHook
  <2>6. RunSpans(diag)'
    BY <1>1, <2>1, <2>2, <2>4, <2>5 DEF RunSpans, Finals
  <2> QED
    BY <1>1, <1>3, <2>5, <2>6, RunStepFrame
<1> QED
  BY <1>2, <1>3

\* The phases a lifecycle may return with, and the outcome that follows from them.
Proven(r) == \/ r.start = "completed" /\ r.stop \in Outcomes
             \/ r.start \in {"cancelled", "failed"} /\ r.stop = "none"

\* lifecycle_returned is due after either pair of phases; only a Run without a failure
\* is completed.
LEMMA LifecycleReturnedDue ==
  ASSUME NEW d, Working(d), NEW failed \in BOOLEAN, Proven(d.run), d.run.span = "open",
         d.run.terminal = "none", failed = FALSE => d.run.first = "none",
         d.run.first # "completed"
  PROVE  LET e == LifecycleReturned(d, failed)
         IN  /\ Working(e) /\ e.scene = d.scene /\ e.drain = d.drain
             /\ e.run.terminal \in Outcomes
             /\ e.run.terminal = "completed" <=> failed = FALSE
             /\ e.run.terminal = "cancelled" => d.run.first = "cancelled"
             /\ e.run.installed = TRUE /\ e.run.started = d.run.started
             /\ e.run.span = d.run.span /\ e.run.start = d.run.start
             /\ e.run.stop = d.run.stop /\ e.run.shutdown = d.run.shutdown
             /\ e.run.first = d.run.first
<1> DEFINE t == CASE ~failed -> "completed"
                  [] failed /\ d.run.first # "none" -> d.run.first
                  [] failed /\ d.run.first = "none" -> "failed"
           r == [d.run EXCEPT !.terminal = t]
<1>1. d \in Diagnostics /\ d.run \in RunRecords /\ ~Broken(d) /\ d.run.installed = TRUE
  BY Parts DEF Working, RunRecords
<1>2. t \in Outcomes /\ (t = "completed" <=> failed = FALSE)
      /\ (t = "cancelled" => d.run.first = "cancelled")
  BY <1>1 DEF RunRecords, Outcomes
<1>3. LifecycleReturned(d, failed) = WithRun(d, r)
  <2>1. CASE failed = TRUE
    BY <1>1, <2>1 DEF LifecycleReturned, ObserveRun, WithRun, Proven
  <2>2. CASE failed = FALSE
    BY <1>1, <2>2 DEF LifecycleReturned, ObserveRun, WithRun, Proven
  <2> QED
    BY <2>1, <2>2
<1> HIDE DEF t
<1>4. /\ r \in RunRecords /\ r.installed = TRUE /\ r.failure = d.run.failure
      /\ r.started = d.run.started /\ r.span = d.run.span
      /\ r.start = d.run.start /\ r.stop = d.run.stop /\ r.shutdown = d.run.shutdown
      /\ r.terminal = t /\ r.first = d.run.first
  BY <1>1, <1>2 DEF RunRecords
<1> HIDE DEF r
<1>5. /\ Working(WithRun(d, r)) /\ WithRun(d, r).run = r
      /\ WithRun(d, r).scene = d.scene /\ WithRun(d, r).drain = d.drain
  BY <1>1, <1>4, RunHook
<1> QED
  BY <1>2, <1>3, <1>4, <1>5

\* start is over: with an error the lifecycle returns, and stop is never entered.
LEMMA ReturnStartStep ==
  ASSUME FlowInv, DiagInv, ReturnStart
  PROVE  DiagInv'
<1> DEFINE e == FinishStart(diag, returned)
<1>1. /\ stage = "start" /\ at = "returned" /\ returned \in Errors
      /\ UNCHANGED <<scene, loop, core>>
      /\ returned = "none" => diag' = e /\ stage' = "install" /\ failures' = failures
      /\ returned # "none" => /\ diag' = LifecycleReturned(e, TRUE) /\ stage' = "finish"
                              /\ failures' = Append(failures, "start")
  BY DEF ReturnStart, At, To, rest, FlowInv, RunTypes
<1>2. Append(failures, "start") # << >>
  BY PhaseAppended DEF FlowInv, RunTypes, Phases
<1>3. CASE Broken(diag)
  <2>1. e = diag
    BY <1>3, BrokenRun
  <2> HIDE DEF e
  <2>2. diag' = diag
    BY <1>1, <1>3, <2>1 DEF LifecycleReturned, ObserveRun
  <2> QED
    BY <1>1, <1>3, <2>2, BrokenFrame DEF DiagInv
<1>4. CASE ~Broken(diag)
  <2> DEFINE outcome == OutcomeOf(returned)
             r == [diag.run EXCEPT !.start = outcome,
                                   !.first = IF returned = "none" THEN @ ELSE outcome]
  <2>1. diag \in Diagnostics /\ RunSpans(diag) /\ Working(diag) /\ diag.run \in RunRecords
    BY <1>1, <1>4, Parts DEF DiagInv, RunSpans, Working
  <2>2. diag.run.start = "open" /\ diag.run.installed = TRUE
    BY <1>1, <2>1 DEF RunSpans, RunRecords
  <2>3. e = WithRun(diag, r)
    BY <1>1, <2>1, <2>2 DEF FinishStart, ObserveRun, WithRun, Working
  <2>4. outcome \in Outcomes /\ (returned = "none" <=> outcome = "completed")
    BY <1>1, OutcomesOfErrors
  <2> HIDE DEF outcome, e
  <2>5. /\ r \in RunRecords /\ r.installed = TRUE /\ r.failure = diag.run.failure
        /\ r.started = diag.run.started /\ r.span = diag.run.span
        /\ r.start = outcome /\ r.stop = diag.run.stop /\ r.shutdown = diag.run.shutdown
        /\ r.terminal = diag.run.terminal
        /\ r.first = IF returned = "none" THEN diag.run.first ELSE outcome
    BY <2>1, <2>2, <2>4 DEF RunRecords, Spans
  <2> HIDE DEF r
  <2>6. /\ Working(e) /\ e.run = r /\ e.scene = diag.scene /\ e.drain = diag.drain
    BY <1>4, <2>1, <2>3, <2>5, RunHook
  <2>7. CASE returned = "none"
    <3>1. RunSpans(diag)'
      BY <1>1, <2>1, <2>4, <2>5, <2>6, <2>7 DEF RunSpans, Finals
    <3> QED
      BY <1>1, <1>4, <2>6, <2>7, <3>1, RunStepFrame
  <2>8. CASE returned # "none"
    <3>1. /\ Proven(e.run) /\ e.run.span = "open" /\ e.run.terminal = "none"
          /\ e.run.first # "completed"
      BY <1>1, <2>1, <2>4, <2>5, <2>6, <2>8 DEF RunSpans, Finals, Proven, Outcomes
    <3>2. diag' = LifecycleReturned(e, TRUE) /\ stage' = "finish" /\ failures' # << >>
      BY <1>1, <1>2, <2>8
    <3>3. /\ Working(diag') /\ diag'.scene = e.scene /\ diag'.drain = e.drain
      BY <2>6, <3>1, <3>2, LifecycleReturnedDue
    <3>4. /\ diag'.run.terminal \in Outcomes /\ diag'.run.terminal # "completed"
          /\ diag'.run.terminal = "cancelled" => e.run.first = "cancelled"
      BY <2>6, <3>1, <3>2, LifecycleReturnedDue
    <3>5. /\ diag'.run.installed = TRUE /\ diag'.run.started = e.run.started
          /\ diag'.run.span = e.run.span /\ diag'.run.start = e.run.start
          /\ diag'.run.stop = e.run.stop /\ diag'.run.shutdown = e.run.shutdown
          /\ diag'.run.first = e.run.first
      BY <2>6, <3>1, <3>2, LifecycleReturnedDue
    <3>6. /\ diag.run.started /\ diag.run.span = "open" /\ diag.run.stop = "none"
          /\ diag.run.shutdown \in {"none", "open"}
          /\ ~core.observed => diag.run.shutdown = "none"
          /\ outcome \in {"cancelled", "failed"}
      BY <1>1, <2>1, <2>4, <2>8 DEF RunSpans, Finals, Outcomes
    <3>7. /\ diag'.run.started /\ diag'.run.span = "open" /\ diag'.run.stop = "none"
          /\ diag'.run.shutdown \in {"none", "open"}
          /\ ~core.observed => diag'.run.shutdown = "none"
          /\ diag'.run.start \in {"cancelled", "failed"} /\ diag'.run.first = diag'.run.start
          /\ diag'.run.terminal = "cancelled" => diag'.run.start = "cancelled"
      BY <2>5, <2>6, <2>8, <3>4, <3>5, <3>6
    <3>8. RunSpans(diag)'
      BY <1>1, <3>2, <3>4, <3>5, <3>7 DEF RunSpans, Finals
    <3> QED
      BY <1>1, <1>4, <2>6, <3>2, <3>3, <3>8, RunStepFrame
  <2> QED
    BY <2>7, <2>8
<1> QED
  BY <1>3, <1>4

\* stop is over, and with it the lifecycle.
LEMMA ReturnStopStep ==
  ASSUME FlowInv, DiagInv, ReturnStop
  PROVE  DiagInv'
<1> DEFINE e == FinishStop(diag, returned)
           failed == failures' # << >>
<1>1. /\ stage = "stop" /\ at = "returned" /\ returned \in Errors /\ stage' = "finish"
      /\ UNCHANGED <<scene, loop, core>>
      /\ failures' = IF returned = "none" THEN failures ELSE Append(failures, "stop")
      /\ diag' = LifecycleReturned(e, failed)
  BY DEF ReturnStop, At, To, rest, FlowInv, RunTypes
<1>2. /\ failures # << >> => failures' # << >>
      /\ returned # "none" => failures' # << >>
  <2>1. Append(failures, "stop") # << >>
    BY PhaseAppended DEF FlowInv, RunTypes, Phases
  <2> QED
    BY <1>1, <2>1
<1> HIDE DEF failed
<1>3. CASE Broken(diag)
  <2>1. e = diag
    BY <1>3, BrokenRun
  <2> HIDE DEF e
  <2>2. diag' = diag
    BY <1>1, <1>3, <2>1 DEF LifecycleReturned, ObserveRun
  <2> QED
    BY <1>1, <1>3, <2>2, BrokenFrame DEF DiagInv
<1>4. CASE ~Broken(diag)
  <2> DEFINE outcome == OutcomeOf(returned)
             r == [diag.run EXCEPT !.stop = outcome,
                                   !.first = IF returned # "none" /\ @ = "none"
                                             THEN outcome ELSE @]
  <2>1. diag \in Diagnostics /\ RunSpans(diag) /\ Working(diag) /\ diag.run \in RunRecords
    BY <1>1, <1>4, Parts DEF DiagInv, RunSpans, Working
  <2>2. diag.run.stop = "open" /\ diag.run.installed = TRUE
    BY <1>1, <2>1 DEF RunSpans, RunRecords
  <2>3. e = WithRun(diag, r)
    BY <1>1, <2>1, <2>2 DEF FinishStop, ObserveRun, WithRun, Working
  <2>4. outcome \in Outcomes /\ (returned = "none" <=> outcome = "completed")
    BY <1>1, OutcomesOfErrors
  <2> HIDE DEF outcome, e
  <2>5. /\ r \in RunRecords /\ r.installed = TRUE /\ r.failure = diag.run.failure
        /\ r.started = diag.run.started /\ r.span = diag.run.span
        /\ r.start = diag.run.start /\ r.stop = outcome /\ r.shutdown = diag.run.shutdown
        /\ r.terminal = diag.run.terminal
        /\ r.first = IF returned # "none" /\ diag.run.first = "none"
                     THEN outcome ELSE diag.run.first
    BY <2>1, <2>2, <2>4 DEF RunRecords, Spans
  <2> HIDE DEF r
  <2>6. /\ Working(e) /\ e.run = r /\ e.scene = diag.scene /\ e.drain = diag.drain
    BY <1>4, <2>1, <2>3, <2>5, RunHook
  <2>7. /\ diag.run.started /\ diag.run.span = "open" /\ diag.run.start = "completed"
        /\ diag.run.shutdown \in {"none", "open"} /\ diag.run.terminal = "none"
        /\ ~core.observed => diag.run.shutdown = "none"
        /\ diag.run.first \notin {"completed", "cancelled"}
        /\ diag.run.first # "none" => failures' # << >>
    BY <1>1, <1>2, <2>1, <2>2 DEF RunSpans, Finals
  <2>8. /\ e.run.started /\ e.run.span = "open" /\ e.run.start = "completed"
        /\ e.run.shutdown \in {"none", "open"} /\ e.run.terminal = "none"
        /\ ~core.observed => e.run.shutdown = "none"
        /\ e.run.stop \in Outcomes /\ e.run.first # "completed"
        /\ e.run.first # "none" => failures' # << >>
        /\ e.run.first = "cancelled" => e.run.stop = "cancelled"
    BY <1>2, <2>4, <2>5, <2>6, <2>7
  <2>9. failed \in BOOLEAN /\ (failed = FALSE <=> failures' = << >>)
    BY DEF failed
  <2>10. failed = FALSE => e.run.first = "none"
    BY <2>8, <2>9
  <2>11. Proven(e.run)
    BY <2>8 DEF Proven
  <2>12. /\ Working(diag') /\ diag'.scene = e.scene /\ diag'.drain = e.drain
    BY <1>1, <2>6, <2>8, <2>9, <2>10, <2>11, LifecycleReturnedDue
  <2>13. /\ diag'.run.terminal \in Outcomes
         /\ diag'.run.terminal = "completed" <=> failed = FALSE
         /\ diag'.run.terminal = "cancelled" => e.run.first = "cancelled"
    BY <1>1, <2>6, <2>8, <2>9, <2>10, <2>11, LifecycleReturnedDue
  <2>14. /\ diag'.run.installed = TRUE /\ diag'.run.started = e.run.started
         /\ diag'.run.span = e.run.span /\ diag'.run.start = e.run.start
         /\ diag'.run.stop = e.run.stop /\ diag'.run.shutdown = e.run.shutdown
         /\ diag'.run.first = e.run.first
    BY <1>1, <2>6, <2>8, <2>9, <2>10, <2>11, LifecycleReturnedDue
  <2>15. RunSpans(diag)'
    BY <1>1, <2>8, <2>9, <2>13, <2>14 DEF RunSpans, Finals
  <2> QED
    BY <1>1, <1>4, <2>6, <2>12, <2>15, RunStepFrame
<1> QED
  BY <1>3, <1>4

\* The permit is dropped: finish_run closes the spans of the Run and of its shutdown.
LEMMA DropPermitStep ==
  ASSUME FlowInv, DiagInv, DropPermit
  PROVE  DiagInv'
<1>1. /\ stage = "finish" /\ at = "entry" /\ stage' = "sessions" /\ at' = "entry"
      /\ UNCHANGED <<scene, loop, core, failures>> /\ diag' = FinishRun(diag)
  BY DEF DropPermit, At, To, rest, python
<1>2. diag \in Diagnostics /\ diag.run \in RunRecords
  BY Parts DEF DiagInv
<1>3. CASE Broken(diag)
  <2> DEFINE r == [diag.run EXCEPT !.installed = FALSE]
  <2>1. diag' = WithRun(diag, r)
    BY <1>1, <1>3, BrokenRun DEF WithRun
  <2>2. r \in RunRecords /\ r.failure = diag.run.failure /\ r.span = diag.run.span
    BY <1>2 DEF RunRecords
  <2> HIDE DEF r
  <2>3. diag' \in Diagnostics /\ diag'.run = r
    BY <1>2, <2>1, <2>2, RunChanged
  <2> QED
    BY <1>1, <1>3, <2>2, <2>3 DEF DiagInv, Broken
<1>4. CASE ~Broken(diag)
  <2> DEFINE c == [diag.run EXCEPT !.span = diag.run.terminal,
                                   !.shutdown = IF @ = "open" THEN diag.run.terminal ELSE @]
             r == [c EXCEPT !.installed = FALSE]
  <2>1. RunSpans(diag) /\ SceneSpans(diag)
    BY <1>4 DEF DiagInv
  <2>2. /\ diag.run.installed = TRUE /\ diag.run.started = TRUE /\ diag.run.span = "open"
        /\ diag.run.terminal \in Outcomes /\ diag.run.start # "open" /\ diag.run.stop # "open"
        /\ diag.run.shutdown \in {"none", "open"}
    BY <1>1, <1>2, <2>1 DEF RunSpans, RunRecords, Finals, Outcomes
  <2>3. diag.run.terminal # "none"
    BY <2>2 DEF Outcomes
  <2>4. /\ c \in RunRecords /\ c.failure = diag.run.failure /\ c.started = diag.run.started
        /\ c.start = diag.run.start /\ c.stop = diag.run.stop /\ c.first = diag.run.first
        /\ c.terminal = diag.run.terminal /\ c.span = diag.run.terminal
        /\ c.shutdown = IF diag.run.shutdown = "open" THEN diag.run.terminal ELSE diag.run.shutdown
        /\ c.installed = TRUE
    BY <1>2, <2>2 DEF RunRecords, Spans
  <2>5. FinishRun(diag) = [WithRun(diag, c) EXCEPT !.run.installed = FALSE]
    BY <1>2, <1>4, <2>2, <2>3 DEF FinishRun, ObserveRun, WithRun
  <2> HIDE DEF c
  <2>6. /\ WithRun(diag, c) \in Diagnostics /\ WithRun(diag, c).run = c
        /\ WithRun(diag, c).scene = diag.scene /\ WithRun(diag, c).drain = diag.drain
    BY <1>2, <2>4, RunChanged
  <2>7. diag' = WithRun(WithRun(diag, c), r)
    BY <1>1, <2>5, <2>6 DEF WithRun
  <2>8. /\ r \in RunRecords /\ r.failure = c.failure /\ r.started = c.started
        /\ r.start = c.start /\ r.stop = c.stop /\ r.first = c.first
        /\ r.terminal = c.terminal /\ r.span = c.span /\ r.shutdown = c.shutdown
        /\ r.installed = FALSE
    BY <2>4 DEF RunRecords
  <2> HIDE DEF r
  <2>9. /\ diag' \in Diagnostics /\ diag'.run = r
        /\ diag'.scene = diag.scene /\ diag'.drain = diag.drain
    BY <2>6, <2>7, <2>8, RunChanged
  <2>10. /\ Proven(diag.run) /\ diag.run.first # "completed"
         /\ ~core.observed => diag.run.shutdown = "none"
         /\ diag.run.first # "none" => failures # << >>
         /\ diag.run.first = "cancelled" => "cancelled" \in {diag.run.start, diag.run.stop}
         /\ diag.run.terminal = "completed" <=> failures = << >>
         /\ diag.run.terminal = "cancelled" => "cancelled" \in {diag.run.start, diag.run.stop}
    BY <1>1, <2>1 DEF RunSpans, Finals, Proven
  <2>11. /\ diag'.run.installed = FALSE /\ diag'.run.started = TRUE
         /\ diag'.run.start = diag.run.start /\ diag'.run.stop = diag.run.stop
         /\ diag'.run.first = diag.run.first /\ diag'.run.terminal = diag.run.terminal
         /\ diag'.run.span = diag.run.terminal
         /\ diag'.run.shutdown \in {"none", diag.run.terminal}
         /\ diag.run.shutdown = "none" => diag'.run.shutdown = "none"
    BY <2>2, <2>4, <2>8, <2>9
  <2>12. RunSpans(diag)'
    BY <1>1, <2>2, <2>10, <2>11 DEF RunSpans, Finals, Proven
  <2>13. scene.phase = "Closed" /\ loop = "free"
    BY <1>1 DEF FlowInv, RunTypes, ControlInv, SceneInv
  <2>14. SceneSpans(diag)'
    BY <1>1, <2>1, <2>9, <2>13, IdleFrame
  <2> QED
    BY <1>4, <2>4, <2>8, <2>9, <2>12, <2>14 DEF DiagInv, Broken
<1> QED
  BY <1>3, <1>4

\* The Scene of the Run is opened, between two Scenes only.
LEMMA SceneCreatesStep ==
  ASSUME FlowInv, DiagInv, NEW foreign \in BOOLEAN, SceneCreates(foreign)
  PROVE  DiagInv'
<1>1. /\ stage = "scene" /\ at = "dispatch" /\ loop = "free" /\ stage' = "scene" /\ at' = "wait"
      /\ diag' = SceneCreated(diag) /\ scene'.phase = "Open"
      /\ UNCHANGED <<loop, core, failures>>
  BY DEF SceneCreates, At, To, LoopFree
<1>2. CASE Broken(diag)
  <2>1. diag' = diag
    BY <1>1, <1>2, BrokenRun
  <2> QED
    BY <1>1, <1>2, <2>1, BrokenFrame DEF DiagInv
<1>3. CASE ~Broken(diag)
  <2>1. Working(diag) /\ RunSpans(diag) /\ SceneSpans(diag)
    BY <1>1, <1>3 DEF DiagInv, RunSpans, Working
  <2>2. ~diag.scene.there
    BY <1>1, <2>1 DEF FlowInv, RunTypes, ControlInv, SceneInv, SceneSpans, NoSpans, Waits
  <2>3. Working(diag') /\ diag'.run = diag.run /\ Runs(diag')
    BY <1>1, <2>1, <2>2, SceneCreatedDue
  <2>4. RunSpans(diag)'
    BY <1>1, <2>1, <2>3, RunFrame
  <2>5. SceneSpans(diag)'
    BY <1>1, <2>3 DEF SceneSpans
  <2> QED
    BY <2>3, <2>4, <2>5 DEF DiagInv, Working, Broken
<1> QED
  BY <1>2, <1>3

\* A Scene that is not created is opened and closed again in one callback.
LEMMA SceneNotCreatedStep ==
  ASSUME FlowInv, DiagInv, NEW foreign \in BOOLEAN, SceneNotCreated(foreign)
  PROVE  DiagInv'
<1> DEFINE made == SceneCreated(diag)
<1>1. /\ stage = "scene" /\ at = "dispatch" /\ loop = "free" /\ stage' = "scene" /\ at' = "returned"
      /\ scene'.phase = "Closed" /\ UNCHANGED <<loop, core, failures>>
  BY DEF SceneNotCreated, At, To, LoopFree
<1>2. \/ \E error \in Errors : Close(DriverExited(made, "closed", error), 0, TRUE)
      \/ Close(TaskFinished(made, "error"), 0, FALSE)
  BY DEF SceneNotCreated, Errors
<1>3. CASE Broken(diag)
  <2>1. made = diag /\ diag \in Diagnostics
    BY <1>3, BrokenRun DEF DiagInv
  <2> HIDE DEF made
  <2>2. diag' \in Diagnostics /\ diag'.run = diag.run
    <3>1. CASE Close(TaskFinished(made, "error"), 0, FALSE)
      <4>1. TaskFinished(made, "error") \in Diagnostics /\ TaskFinished(made, "error").run = diag.run
        BY <1>3, <2>1, BrokenTaskFinished DEF Errors
      <4> QED
        BY <1>3, <3>1, <4>1, BrokenClose DEF Broken
    <3>2. ASSUME NEW error \in Errors, Close(DriverExited(made, "closed", error), 0, TRUE)
          PROVE  diag' \in Diagnostics /\ diag'.run = diag.run
      <4>1. /\ DriverExited(made, "closed", error) \in Diagnostics
            /\ DriverExited(made, "closed", error).run = diag.run
        BY <1>3, <2>1, BrokenDrain
      <4> QED
        BY <1>3, <3>2, <4>1, BrokenClose DEF Broken
    <3> QED
      BY <1>2, <3>1, <3>2
  <2> QED
    BY <1>1, <1>3, <2>2, BrokenFrame
<1>4. CASE ~Broken(diag)
  <2>1. Working(diag) /\ RunSpans(diag) /\ SceneSpans(diag)
    BY <1>1, <1>4 DEF DiagInv, RunSpans, Working
  <2>2. ~diag.scene.there
    BY <1>1, <2>1 DEF FlowInv, RunTypes, ControlInv, SceneInv, SceneSpans, NoSpans, Waits
  <2>3. Working(made) /\ made.run = diag.run /\ Runs(made)
    BY <2>1, <2>2, SceneCreatedDue
  <2> HIDE DEF made
  <2>4. /\ made.scene.there /\ made.scene.span = "open" /\ ~made.scene.cleaned
        /\ made.scene.task = "none" /\ made.drain = NoDrain
    BY <2>3 DEF Runs, NoScene
  <2>5. Working(diag') /\ diag'.run = diag.run /\ NoSpans(diag')
    <3>1. CASE Close(TaskFinished(made, "error"), 0, FALSE)
      <4> DEFINE t == TaskFinished(made, "error")
      <4>1. /\ Working(t) /\ t.run = made.run /\ t.drain = made.drain
            /\ t.scene.there /\ ~t.scene.cleaned /\ t.scene.span = "open" /\ t.scene.task # "none"
        BY <2>3, <2>4, TaskFinishedDue DEF Errors
      <4> HIDE DEF t
      <4>2. Closable(t)
        BY <2>4, <4>1 DEF Closable
      <4>3. Close(t, 0, FALSE)
        BY <3>1 DEF t
      <4> QED
        BY <2>3, <4>1, <4>2, <4>3, CloseDue
    <3>2. ASSUME NEW error \in Errors, Close(DriverExited(made, "closed", error), 0, TRUE)
          PROVE  Working(diag') /\ diag'.run = diag.run /\ NoSpans(diag')
      <4> DEFINE t == DriverExited(made, "closed", error)
      <4>1. Working(t) /\ Exited(t) /\ t.run = made.run /\ t.scene = made.scene
        BY <2>3, <2>4, DriverExitedDue
      <4> HIDE DEF t
      <4>2. t.scene.span = "open" /\ t.scene.task = "none" /\ ~t.scene.cleaned
        BY <2>4, <4>1
      <4>3. Closable(t)
        BY <4>1, <4>2 DEF Closable
      <4>4. Close(t, 0, TRUE)
        BY <3>2 DEF t
      <4> QED
        BY <2>3, <4>1, <4>2, <4>3, <4>4, CloseFailedDue
    <3> QED
      BY <1>2, <3>1, <3>2
  <2>6. RunSpans(diag)'
    BY <1>1, <2>1, <2>5, RunFrame
  <2>7. SceneSpans(diag)'
    BY <1>1, <2>5 DEF SceneSpans, Waits
  <2> QED
    BY <2>5, <2>6, <2>7 DEF DiagInv, Working, Broken
<1> QED
  BY <1>3, <1>4

-----------------------------------------------------------------------------
(* The invariant of the Run.                                               *)

\* The Run begins unbound.
LEMMA RunInvInit ==
  ASSUME RunInit, story.results \subseteq Errors
  PROVE  RunInv
<1>1. NoDiagnostics \in Diagnostics /\ ~Broken(NoDiagnostics)
  BY DEF NoDiagnostics, NoRun, NoScene, NoDrain, Diagnostics, RunRecords, SceneRecords,
         DrainRecords, Spans, Outcomes, Broken
<1>2. FlowInv
  <2>1. RunTypes
    <3>1. failures \in Seq(Phases)
      BY DEF RunInit
    <3> QED
      BY <3>1 DEF RunInit, RunTypes, NoTask, Errors
  <2>2. ControlInv
    BY DEF RunInit, ControlInv, NoTask, Waits, Finals
  <2>3. SceneInv
    BY DEF RunInit, SceneInv, NoTask, Waits, Finals
  <2> QED
    BY <2>1, <2>2, <2>3 DEF FlowInv
<1>3. RunSpans(diag)
  BY DEF RunInit, RunSpans, NoDiagnostics, NoRun, Finals
<1>4. SceneSpans(diag)
  BY DEF RunInit, SceneSpans, NoSpans, NoDiagnostics, NoScene, NoDrain
<1> QED
  BY <1>1, <1>2, <1>3, <1>4 DEF RunInit, RunInv, DiagInv

\* Every step of the Run keeps its diagnostics with it.
LEMMA RunStep ==
  ASSUME RunInv, RunNext
  PROVE  RunInv'
<1>1. FlowInv /\ DiagInv
  BY DEF RunInv
<1>2. CASE \/ ShutdownObserved \/ WaitSceneClosed \/ CallHook \/ SceneRefused \/ CancelTask
           \/ CheckFactory \/ StartCue \/ OperationFinished \/ ReplaceFactory
           \/ \E r \in Requesters : RequestShutdown(r)
  <2>1. UNCHANGED diag
    BY <1>2 DEF ShutdownObserved, WaitSceneClosed, CallHook, SceneRefused, CancelTask,
                CheckFactory, StartCue, OperationFinished, ReplaceFactory, RequestShutdown
  <2> QED
    BY <1>1, <1>2, <2>1, SilentSteps, FlowStep DEF RunInv
<1>3. CASE RunNext /\ DiagInv'
  BY <1>1, <1>3, FlowStep DEF RunInv
<1> QED
  BY <1>1, <1>2, <1>3, AwaitedSteps, ClosedSteps, TaskEndsStep, FailStep, ShutdownStep, BindStep,
     BetweenSteps, SceneReturnStep, EnterStopStep, ReturnStartStep, ReturnStopStep, DropPermitStep,
     SceneCreatesStep, SceneNotCreatedStep DEF RunNext, Tokio, LoopCallbacks, UserCode
=============================================================================
