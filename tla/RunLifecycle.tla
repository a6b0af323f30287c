---------------------------- MODULE RunLifecycle ----------------------------
(***************************************************************************)
(* One Run of a Production: run_lifecycle (orchestration/runtime.rs), the  *)
(* Python tasks it starts on the event loop (python_task.rs), the Scene    *)
(* they belong to, and the task factory it lends to the loop               *)
(* (scene_context.rs).                                                     *)
(*                                                                         *)
(* The lifecycle runs on a Tokio thread.  "stage" is the part of           *)
(* run_lifecycle it is in and "at" the await inside that part.  What it    *)
(* posts with call_soon_threadsafe runs on the loop thread, one callback   *)
(* at a time, as do the user's coroutines: an action of the loop needs     *)
(* "loop" to be free.  Other threads ask for a shutdown: a signal handler  *)
(* (or the drop of the outer future), and the supervisor of the            *)
(* diagnostics when these have failed.                                     *)
(*                                                                         *)
(* The Cues of a Scene are one operation that a Scene may be left with;    *)
(* CueOrchestration has their detail.  The original task factory is        *)
(* asyncio's own; a user may put another one in its place, whose tasks may *)
(* refuse to be created or to be cancelled.                                *)
(***************************************************************************)
EXTENDS RunDiagnostics, Sequences, FiniteSets

CONSTANTS Stories   \* what happens in a behaviour: see StoryType

StoryType(casts) ==
  [scenes : Nat,                              \* Scenes the Run may begin
   replacements : Nat,                        \* times user code replaces the factory
   faults : Nat,                              \* failures of the diagnostics
   results : SUBSET {"none", "cancelled", "error"},  \* how user code may end
   casts : SUBSET casts]

VARIABLES story, stage, at,
          core,      \* RuntimeCore: the token and shutdown_observed
          asks,      \* where each requester of a shutdown stands
          loop,      \* "free", or inside the callback that closes a Scene
          factory,   \* the task factory of the loop: "original", "wrapper" or "other"
          replaced,  \* factory_replaced of the RunBinding
          task,      \* the task the lifecycle waits for
          scene,     \* the current SceneScope
          returned,  \* the result of the hook or Scene, before it is accounted
          failures,  \* the phases that failed, in order
          used,      \* Scenes begun, factories replaced, faults injected
          diag       \* the diagnostics of the Run (RunDiagnostics)

runVars == <<story, stage, at, core, asks, loop, factory, replaced, task, scene,
             returned, failures, used, diag>>

Requesters == {"signal", "supervisor"}
NoTask == [state |-> "none", cancel |-> FALSE, docile |-> TRUE, error |-> "none"]

RunInit ==
  /\ story \in Stories
  /\ stage = "bind" /\ at = "entry" /\ loop = "free"
  /\ core = [shutdown |-> FALSE, observed |-> FALSE]
  /\ asks = [r \in Requesters |-> "idle"]
  /\ factory = "original" /\ replaced = FALSE
  /\ task = NoTask /\ scene = [phase |-> "Closed", operations |-> 0]
  /\ returned = "none" /\ failures = << >>
  /\ used = [scenes |-> 0, replacements |-> 0, faults |-> 0]
  /\ diag = NoDiagnostics

LoopFree == loop = "free"
To(p, c) == stage' = p /\ at' = c
At(p, c) == stage = p /\ at = c

\* The parts of the state that most steps leave alone.
rest == <<story, core, asks, used>>
python == <<loop, factory, replaced, task, scene>>

-----------------------------------------------------------------------------
(* Shutdown requests.                                                      *)

\* request_shutdown cancels the token first ...
RequestShutdown(r) ==
  /\ asks[r] = "idle"
  /\ r = "supervisor" => Broken(diag)
  /\ asks' = [asks EXCEPT ![r] = "cancelled"]
  /\ core' = [core EXCEPT !.shutdown = TRUE]
  /\ UNCHANGED <<story, stage, at, python, returned, failures, used, diag>>

\* ... and then tells the diagnostics, once per Run.
ObserveShutdown(r) ==
  /\ asks[r] = "cancelled"
  /\ asks' = [asks EXCEPT ![r] = "done"]
  /\ core' = [core EXCEPT !.observed = TRUE]
  /\ diag' = IF core.observed THEN diag ELSE EnterShutdown(diag)
  /\ UNCHANGED <<story, stage, at, python, returned, failures, used>>

\* Any part of the diagnostics may fail; the producer of the Run keeps it.
DiagnosticsFail ==
  /\ used.faults < story.faults /\ diag.run.installed /\ ~Broken(diag)
  /\ used' = [used EXCEPT !.faults = @ + 1]
  /\ diag' = Latched(diag, "external")
  /\ UNCHANGED <<story, stage, at, core, asks, python, returned, failures>>

-----------------------------------------------------------------------------
(* The task factory.  Every one of these runs on the loop thread.          *)

\* User code on the loop sets a factory of its own.
ReplaceFactory ==
  /\ LoopFree /\ stage \notin {"bind", "finish", "sessions", "done"}
  /\ used.replacements < story.replacements
  /\ used' = [used EXCEPT !.replacements = @ + 1]
  /\ factory' = "other"
  /\ UNCHANGED <<story, stage, at, core, asks, loop, replaced, task, scene, returned,
                 failures, diag>>

\* check_wrapper fails for good once a replacement was noticed.
CheckFails == replaced \/ factory # "wrapper"

\* install_wrapper.
InstallWrapper ==
  /\ At("install", "entry") /\ LoopFree
  /\ IF factory = "original"
     THEN factory' = "wrapper" /\ UNCHANGED <<replaced, failures>>
     ELSE replaced' = TRUE /\ failures' = Append(failures, "scene") /\ UNCHANGED factory
  /\ To("loop", "entry")
  /\ UNCHANGED <<rest, loop, task, scene, returned, diag>>

\* restore_factory sets the original factory whatever it found; the replacement
\* it notices counts only when no Scene has failed.
RestoreFactory ==
  /\ At("restore", "entry") /\ LoopFree
  /\ factory' = "original"
  /\ replaced' = (replaced \/ CheckFails)
  /\ failures' = IF CheckFails /\ failures = << >> THEN <<"scene">> ELSE failures
  /\ To("stop", "entry")
  /\ UNCHANGED <<rest, loop, task, scene, returned, diag>>

-----------------------------------------------------------------------------
(* The Scene.                                                              *)

\* SceneScope::close, with ensure_wrapper_for_drain before it: the wrapper goes
\* back in place, admission ends, and the operation that is left is cancelled.
\* A Scene without operations is closed and observed at once.  Each hook finds
\* what the one before it left; when the task could not be made ("failed"), its
\* end is told after that of the Scene.
Close(d, operations, failed) ==
  \E closing \in {AdmissionClosed(d)} : \E cleaning \in {CleanupStarted(closing)} :
    IF operations = 0
    THEN \E finished \in {CleanupFinished(cleaning)} : 
           diag' = IF failed THEN TaskFinished(SceneFinished(finished), "error")
                             ELSE SceneFinished(finished)
    ELSE diag' = CancellationStarted(cleaning)

ClosedScene == [scene EXCEPT !.phase = IF scene.operations = 0 THEN "Closed" ELSE "Closing"]
EnsureWrapper == /\ factory' = "wrapper"
                 /\ replaced' = (replaced \/ factory # "wrapper")

\* A Cue of the Scene begins; one may be left when the Scene returns.
StartCue ==
  /\ LoopFree /\ stage = "scene" /\ task.state = "running"
  /\ scene.phase = "Open" /\ scene.operations = 0
  /\ scene' = [scene EXCEPT !.operations = 1]
  /\ UNCHANGED <<rest, stage, at, loop, factory, replaced, task, returned, failures, diag>>

\* operation_finished: the last operation of a closing Scene closes it, and
\* tells the diagnostics only after the state is unlocked.
OperationFinished ==
  /\ LoopFree /\ scene.operations = 1
  /\ scene' = [phase |-> IF scene.phase = "Closing" THEN "Closed" ELSE scene.phase,
               operations |-> 0]
  /\ loop' = IF scene.phase = "Closing" THEN "closing" ELSE loop
  /\ UNCHANGED <<rest, stage, at, factory, replaced, task, returned, failures, diag>>

\* observe_closed.
ObserveClosed ==
  /\ loop = "closing" /\ loop' = "free"
  /\ diag' = SceneFinished(CleanupFinished(diag))
  /\ UNCHANGED <<rest, stage, at, factory, replaced, task, scene, returned, failures>>

-----------------------------------------------------------------------------
(* Tasks.                                                                  *)

RunningTask(docile) == [NoTask EXCEPT !.state = "running", !.docile = docile]

\* HookCallback: Production.start or stop is called, and its awaitable becomes
\* a task; the call itself may raise.
CallHook ==
  /\ stage \in {"start", "stop"} /\ at = "dispatch" /\ LoopFree
  /\ \/ task' = RunningTask(TRUE) /\ To(stage, "wait") /\ UNCHANGED returned
     \/ /\ "error" \in story.results
        /\ returned' = "error" /\ To(stage, "returned") /\ UNCHANGED task
  /\ UNCHANGED <<rest, loop, factory, replaced, scene, failures, diag>>

\* SceneTaskCallback finds that the factory was replaced between two Scenes.
SceneRefused ==
  /\ At("scene", "dispatch") /\ LoopFree /\ CheckFails
  /\ EnsureWrapper
  /\ returned' = "error" /\ To("scene", "returned")
  /\ UNCHANGED <<rest, loop, task, scene, failures, diag>>

\* Production.scene raises: the Scene that was made for it is closed again.
\* Or it replaced the factory, and the foreign one makes no task: the driver is
\* closed, and the Scene with it, before the task is told to have failed.
SceneNotCreated(foreign) ==
  /\ At("scene", "dispatch") /\ LoopFree /\ ~CheckFails
  /\ "error" \in story.results
  /\ foreign => used.replacements < story.replacements
  /\ \E made \in {SceneCreated(diag)} :
       IF foreign
       THEN \E error \in {"none", "error"} :
              Close(DriverExited(made, "closed", error), 0, TRUE)
       ELSE Close(TaskFinished(made, "error"), 0, FALSE)
  /\ scene' = [phase |-> "Closed", operations |-> 0]
  /\ used' = [used EXCEPT !.scenes = @ + 1, !.replacements = @ + IF foreign THEN 1 ELSE 0]
  /\ replaced' = (replaced \/ foreign)
  /\ returned' = "error" /\ To("scene", "returned")
  /\ UNCHANGED <<story, core, asks, loop, factory, task, failures>>

\* SceneTaskCallback creates the Scene, its driver and its task.  When the call
\* of Production.scene replaced the factory, the task is a foreign one: the
\* wrapper is put back and the task cancelled at once.
SceneCreates(foreign) ==
  /\ At("scene", "dispatch") /\ LoopFree /\ ~CheckFails
  /\ foreign => used.replacements < story.replacements
  /\ diag' = SceneCreated(diag)
  /\ scene' = [phase |-> "Open", operations |-> 0]
  /\ used' = [used EXCEPT !.scenes = @ + 1, !.replacements = @ + IF foreign THEN 1 ELSE 0]
  /\ IF foreign
     THEN \E docile \in BOOLEAN :
            task' = [RunningTask(docile) EXCEPT !.cancel = docile] /\ replaced' = TRUE
     ELSE task' = RunningTask(TRUE) /\ UNCHANGED replaced
  /\ To("scene", "wait")
  /\ UNCHANGED <<story, core, asks, loop, factory, returned, failures>>

\* A task ends as user code pleases; a Scene closes as its driver returns
\* (ScopeDriver::drive and close_owner).
TaskEnds ==
  /\ LoopFree /\ task.state = "running"
  /\ \E error \in story.results :
       /\ task' = [task EXCEPT !.state = "done", !.error = error]
       /\ IF stage = "scene"
          THEN /\ EnsureWrapper
               /\ Close(DriverExited(diag, "returned", error), scene.operations, FALSE)
               /\ scene' = ClosedScene
          ELSE UNCHANGED <<factory, replaced, diag, scene>>
  /\ UNCHANGED <<rest, stage, at, loop, returned, failures>>

\* The end of a Scene's task is told to its producer by PythonTask::wait.
Awaited(error) == IF stage = "scene" THEN TaskFinished(diag, error) ELSE diag
After == IF stage = "scene" THEN "close" ELSE "returned"

\* The completion of the task wins the select of await_hook or of run_lifecycle.
AwaitTask ==
  /\ at = "wait" /\ task.state = "done"
  /\ returned' = task.error /\ diag' = Awaited(task.error)
  /\ To(stage, After)
  /\ UNCHANGED <<rest, python, failures>>

\* The shutdown wins it; stop is not given the token.
ShutdownObserved ==
  /\ at = "wait" /\ stage \in {"start", "scene"} /\ core.shutdown
  /\ To(stage, "cancel")
  /\ UNCHANGED <<rest, python, returned, failures, diag>>

\* cancel_python_task: a task that has ended ignores it, a foreign one may raise.
CancelTask ==
  /\ at = "cancel" /\ LoopFree
  /\ task' = [task EXCEPT !.cancel = @ \/ task.state = "running"]
  /\ To(stage, "drain")
  /\ UNCHANGED <<rest, loop, factory, replaced, scene, returned, failures, diag>>

\* resolve_cancelled_hook and await_after_cancel: an error of the task comes
\* before an error of the cancellation, that before everything else.
AwaitCancelled ==
  /\ at = "drain" /\ task.state = "done"
  /\ returned' = IF task.error = "error" \/ task.docile THEN task.error ELSE "error"
  /\ diag' = Awaited(task.error)
  /\ To(stage, After)
  /\ UNCHANGED <<rest, python, failures>>

WaitSceneReturned ==
  /\ At("scene", "close")
  /\ To("scene", "check")
  /\ UNCHANGED <<rest, python, returned, failures, diag>>

\* wait_scene_closed sees the phase, not the notification.
WaitSceneClosed ==
  /\ At("scene", "close") /\ scene.phase = "Closed"
  /\ To("scene", "check")
  /\ UNCHANGED <<rest, python, returned, failures, diag>>

\* The check of the factory runs on the loop, behind the callback that closed
\* the Scene; a replacement turns any result but an error into one.
CheckFactory ==
  /\ At("scene", "check") /\ LoopFree
  /\ replaced' = (replaced \/ CheckFails)
  /\ returned' = IF CheckFails THEN "error" ELSE returned
  /\ To("scene", "returned")
  /\ UNCHANGED <<rest, loop, factory, task, scene, failures, diag>>

-----------------------------------------------------------------------------
(* run_lifecycle.                                                          *)

\* create_run_binding, bind_run, run_started and the entry into start.
BindRun ==
  /\ At("bind", "entry")
  /\ diag' = EnterStart(RunStarted(diag))
  /\ To("start", "dispatch")
  /\ UNCHANGED <<rest, python, returned, failures>>

\* A start that fails or is cancelled ends the lifecycle without a stop.
ReturnStart ==
  /\ At("start", "returned")
  /\ LET observed == FinishStart(diag, returned)
     IN  IF returned = "none"
         THEN To("install", "entry") /\ diag' = observed /\ UNCHANGED failures
         ELSE /\ To("finish", "entry")
              /\ diag' = LifecycleReturned(observed, TRUE)
              /\ failures' = Append(failures, "start")
  /\ returned' = "none" /\ task' = NoTask
  /\ UNCHANGED <<rest, loop, factory, replaced, scene>>

NextScene ==
  /\ At("loop", "entry")
  /\ IF failures = << >> /\ ~core.shutdown
     THEN used.scenes < story.scenes /\ To("scene", "dispatch")
     ELSE To("restore", "entry")
  /\ UNCHANGED <<rest, python, returned, failures, diag>>

\* An error fails the Run, a cancellation ends its loop, and a replacement that
\* was noticed fails it whatever the Scene returned.
ReturnScene ==
  /\ At("scene", "returned")
  /\ diag' = ObserveSceneReturn(diag, returned)
  /\ failures' = IF returned = "error" \/ replaced THEN Append(failures, "scene") ELSE failures
  /\ IF returned = "none" /\ ~replaced THEN To("loop", "entry") ELSE To("restore", "entry")
  /\ returned' = "none" /\ task' = NoTask
  /\ UNCHANGED <<rest, loop, factory, replaced, scene>>

EnterStopHook ==
  /\ At("stop", "entry")
  /\ diag' = EnterStop(diag)
  /\ To("stop", "dispatch")
  /\ UNCHANGED <<rest, python, returned, failures>>

ReturnStop ==
  /\ At("stop", "returned")
  /\ failures' = IF returned = "none" THEN failures ELSE Append(failures, "stop")
  /\ diag' = LifecycleReturned(FinishStop(diag, returned), failures' # << >>)
  /\ returned' = "none" /\ task' = NoTask /\ To("finish", "entry")
  /\ UNCHANGED <<rest, loop, factory, replaced, scene>>

\* The permit is dropped: the Run is finished, and its producer detached.
DropPermit ==
  /\ At("finish", "entry")
  /\ diag' = FinishRun(diag)
  /\ To("sessions", "entry")
  /\ UNCHANGED <<rest, python, returned, failures>>

-----------------------------------------------------------------------------
Tokio ==
  \/ BindRun \/ AwaitTask \/ ShutdownObserved \/ AwaitCancelled \/ WaitSceneClosed
  \/ ReturnStart \/ NextScene \/ ReturnScene \/ EnterStopHook \/ ReturnStop \/ DropPermit
LoopCallbacks ==
  \/ InstallWrapper \/ RestoreFactory \/ CallHook \/ SceneRefused
  \/ \E foreign \in BOOLEAN : SceneNotCreated(foreign) \/ SceneCreates(foreign)
  \/ CancelTask \/ CheckFactory \/ ObserveClosed
UserCode == TaskEnds \/ StartCue \/ OperationFinished \/ ReplaceFactory

RunNext ==
  \/ Tokio \/ LoopCallbacks \/ UserCode \/ DiagnosticsFail
  \/ \E r \in Requesters : RequestShutdown(r) \/ ObserveShutdown(r)

\* User code ends when it was cancelled, and so does stop; a Scene that nobody
\* cancels may run for ever.  Only the supervisor has to ask for a shutdown.
RunProgress ==
  \/ Tokio \/ LoopCallbacks \/ RequestShutdown("supervisor")
  \/ TaskEnds /\ (task.cancel \/ at = "drain" \/ stage = "stop")
  \/ OperationFinished /\ scene.phase = "Closing"
=============================================================================
