--------------------------- MODULE CueOrchestration ---------------------------
(***************************************************************************)
(* The life of Cues in one Production Run: a caller admits a Cue through   *)
(* the Scene it runs in (CueCall, SceneScope), the CueOperation waits in   *)
(* the FIFO mailbox of its Actor, runs as an asyncio task, and ends with   *)
(* one terminal outcome that releases the mailbox slot, the Scene and the  *)
(* caller (orchestration/{cue_future,scene_context,mailbox,actor}.rs).     *)
(*                                                                         *)
(* Everything except SceneScope::wait_closed runs on the thread of the     *)
(* asyncio loop, one callback at a time.  A callback that works through    *)
(* several operations is several steps here: "cancelling" holds the        *)
(* operations a cancellation loop has still to visit, "claimed" the        *)
(* operation a mailbox has handed out and not yet dispatched, and "owed"   *)
(* the retired operation whose signal is resolved after that dispatch.     *)
(* While one of them is set no other callback runs; the waiter for a       *)
(* closed Scene, on its own thread, does.                                  *)
(***************************************************************************)
EXTENDS Naturals, Sequences, CueLifecycle

CONSTANTS
  Cues,          \* the CueCalls of the Run, each with the CueOperation it admits
  Actors, Scenes,
  None,          \* no Cue
  Target,        \* the Actor a Cue is for
  Home,          \* the Scene a Cue is admitted by
  Caller,        \* the Cue whose task makes the call, None for the Scene's task
  TokenModulus,  \* admission tokens wrap (u64::wrapping_add)
  Results,       \* the results an asyncio task may end with
  Faults         \* what may go wrong around a Cue

ASSUME OrchestrationAssumption ==
  /\ None \notin Cues
  /\ Target \in [Cues -> Actors]
  /\ Home \in [Cues -> Scenes]
  /\ Caller \in [Cues -> Cues \cup {None}]
  /\ \A c \in Cues : Caller[c] # None => Home[Caller[c]] = Home[c]
  /\ TokenModulus \in Nat \ {0}
  /\ Results \subseteq {"valid", "invalid", "cancelled", "error"}
  /\ Faults \subseteq {"admission", "dispatch", "attachment", "task_cancel",
                      "caller_cancels", "caller_throws", "caller_closes", "actor_dropped"}

VARIABLES
  scene,       \* SceneScope: phase, token, next token, Cue counter, operations
  call,        \* CueCall: phase, recorded cancellation, result, token held
  op,          \* OperationState of the CueOperation
  task,        \* the asyncio task that runs Actor.cued: none, pending, or a result
  cued,        \* CuedScope::active
  signal,      \* the future that wakes the caller is resolved
  mailbox,     \* ActorCapability::mailbox; alive while something holds the Actor
  lifecycle,   \* the diagnostic lifecycle of each Cue
  cancelling, claimed, owed,
  ticket,      \* history: the position at which a Cue entered its mailbox, 0 for never
  arrivals     \* history: how many Cues entered the mailbox of an Actor

history == <<ticket, arrivals>>

vars == <<scene, call, op, task, cued, signal, mailbox, lifecycle,
          cancelling, claimed, owed, ticket, arrivals>>
-----------------------------------------------------------------------------
ScenePhases == {"open", "admitting", "close_pending", "closing", "closed"}
CallPhases == {"none", "created", "admitting", "waiting", "cancelling", "done"}
OperationPhases == {"none", "queued", "running", "cancelling", "terminal"}
Outcomes == {"none", "success", "failure", "cancelled", "cleanup_failure"}
TaskResults == {"valid", "invalid", "cancelled", "error"}
CallResults == {"none", "refused", "success", "failure", "cleanup_failure",
                "operation_cancelled", "caller_cancelled", "abandoned"}

SceneStates == [phase : ScenePhases, driven : BOOLEAN, token : Nat, nextToken : Nat,
                counter : Nat, operations : SUBSET Cues]
CallStates == [phase : CallPhases, cancellation : BOOLEAN, result : CallResults,
               token : Nat, index : Nat]
OperationStates == [phase : OperationPhases, intent : {"none", "requested", "attachment"},
                    dispatchError : BOOLEAN, outcome : Outcomes]
Mailboxes == [queue : Seq(Cues), running : Cues \cup {None}, alive : BOOLEAN]

\* Every piece of the orchestration state keeps its type (SceneState, CueCallPhase,
\* OperationState, Mailbox, CueLifecycleState).
TypeInv ==
  /\ scene \in [Scenes -> SceneStates]
  /\ call \in [Cues -> CallStates]
  /\ op \in [Cues -> OperationStates]
  /\ task \in [Cues -> {"none", "pending"} \cup TaskResults]
  /\ cued \in [Cues -> BOOLEAN]
  /\ signal \in [Cues -> BOOLEAN]
  /\ mailbox \in [Actors -> Mailboxes]
  /\ lifecycle \in [Cues -> Lifecycles]
  /\ cancelling \in SUBSET Cues
  /\ claimed \in Cues \cup {None}
  /\ owed \in Cues \cup {None}
  /\ ticket \in [Cues -> Nat]
  /\ arrivals \in [Actors -> Nat]

Init ==
  /\ scene = [s \in Scenes |-> [phase |-> "open", driven |-> TRUE, token |-> 0, nextToken |-> 0,
                                counter |-> 0, operations |-> {}]]
  /\ call = [c \in Cues |-> [phase |-> "none", cancellation |-> FALSE, result |-> "none",
                             token |-> 0, index |-> 0]]
  /\ op = [c \in Cues |-> [phase |-> "none", intent |-> "none", dispatchError |-> FALSE,
                           outcome |-> "none"]]
  /\ task = [c \in Cues |-> "none"]
  /\ cued = [c \in Cues |-> FALSE]
  /\ signal = [c \in Cues |-> FALSE]
  /\ mailbox = [a \in Actors |-> [queue |-> <<>>, running |-> None, alive |-> TRUE]]
  /\ lifecycle = [c \in Cues |-> NoLifecycle]
  /\ cancelling = {} /\ claimed = None /\ owed = None
  /\ ticket = [c \in Cues |-> 0]
  /\ arrivals = [a \in Actors |-> 0]
-----------------------------------------------------------------------------
\* The loop thread is between two operations of a callback, or in none.
Settled == cancelling = {} /\ claimed = None

\* No callback is on the stack, an admission included.
Idle == Settled /\ \A c \in Cues : call[c].phase # "admitting"

-----------------------------------------------------------------------------
(* Mailbox, and the terminal transition of an operation.                   *)

Queued(m, c) == \E i \in 1..Len(m.queue) : m.queue[i] = c

Position(q, c) == CHOOSE i \in 1..Len(q) : q[i] = c

\* VecDeque::remove.
Without(q, i) == SubSeq(q, 1, i - 1) \o SubSeq(q, i + 1, Len(q))

\* Variants with a plausible bug, used to test the properties below: the queue is
\* served from the wrong end; a retired operation keeps the slot; a Scene closes
\* with the first operation that ends.
EnqueueFront(m, c) ==
  IF m.running = None THEN [m EXCEPT !.running = c] ELSE [m EXCEPT !.queue = <<c>> \o @]
UnlinkQueuedOnly(m, c) ==
  IF Queued(m, c) THEN [m EXCEPT !.queue = Without(@, Position(@, c))] ELSE m
DeregisterFirst(s, c) ==
  [s EXCEPT !.operations = @ \ {c}, !.phase = IF @ = "closing" THEN "closed" ELSE @]

\* Mailbox::enqueue followed by claim_next_if_idle.
Enqueue(m, c) ==
  IF m.running = None
  THEN [m EXCEPT !.queue = Tail(Append(@, c)), !.running = Head(Append(m.queue, c))]
  ELSE [m EXCEPT !.queue = Append(@, c)]

\* Mailbox::terminal_transition: drop a queued operation, or retire the exact
\* running one and claim the next.
Unlink(m, c) ==
  CASE Queued(m, c) -> [m EXCEPT !.queue = Without(@, Position(@, c))]
    [] ~Queued(m, c) /\ m.running = c ->
         IF m.queue = <<>>
         THEN [m EXCEPT !.running = None]
         ELSE [m EXCEPT !.running = Head(m.queue), !.queue = Tail(@)]
    [] OTHER -> m

\* The operation terminal_transition hands back for dispatch.
NextOf(m, c) ==
  IF ~Queued(m, c) /\ m.running = c /\ m.queue # <<>> THEN Head(m.queue) ELSE None

\* SceneScope::operation_finished.
Deregister(s, c) ==
  [s EXCEPT !.operations = @ \ {c},
            !.phase = IF @ = "closing" /\ s.operations \subseteq {c} THEN "closed" ELSE @]

\* Variant: the signal of an operation that hands its slot on is forgotten.
RetireUnowed(c) ==
  LET next == NextOf(mailbox[Target[c]], c)
  IN  /\ mailbox' = [mailbox EXCEPT ![Target[c]] = Unlink(@, c)]
      /\ scene' = [scene EXCEPT ![Home[c]] = Deregister(@, c)]
      /\ claimed' = next /\ owed' = None
      /\ signal' = [d \in Cues |-> signal[d] \/ (d = c /\ next = None)]

\* CueOperation::complete_terminal_action, then the end of one turn of
\* ActorCapability::finish_terminal_action: with no next operation the signal is
\* resolved now, otherwise once the next one is dispatched.  A signal still owed
\* from the turn before is resolved here.
Retire(c) ==
  LET m == mailbox[Target[c]]
      next == NextOf(m, c)
  IN  /\ mailbox' = [mailbox EXCEPT ![Target[c]] = Unlink(m, c)]
      /\ scene' = [scene EXCEPT ![Home[c]] = Deregister(@, c)]
      /\ claimed' = next
      /\ owed' = IF next = None THEN None ELSE c
      /\ signal' = [d \in Cues |-> signal[d] \/ d = owed \/ (d = c /\ next = None)]

\* mailbox_changed(Retired) finds the Actor alive; without one, terminal removes
\* the producer itself.
RetiredOrRemoved(l, c) ==
  IF mailbox[Target[c]].alive THEN Retired(l) ELSE Removed(l)

\* CueOperation::transition_from_result: the outcome for an observed task result.
OutcomeOf(o, result) ==
  CASE o.phase # "cancelling" /\ result = "valid" -> "success"
    [] o.phase # "cancelling" /\ result \in {"invalid", "error"} -> "failure"
    [] o.phase # "cancelling" /\ result = "cancelled" -> "cancelled"
    [] o.phase = "cancelling" /\ o.intent = "attachment" -> "failure"
    [] o.phase = "cancelling" /\ o.intent # "attachment" ->
         IF result = "error" \/ o.dispatchError THEN "cleanup_failure" ELSE "cancelled"

Terminated(outcome) ==
  [phase |-> "terminal", intent |-> "none", dispatchError |-> FALSE, outcome |-> outcome]
-----------------------------------------------------------------------------
(* Cancellation.                                                           *)

\* The lifecycle after request_cancel and, for a queued operation, the terminal
\* action it performs.
CancelledLifecycle(c) ==
  CASE op[c].phase = "queued" ->
         RetiredOrRemoved(Terminal(CancelRequested(lifecycle[c]), "cancelled"), c)
    [] op[c].phase = "running" -> CancelRequested(lifecycle[c])
    [] OTHER -> lifecycle[c]

\* CueOperation::request_cancel.  A queued operation ends here; a running task is
\* asked to stop, and Task.cancel itself may raise; otherwise nothing happens.
RequestCancel(c) ==
  \/ /\ op[c].phase = "queued"
     /\ op' = [op EXCEPT ![c] = Terminated("cancelled")]
     /\ cued' = [cued EXCEPT ![c] = FALSE]
     /\ Retire(c)
  \/ /\ op[c].phase = "running"
     /\ \E failed \in BOOLEAN :
          /\ failed => "task_cancel" \in Faults
          /\ op' = [op EXCEPT ![c] = [@ EXCEPT !.phase = "cancelling", !.intent = "requested",
                                               !.dispatchError = failed]]
     /\ UNCHANGED <<scene, cued, signal, mailbox, claimed, owed>>
  \/ /\ op[c].phase \in {"none", "cancelling", "terminal"}
     /\ UNCHANGED <<scene, op, cued, signal, mailbox, claimed, owed>>

\* SceneScope::cancel_operations: request_cancel for one operation after another.
CancelNext ==
  \E c \in cancelling :
    /\ RequestCancel(c)
    /\ lifecycle' = [lifecycle EXCEPT ![c] = CancelledLifecycle(c)]
    /\ cancelling' = cancelling \ {c}
    /\ UNCHANGED <<call, task, history>>
-----------------------------------------------------------------------------
(* Admission.                                                              *)

\* TaskLineage::is_active for the task that makes the call.
LineageActive(c) ==
  IF Caller[c] = None THEN scene[Home[c]].phase = "open" ELSE cued[Caller[c]]

\* RunBinding::validate_lineage_for_scene.
Admissible(c) == LineageActive(c) /\ scene[Home[c]].phase = "open"

\* A task of the calling Cue exists once the Cue was dispatched; a delegated child
\* task may still make the call when the Cue is over.
CallerStarted(c) == Caller[c] # None => task[Caller[c]] # "none"

\* ActorHandle::cue creates the CueCall.
CreateCall(c) ==
  /\ Idle
  /\ call[c].phase = "none"
  /\ mailbox[Target[c]].alive /\ CallerStarted(c) /\ Admissible(c)
  /\ call' = [call EXCEPT ![c].phase = "created"]
  /\ UNCHANGED <<scene, op, task, cued, signal, mailbox, lifecycle, cancelling, claimed, owed,
                 history>>

\* CueCall::send on a created call, up to SceneScope::begin_admission and the Cue
\* index that AdmissionTxn::prepare reads.
BeginAdmission(c) ==
  LET s == scene[Home[c]]
  IN  /\ Idle
      /\ call[c].phase = "created"
      /\ Admissible(c)
      /\ scene' = [scene EXCEPT ![Home[c]] =
                     [@ EXCEPT !.phase = "admitting", !.token = s.nextToken,
                               !.nextToken = (s.nextToken + 1) % TokenModulus]]
      /\ call' = [call EXCEPT ![c] = [@ EXCEPT !.phase = "admitting", !.token = s.nextToken,
                                               !.index = s.counter]]
      /\ UNCHANGED <<op, task, cued, signal, mailbox, lifecycle, cancelling, claimed, owed,
                     history>>

\* CueCall::send when the lineage or the Scene no longer admits.
RefuseAdmission(c) ==
  /\ Idle
  /\ call[c].phase = "created"
  /\ ~Admissible(c)
  /\ call' = [call EXCEPT ![c] = [@ EXCEPT !.phase = "done", !.result = "refused"]]
  /\ UNCHANGED <<scene, op, task, cued, signal, mailbox, lifecycle, cancelling, claimed, owed,
                 history>>

\* An error between begin_admission and commit: AdmissionTxn or PreparedAdmission is
\* dropped and SceneScope::rollback_admission runs.
AbortAdmission(c) ==
  LET s == scene[Home[c]]
      mine == s.token = call[c].token
  IN  /\ Settled
      /\ "admission" \in Faults
      /\ call[c].phase = "admitting"
      /\ scene' = [scene EXCEPT ![Home[c]].phase =
                     CASE @ = "admitting" /\ mine -> "open"
                       [] @ = "close_pending" /\ mine -> "closing"
                       [] OTHER -> @]
      /\ cancelling' = IF s.phase = "close_pending" /\ mine THEN s.operations ELSE {}
      /\ call' = [call EXCEPT ![c] = [@ EXCEPT !.phase = "done", !.result = "failure"]]
      /\ UNCHANGED <<op, task, cued, signal, mailbox, lifecycle, claimed, owed, history>>

\* The Scene once PreparedAdmission::commit has registered the operation.
Registering(s, index, c) ==
  [s EXCEPT !.counter = index + 1, !.operations = @ \cup {c}]

\* PreparedAdmission::commit, which panics when the Scene does not hold its token.
\* With a close pending, the cancellation loop also ends the new operation, and its
\* enqueue is a no-op; otherwise the operation enters the mailbox, and is claimed
\* for dispatch when the Actor is idle.
CommitAdmission(c) ==
  LET s == scene[Home[c]]
      m == mailbox[Target[c]]
      admitted == Registering(s, call[c].index, c)
  IN  /\ Settled
      /\ call[c].phase = "admitting"
      /\ s.token = call[c].token
      /\ call' = [call EXCEPT ![c].phase = "waiting"]
      /\ op' = [op EXCEPT ![c].phase = "queued"]
      /\ cued' = [cued EXCEPT ![c] = TRUE]
      /\ \/ /\ s.phase = "admitting"
            /\ scene' = [scene EXCEPT ![Home[c]] = [admitted EXCEPT !.phase = "open"]]
            /\ mailbox' = [mailbox EXCEPT ![Target[c]] = Enqueue(@, c)]
            /\ claimed' = IF m.running = None THEN Enqueue(m, c).running ELSE None
            /\ lifecycle' = [lifecycle EXCEPT ![c] = Enqueued(Admitted(@))]
            /\ ticket' = [ticket EXCEPT ![c] = arrivals[Target[c]] + 1]
            /\ arrivals' = [arrivals EXCEPT ![Target[c]] = @ + 1]
            /\ UNCHANGED cancelling
         \/ /\ s.phase = "close_pending"
            /\ scene' = [scene EXCEPT ![Home[c]] = [admitted EXCEPT !.phase = "closing"]]
            /\ cancelling' = admitted.operations
            /\ lifecycle' = [lifecycle EXCEPT ![c] = Admitted(@)]
            /\ UNCHANGED <<mailbox, claimed, ticket, arrivals>>
      /\ UNCHANGED <<task, signal, owed>>

\* The Scene's ScopeDriver exits, whatever the reason: close_owner runs once and
\* calls SceneScope::close.
CloseScene(n) ==
  LET s == scene[n]
  IN  /\ Settled
      /\ s.driven
      /\ scene' = [scene EXCEPT ![n] = [@ EXCEPT !.driven = FALSE, !.phase =
                     CASE s.phase = "open" -> IF s.operations = {} THEN "closed" ELSE "closing"
                       [] s.phase = "admitting" -> "close_pending"
                       [] OTHER -> s.phase]]
      /\ cancelling' = IF s.phase = "open" THEN s.operations ELSE {}
      /\ UNCHANGED <<call, op, task, cued, signal, mailbox, lifecycle, claimed, owed, history>>

\* Variant: the waiter does not tell a pending close from a close.
WaitClosedEarly(n) ==
  /\ ~scene[n].driven
  /\ scene[n].phase \in {"closing", "close_pending"} /\ scene[n].operations = {}
  /\ scene' = [scene EXCEPT ![n].phase = "closed"]
  /\ UNCHANGED <<call, op, task, cued, signal, mailbox, lifecycle, cancelling, claimed, owed,
                 history>>

\* SceneScope::wait_closed, polled on the Runtime's own thread once the Scene's task
\* is over.
WaitClosed(n) ==
  /\ ~scene[n].driven
  /\ scene[n].phase = "closing" /\ scene[n].operations = {}
  /\ scene' = [scene EXCEPT ![n].phase = "closed"]
  /\ UNCHANGED <<call, op, task, cued, signal, mailbox, lifecycle, cancelling, claimed, owed,
                 history>>
-----------------------------------------------------------------------------
(* Dispatch and completion.                                                *)

\* CueOperation::dispatch of the claimed operation.
DispatchScheduled ==
  LET c == claimed
  IN  /\ claimed # None
      /\ task' = [task EXCEPT ![c] = "pending"]
      /\ \/ op' = [op EXCEPT ![c].phase = "running"]
         \/ /\ "attachment" \in Faults
            /\ op' = [op EXCEPT ![c] = [@ EXCEPT !.phase = "cancelling", !.intent = "attachment"]]
      /\ lifecycle' = [lifecycle EXCEPT ![c] = Dispatched(@)]
      /\ claimed' = None /\ owed' = None
      /\ signal' = [d \in Cues |-> signal[d] \/ d = owed]
      /\ UNCHANGED <<scene, call, cued, mailbox, cancelling, history>>

\* Actor.cued raises before it returns an awaitable, or the task cannot be created.
\* The terminal action goes straight to finish_terminal_action: no terminal hook.
DispatchFailed ==
  LET c == claimed
  IN  /\ claimed # None /\ "dispatch" \in Faults
      /\ \E result \in {"error", "cancelled"} :
           op' = [op EXCEPT ![c] = Terminated(OutcomeOf(op[c], result))]
      /\ cued' = [cued EXCEPT ![c] = FALSE]
      /\ lifecycle' = [lifecycle EXCEPT ![c] = Retired(@)]
      /\ Retire(c)
      /\ UNCHANGED <<call, task, cancelling, history>>

\* The task returns or raises; its ScopeDriver closes the CuedScope on the way out.
TaskEnds(c) ==
  /\ Idle
  /\ task[c] = "pending"
  /\ \E result \in Results : task' = [task EXCEPT ![c] = result]
  /\ cued' = [cued EXCEPT ![c] = FALSE]
  /\ UNCHANGED <<scene, call, op, signal, mailbox, lifecycle, cancelling, claimed, owed, history>>

\* CueDoneCallback, or the polling CueSetupFallbackCallback when the callback could
\* not be attached: CueOperation::finish_with_result.
FinishFromTask(c) ==
  LET outcome == OutcomeOf(op[c], task[c])
  IN  /\ Idle
      /\ task[c] \in TaskResults
      /\ op[c].phase \in {"running", "cancelling"}
      /\ op' = [op EXCEPT ![c] = Terminated(outcome)]
      /\ lifecycle' = [lifecycle EXCEPT ![c] = RetiredOrRemoved(Terminal(@, outcome), c)]
      /\ Retire(c)
      /\ UNCHANGED <<call, task, cued, cancelling, history>>

\* The last handle and the last call that held the ActorCapability are gone; its
\* mailbox goes with it, the operations stay registered in their Scenes.
DropActor(a) ==
  /\ Settled
  /\ "actor_dropped" \in Faults
  /\ mailbox[a].alive
  /\ \A c \in Cues : Target[c] = a => call[c].phase \in {"none", "done"}
  /\ mailbox' = [mailbox EXCEPT ![a] = [queue |-> <<>>, running |-> None, alive |-> FALSE]]
  /\ UNCHANGED <<scene, call, op, task, cued, signal, lifecycle, cancelling, claimed, owed,
                 history>>
-----------------------------------------------------------------------------
(* The caller's side: CueCall as the awaiting task drives it.               *)

\* Variant: the recorded cancellation of the caller is not consulted.
ResultUncancelled(o, cancellation) ==
  IF o.outcome = "cancelled" THEN "operation_cancelled" ELSE o.outcome

\* CueOperation::result_for_caller.
ResultFor(o, cancellation) ==
  CASE o.outcome = "cancelled" ->
         IF cancellation THEN "caller_cancelled" ELSE "operation_cancelled"
    [] OTHER -> o.outcome

\* CueCall::finish; the recorded cancellation is kept here as history.
Finished(k, cancellation, result) ==
  [k EXCEPT !.phase = "done", !.cancellation = cancellation, !.result = result]

Suspended(c) == call[c].phase \in {"waiting", "cancelling"}

\* CueCall::send after the signal woke the shielded waiter: finish_from_operation.
CallerResumes(c) ==
  LET k == call[c]
  IN  /\ Idle
      /\ Suspended(c) /\ signal[c]
      /\ call' = [call EXCEPT ![c] = Finished(@, k.cancellation,
                                              ResultFor(op[c], k.cancellation))]
      /\ lifecycle' = [lifecycle EXCEPT ![c] = CallerFinished(@)]
      /\ UNCHANGED <<scene, op, task, cued, signal, mailbox, cancelling, claimed, owed, history>>

\* CueCall::throw with a CancelledError.  In "waiting", request_cancel decides: an
\* operation that was already terminal answers with its own result and the
\* cancellation is not recorded; one that ends now answers with the cancellation;
\* otherwise the call waits behind a new shield.
CallerCancels(c) ==
  LET k == call[c]
      o == op[c]
  IN  /\ Idle
      /\ "caller_cancels" \in Faults
      /\ UNCHANGED <<task, cancelling, history>>
      /\ \/ /\ k.phase = "created"
            /\ call' = [call EXCEPT ![c] = Finished(@, FALSE, "caller_cancelled")]
            /\ UNCHANGED <<scene, op, cued, signal, mailbox, lifecycle, claimed, owed>>
         \/ /\ k.phase = "waiting"
            /\ RequestCancel(c)
            /\ call' = [call EXCEPT ![c] =
                 CASE o.phase = "terminal" -> Finished(@, FALSE, ResultFor(o, FALSE))
                   [] o.phase = "queued" -> Finished(@, TRUE, ResultFor(op'[c], TRUE))
                   [] OTHER -> [@ EXCEPT !.phase = "cancelling", !.cancellation = TRUE]]
            /\ lifecycle' = [lifecycle EXCEPT ![c] =
                 IF o.phase \in {"terminal", "queued"}
                 THEN CallerFinished(CancelledLifecycle(c)) ELSE CancelledLifecycle(c)]
         \/ /\ k.phase = "cancelling"
            /\ signal[c]
            /\ call' = [call EXCEPT ![c] = Finished(@, TRUE, ResultFor(o, TRUE))]
            /\ lifecycle' = [lifecycle EXCEPT ![c] = CallerFinished(@)]
            /\ UNCHANGED <<scene, op, cued, signal, mailbox, claimed, owed>>

\* CueCall::throw with any other exception, or a bad first send: the call is over,
\* the operation is left alone.
CallerThrows(c) ==
  /\ Idle
  /\ "caller_throws" \in Faults
  /\ call[c].phase \in {"created", "waiting", "cancelling"}
  /\ call' = [call EXCEPT ![c] = Finished(@, call[c].cancellation, "abandoned")]
  /\ lifecycle' = [lifecycle EXCEPT ![c] = CallerFinished(@)]
  /\ UNCHANGED <<scene, op, task, cued, signal, mailbox, cancelling, claimed, owed, history>>

\* CueCall::close and __clear__, which a finalizer may run inside an admission.
CallerCloses(c) ==
  /\ Settled
  /\ "caller_closes" \in Faults
  /\ call[c].phase \in {"created", "waiting", "cancelling"}
  /\ RequestCancel(c)
  /\ call' = [call EXCEPT ![c] = Finished(@, call[c].cancellation, "abandoned")]
  /\ lifecycle' = [lifecycle EXCEPT ![c] = CallerFinished(CancelledLifecycle(c))]
  /\ UNCHANGED <<task, cancelling, history>>
-----------------------------------------------------------------------------
\* Every Cue has been answered, every Scene is closed and nothing is left to run.
Finale ==
  /\ Idle
  /\ \A c \in Cues : call[c].phase \in {"none", "done"} /\ op[c].phase \in {"none", "terminal"}
  /\ \A n \in Scenes : scene[n].phase = "closed"
  /\ UNCHANGED vars

Next ==
  \/ CancelNext
  \/ DispatchScheduled
  \/ DispatchFailed
  \/ \E c \in Cues :
       \/ CreateCall(c) \/ BeginAdmission(c) \/ RefuseAdmission(c)
       \/ AbortAdmission(c) \/ CommitAdmission(c)
       \/ TaskEnds(c) \/ FinishFromTask(c)
       \/ CallerResumes(c) \/ CallerCancels(c) \/ CallerThrows(c) \/ CallerCloses(c)
  \/ \E n \in Scenes : CloseScene(n) \/ WaitClosed(n)
  \/ \E a \in Actors : DropActor(a)
  \/ Finale

Spec == Init /\ [][Next]_vars

\* The callbacks the event loop has scheduled do run, a polled wait is polled again,
\* and a task that was asked to stop ends.  A task nobody cancels may run forever.
Fairness ==
  /\ WF_vars(CancelNext)
  /\ WF_vars(DispatchScheduled \/ DispatchFailed)
  /\ \A c \in Cues :
       /\ WF_vars(AbortAdmission(c) \/ CommitAdmission(c))
       /\ WF_vars(op[c].phase = "cancelling" /\ TaskEnds(c))
       /\ WF_vars(FinishFromTask(c))
       /\ WF_vars(CallerResumes(c))
  /\ \A n \in Scenes : WF_vars(WaitClosed(n))

FairSpec == Spec /\ Fairness
-----------------------------------------------------------------------------
Live(c) == op[c].phase \in {"queued", "running", "cancelling"}

\* An Actor runs one Cue at a time: two tasks of the same Actor are never pending
\* together, also when a caller cancels, a Scene closes or a dispatch fails while the
\* slot is handed over (Mailbox::claim_next_if_idle, complete_running).
OneCueAtATime ==
  \A c, d \in Cues :
    Target[c] = Target[d] /\ task[c] = "pending" /\ task[d] = "pending" => c = d

\* Cues start in the order they entered the mailbox: while a Cue is queued, nothing
\* that arrived after it has been started (VecDeque push_back and pop_front).
StartedInOrder ==
  \A c, d \in Cues :
    /\ Target[c] = Target[d] /\ 0 < ticket[c] /\ ticket[c] < ticket[d]
    /\ task[d] # "none"
    => op[c].phase # "queued"

\* An Actor is sequential: one Cue at a time, in the order of arrival.
ActorsAreSequential == OneCueAtATime /\ StartedInOrder

\* A Scene that is closed has drained: none of its Cues is live or has a task that
\* still runs, and no admission is in flight (SceneScope::close, operation_finished,
\* rollback_admission, wait_closed).
ClosedSceneIsDrained ==
  \A c \in Cues :
    scene[Home[c]].phase = "closed"
    => ~Live(c) /\ task[c] # "pending" /\ call[c].phase # "admitting" /\ ~cued[c]

\* The caller is woken last: when its signal is resolved the operation is terminal,
\* out of the mailbox and out of the Scene, and its CuedScope is inactive
\* (complete_terminal_action before resolve_terminal_signal).
SignalledLast ==
  \A c \in Cues :
    signal[c] => /\ op[c].phase = "terminal" /\ task[c] # "pending" /\ ~cued[c]
                 /\ c \notin scene[Home[c]].operations
                 /\ mailbox[Target[c]].running # c /\ ~Queued(mailbox[Target[c]], c)

\* A call whose cancellation was recorded never returns a result as if nothing had
\* happened, and a call that was never cancelled is told of a cancellation only as
\* the operation's own (CueCall::throw, result_for_caller).
CancellationIsAnswered ==
  \A c \in Cues :
    /\ call[c].cancellation => call[c].result # "success" /\ call[c].result # "operation_cancelled"
    /\ call[c].result = "success" => task[c] = "valid" /\ op[c].outcome = "success"

\* An admission in flight is the one its Scene waits for, so commit never finds a
\* foreign token ("admission token must remain unique until commit").
AdmissionHoldsItsToken ==
  \A c \in Cues :
    call[c].phase = "admitting"
    => /\ scene[Home[c]].phase \in {"admitting", "close_pending"}
       /\ scene[Home[c]].token = call[c].token

\* The lifecycle producer agrees with the operation at every hook: it latches a state
\* failure only for a Cue whose dispatch failed.
LifecycleFollowsOperation ==
  \A c \in Cues :
    lifecycle[c].failed => op[c].phase = "terminal" /\ task[c] = "none"

\* What the caller and the lifecycle producer are told is what happened to the
\* operation: no success after a cancellation, no success without one of the task, no
\* hook out of order but after a failed dispatch.
ReportsFollowOperation == TypeInv /\ CancellationIsAnswered /\ LifecycleFollowsOperation

\* What is settled stays settled: a terminal outcome, a resolved signal, a finished
\* call and a closed Scene never change again, and a closed or closing Scene takes
\* no new operation.
SettledForGood ==
  [][/\ \A c \in Cues :
          /\ op[c].phase = "terminal" => op'[c] = op[c]
          /\ signal[c] => signal'[c]
          /\ call[c].phase = "done" => call'[c] = call[c]
     /\ \A n \in Scenes :
          /\ scene[n].phase = "closed" => scene'[n] = scene[n]
          /\ scene[n].phase = "closing"
             => scene'[n].operations \subseteq scene[n].operations]_vars

\* The operation a mailbox handed out still holds the slot and is about to start, and
\* no cancellation loop is under way (claim_next_if_idle, terminal_transition).
ClaimHoldsSlot ==
  claimed # None => /\ op[claimed].phase = "queued"
                    /\ mailbox[Target[claimed]].running = claimed
                    /\ cancelling = {}

\* A mailbox holds operations of its Actor only, in the order of arrival: the running
\* one has started or is claimed, the others wait behind it.
MailboxesAreOrdered ==
  \A a \in Actors :
    /\ mailbox[a].running = None => mailbox[a].queue = <<>>
    /\ mailbox[a].running # None =>
         /\ mailbox[a].alive
         /\ Target[mailbox[a].running] = a
         /\ op[mailbox[a].running].phase \in {"running", "cancelling"} \/ mailbox[a].running = claimed
    /\ \A i \in 1..Len(mailbox[a].queue) :
         /\ Target[mailbox[a].queue[i]] = a
         /\ op[mailbox[a].queue[i]].phase = "queued"
         /\ ticket[mailbox[a].running] < ticket[mailbox[a].queue[i]]
         /\ \A j \in 1..Len(mailbox[a].queue) :
              i < j => ticket[mailbox[a].queue[i]] < ticket[mailbox[a].queue[j]]

\* Every operation is where its phase says: nowhere before its call is admitted, in
\* the queue or claimed while it waits, in the running slot from dispatch to its end.
CuesAreAccounted ==
  \A c \in Cues :
    /\ call[c].phase \notin {"none", "done"} => mailbox[Target[c]].alive
    /\ call[c].phase \in {"none", "created", "admitting"} => op[c].phase = "none"
    /\ op[c].phase \in {"none", "queued"} => task[c] = "none"
    /\ task[c] = "pending" => op[c].phase \in {"running", "cancelling"}
    /\ ticket[c] <= arrivals[Target[c]]
    /\ op[c].phase = "none" => ticket[c] = 0
    /\ mailbox[Target[c]].alive =>
         /\ op[c].phase \in {"running", "cancelling"} => mailbox[Target[c]].running = c
         /\ op[c].phase = "queued" /\ ticket[c] > 0
            => c = claimed \/ Queued(mailbox[Target[c]], c)

\* One operation per Actor is between its dispatch and its end, also after the Actor
\* is gone.
OneOperationStarted ==
  \A c, d \in Cues :
    /\ Target[c] = Target[d]
    /\ op[c].phase \in {"running", "cancelling"} /\ op[d].phase \in {"running", "cancelling"}
    => c = d

\* The mailbox, the operations and the callers agree on who holds the slot of an Actor:
\* the inductive invariant behind OneCueAtATime and StartedInOrder.
SlotInv == /\ ClaimHoldsSlot /\ MailboxesAreOrdered /\ CuesAreAccounted
           /\ OneOperationStarted /\ StartedInOrder

\* A Scene has registered exactly its live operations, one admission is in flight at a
\* time, and a signal is owed or resolved for terminal operations only: the inductive
\* invariant behind ClosedSceneIsDrained, SignalledLast and AdmissionHoldsItsToken.
ScopeInv ==
  /\ \A n \in Scenes : scene[n].phase = "closed" => scene[n].operations = {}
  /\ \A c, d \in Cues :
       call[c].phase = "admitting" /\ call[d].phase = "admitting" => c = d
  /\ \A c \in Cues :
       /\ c \in scene[Home[c]].operations <=> Live(c)
       /\ cued[c] => Live(c) /\ task[c] \in {"none", "pending"}
       /\ signal[c] \/ owed = c => op[c].phase = "terminal"
  /\ AdmissionHoldsItsToken

\* A Scene whose driver exited is eventually closed, provided that cancelled tasks end.
ScenesDrain == \A n \in Scenes : ~scene[n].driven ~> scene[n].phase = "closed"

\* A caller that cancelled is eventually answered, and so is every caller suspended
\* in a Scene that closes.
CallersAreAnswered ==
  \A c \in Cues :
    /\ call[c].phase = "cancelling" ~> call[c].phase = "done"
    /\ (Suspended(c) /\ ~scene[Home[c]].driven) ~> call[c].phase = "done"

\* Cues come to an end, and stay there: Scenes drain, callers are answered, and nothing
\* that is settled changes again.
CuesComeToAnEnd == SettledForGood /\ ScenesDrain /\ CallersAreAnswered

\* A failure to dispatch a Cue concerns that Cue: the Run's diagnostics stay healthy.
DispatchFailureIsLocal == \A c \in Cues : ~lifecycle[c].failed
=============================================================================
