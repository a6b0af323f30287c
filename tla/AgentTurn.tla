------------------------------ MODULE AgentTurn ------------------------------
(***************************************************************************)
(* One agent session and the turns that Acts run on it: AgentSessionSlot,  *)
(* AgentTurnControl and run_agent_turn_worker (crate troupe-agent-runtime, *)
(* session/), the result slot that the agent fills through the MCP route   *)
(* (result/), and the ActCall that awaits the turn (src/act_call.rs).      *)
(*                                                                         *)
(* Threads.  "loop" is the Python loop thread (ActCall, close_inline),     *)
(* every call has the Tokio task of its run_turn, "worker" is the task of  *)
(* open_agent_session, which polls the turn worker, and "close" is the     *)
(* caller of AgentSessionSlot::cancel.  A step is one critical section; a  *)
(* thread that leaves a critical section with work to do carries it in     *)
(* "todo", the calls it still makes, in the order of the code, each one a  *)
(* step of its own.                                                        *)
(***************************************************************************)
EXTENDS Naturals, Sequences, FiniteSets

CONSTANTS
  Calls,      \* the ActCalls on this session
  Requests,   \* the submit_result calls of the agent
  MaxInvalid, \* MAX_REPAIRABLE_INVALID_CALLS
  Responses,  \* the ways in which the agent may answer a prompt
  Faults,     \* what may go wrong outside the library
  None        \* no call, no outcome

Terminal == {"authLost", "uncertain", "lost", "violation"}
Outcomes == {"success", "missing", "rejected", "callback", "stopped", "broken"}
Threads == Calls \union {"loop", "worker", "close"}

ASSUME TurnAssumption ==
  /\ None \notin Calls /\ None \notin Requests /\ None \notin Outcomes
  /\ Calls \intersect {"loop", "worker", "close"} = {}
  /\ MaxInvalid \in Nat
  /\ Responses \subseteq {"end", "stop", "requestFailed", "providerFailed"} \union Terminal
  /\ Faults \subseteq {"exit", "violation", "mode", "send", "callback"}

VARIABLES
  session,  \* AgentSessionState, caller_admission, turn_registry, the tokens
  route,    \* ResultRouteEpochState: revoked, and the call whose slot is armed
  slot,     \* ResultSlot of each call
  control,  \* AgentTurnControlState of each call
  run,      \* the run_turn future of each call and its oneshot channel
  worker,   \* run_agent_turn_worker and the end of open_agent_session
  request,  \* the MCP requests, with the result lease each one acquired
  closer,   \* how far AgentSessionSlot::cancel is
  todo      \* the calls that each thread still makes

vars == <<session, route, slot, control, run, worker, request, closer, todo>>

NoTurn == [request |-> None, control |-> None, submitted |-> FALSE]

\* The session task outside of a turn.
WithoutTurn(pc) ==
  [pc |-> pc, call |-> None, reply |-> "end", handled |-> FALSE, cancelSent |-> FALSE]

Init ==
  /\ session = [phase |-> "opening", admission |-> FALSE, frozen |-> FALSE,
                registry |-> NoTurn, token |-> FALSE, fault |-> FALSE,
                ownFault |-> FALSE, cleaned |-> FALSE]
  /\ route = [revoked |-> FALSE, active |-> None]
  /\ slot = [c \in Calls |-> [state |-> "none", invalid |-> 0, failure |-> FALSE]]
  /\ control = [c \in Calls |->
       [phase |-> "preparing", admission |-> FALSE, armed |-> FALSE, lease |-> FALSE,
        response |-> FALSE, outcome |-> None, cancelled |-> FALSE, handed |-> FALSE]]
  /\ run = [c \in Calls |-> [pc |-> "created", channel |-> None, result |-> None,
                             prompted |-> FALSE, signalled |-> FALSE, finished |-> FALSE]]
  /\ worker = WithoutTurn("opening")
  /\ request = [q \in Requests |-> [pc |-> "idle", lease |-> None, answer |-> "none"]]
  /\ closer = "idle"
  /\ todo = [t \in Threads |-> <<>>]

-----------------------------------------------------------------------------
(***************************************************************************)
(* Small helpers.                                                          *)
(***************************************************************************)
Usable == {"ready", "active", "cancelling"}
Ended == {"startFailed", "broken", "closing", "closed"}

Free(t) == todo[t] = <<>>

\* The steps ops of call c, as the thread will make them.
Steps(c, ops) == [i \in 1..Len(ops) |-> <<ops[i], c>>]

\* The one-element sequence of a step that is made only if "needed".
When(needed, op) == IF needed THEN <<op>> ELSE <<>>

\* A broken session; only a usable one can become broken.
Broken(s) == IF s.phase \in Usable THEN [s EXCEPT !.phase = "broken"] ELSE s

-----------------------------------------------------------------------------
(***************************************************************************)
(* The result slot (ResultRouteEpoch, ResultSlot).                         *)
(***************************************************************************)

\* The lease of the armed result is still the active one of the route.
IsArmed(c) == route.active = c

\* result_at_settlement, for the slot that prepare_settlement takes.
ResultAt(s) ==
  CASE s.state = "awaiting" /\ s.invalid = 0 -> "missing"
    [] s.state = "awaiting" /\ s.invalid > 0 -> "invalid"
    [] s.state = "accepted" -> "accepted"
    [] s.state = "rejected" -> "rejected"
    [] s.state = "failed" -> "callback"
    [] OTHER -> "unavailable"

SettlementOf(c) ==
  IF control[c].armed /\ IsArmed(c) THEN ResultAt(slot[c]) ELSE "unavailable"

Disarmed == [state |-> "disarmed", invalid |-> 0, failure |-> FALSE]

\* prepare_settlement and disarm leave the slot disarmed and the route idle.
Disarm(c) ==
  IF IsArmed(c)
  THEN /\ slot' = [slot EXCEPT ![c] = Disarmed]
       /\ route' = [route EXCEPT !.active = None]
  ELSE UNCHANGED <<slot, route>>

Settle(c) == IF control[c].armed THEN Disarm(c) ELSE UNCHANGED <<slot, route>>

\* Variant: a failed callback does not count.
RejectionPreceded(c) ==
  ~route.revoked /\ IsArmed(c) /\ slot[c].state = "rejected"

\* A final rejection or a failed schema callback came before the cancellation.
FailurePreceded(c) ==
  ~route.revoked /\ IsArmed(c) /\ slot[c].state \in {"rejected", "failed"}

-----------------------------------------------------------------------------
(***************************************************************************)
(* AgentTurnControl: the cancellation of a turn (request_cancel).  The     *)
(* decision is taken under the session lock; what follows is done outside  *)
(* of it: "yes" or "no" is what the caller does after the decision.        *)
(***************************************************************************)

EarlyCancelled(k) ==
  [k EXCEPT !.phase = "cancelledEarly", !.admission = FALSE, !.armed = FALSE,
            !.lease = FALSE, !.response = FALSE, !.outcome = None]

\* Variants: the session is released first; the caller learns of its
\* cancellation last.
EarlyCancelStepsReleasingFirst(k) ==
  When(k.admission, "dropAdmission") \o When(k.lease, "release") \o <<"clear">>
    \o When(k.armed, "disarm") \o <<"cancel">> \o When(k.response, "dropResponse")

EarlyCancelStepsTellingLast(k) ==
  When(k.admission, "dropAdmission") \o <<"clear">> \o When(k.armed, "disarm")
    \o When(k.lease, "release") \o When(k.response, "dropResponse") \o <<"cancel">>

EarlyCancelSteps(k) ==
  When(k.admission, "dropAdmission") \o <<"clear">> \o When(k.armed, "disarm")
    \o When(k.lease, "release") \o <<"cancel">> \o When(k.response, "dropResponse")

CancelBeforeSubmission(t, c, yes) ==
  LET k == control[c]
  IN  /\ k.phase \in {"preparing", "armed"} /\ session.phase # "broken"
      /\ control' = [control EXCEPT ![c] = EarlyCancelled(k)]
      /\ todo' = [todo EXCEPT ![t] = Steps(c, EarlyCancelSteps(k)) \o yes]
      /\ UNCHANGED slot

CancelSubmittedSteps(k) ==
  <<"markCancelling">> \o When(k.admission, "dropAdmission") \o <<"cancel">>
    \o When(k.response, "dropResponse") \o <<"supervise">>

MayCancelSubmitted(c) ==
  control[c].phase = "submitted" /\ session.phase # "broken" /\ ~FailurePreceded(c)

OwnedCancelled(k) ==
  [k EXCEPT !.phase = "ownedCancelled", !.admission = FALSE, !.response = FALSE,
            !.outcome = None]

CancelSubmitted(t, c, yes) ==
  LET k == control[c]
  IN  /\ MayCancelSubmitted(c)
      /\ control' = [control EXCEPT ![c] = OwnedCancelled(k)]
      /\ slot' = IF ~route.revoked /\ IsArmed(c)
                 THEN [slot EXCEPT ![c].state = "settling"] ELSE slot
      /\ todo' = [todo EXCEPT ![t] = Steps(c, CancelSubmittedSteps(k)) \o yes]

CancelAgain(t, c, yes) ==
  /\ control[c].phase \in {"cancelledEarly", "ownedCancelled"}
  /\ todo' = [todo EXCEPT ![t] = Steps(c, <<"cancel">>) \o yes]
  /\ UNCHANGED <<control, slot>>

CancelRefused(t, c, no) ==
  /\ \/ control[c].phase \in {"ownedFailed", "committed", "settled"}
     \/ control[c].phase = "submitted" /\ FailurePreceded(c)
     \/ control[c].phase \in {"preparing", "armed", "submitted"} /\ session.phase = "broken"
  /\ todo' = [todo EXCEPT ![t] = no]
  /\ UNCHANGED <<control, slot>>

RequestCancel(t, c, yes, no) ==
  /\ \/ CancelBeforeSubmission(t, c, yes)
     \/ CancelSubmitted(t, c, yes)
     \/ CancelAgain(t, c, yes)
     \/ CancelRefused(t, c, no)
  /\ UNCHANGED <<session, route, run, worker, request, closer>>

-----------------------------------------------------------------------------
(***************************************************************************)
(* The delivery of a session failure to the turn it ends:                  *)
(* prepare_terminal_delivery under the locks, finish_terminal_delivery as  *)
(* the steps after it.                                                     *)
(***************************************************************************)
DeliverToCaller(t, c, more) ==
  LET k == control[c]
      local == IF k.phase = "submitted" THEN SettlementOf(c) ELSE "unavailable"
  IN  /\ k.phase \in {"armed", "submitted"}
      /\ control' = [control EXCEPT ![c] =
           [k EXCEPT !.phase = "committed", !.armed = FALSE, !.lease = FALSE,
                     !.outcome = IF local \in {"rejected", "callback"} THEN local ELSE "broken"]]
      /\ Settle(c)
      /\ todo' = [todo EXCEPT ![t] =
           Steps(c, <<"clear">> \o When(k.lease, "release") \o <<"publish">>) \o more]

DeliverToSupervisor(t, c, more) ==
  LET k == control[c]
      publish == k.phase = "ownedFailed" /\ k.response /\ k.outcome # None
  IN  /\ k.phase \in {"ownedCancelled", "ownedFailed"}
      /\ control' = [control EXCEPT ![c] =
           [k EXCEPT !.phase = IF publish THEN "committed" ELSE "settled",
                     !.armed = FALSE, !.lease = FALSE,
                     !.response = publish, !.outcome = IF publish THEN @ ELSE None]]
      /\ Settle(c)
      /\ todo' = [todo EXCEPT ![t] =
           Steps(c, <<"clear">> \o When(k.lease, "release") \o When(publish, "publish")) \o more]

DeliverNothing(t, c, more) ==
  /\ control[c].phase \in {"preparing", "cancelledEarly", "settled", "committed"}
  /\ todo' = [todo EXCEPT ![t] =
       Steps(c, <<"clear">> \o When(control[c].phase = "committed", "publish")) \o more]
  /\ UNCHANGED <<control, slot, route>>

Deliver(t, c, more) ==
  \/ DeliverToCaller(t, c, more)
  \/ DeliverToSupervisor(t, c, more)
  \/ DeliverNothing(t, c, more)

\* freeze_turn_registry: the turn that the registry held, and the frozen registry.
Frozen(s) == [s EXCEPT !.frozen = TRUE, !.registry = NoTurn]

\* Variant: only a turn that still waits in the queue is found.
DeliverToQueued(t, more) ==
  IF session.registry.request # None
  THEN Deliver(t, session.registry.request, more)
  ELSE todo' = [todo EXCEPT ![t] = more] /\ UNCHANGED <<control, slot, route>>

DeliverToRegistered(t, more) ==
  IF session.registry.control # None
  THEN Deliver(t, session.registry.control, more)
  ELSE todo' = [todo EXCEPT ![t] = more] /\ UNCHANGED <<control, slot, route>>

\* commit_terminal_failure, with "more" for what the thread does after it.
CommitTerminalFailure(t, more) ==
  \/ /\ session.phase = "opening"
     /\ session' = [session EXCEPT !.phase = "startFailed"]
     /\ todo' = [todo EXCEPT ![t] = more]
     /\ UNCHANGED <<control, slot, route>>
  \/ /\ session.phase \in Usable \union {"broken"}
     /\ session' = Broken(Frozen(session))
     /\ DeliverToRegistered(t, <<<<"fault", None>>>> \o more)
  \/ /\ session.phase \in Ended \ {"broken"}
     /\ todo' = [todo EXCEPT ![t] = more]
     /\ UNCHANGED <<session, control, slot, route>>

\* fail_terminal of the turn of c: the session breaks, the registry stays open.
FailTerminal(t, c, ownFault) ==
  /\ session' = [Broken(session) EXCEPT !.ownFault = @ \/ ownFault]
  /\ Deliver(t, c, <<>>)

-----------------------------------------------------------------------------
(***************************************************************************)
(* The steps that a thread makes after a critical section.                 *)
(***************************************************************************)
Pop(t) == todo' = [todo EXCEPT ![t] = Tail(@)]

DoMarkCancelling(t, c) ==
  /\ session' = IF session.phase = "active"
                THEN [session EXCEPT !.phase = "cancelling"] ELSE session
  /\ Pop(t)
  /\ UNCHANGED <<route, slot, control, run>>

DoDropAdmission(t, c) ==
  /\ session' = [session EXCEPT !.admission = FALSE]
  /\ Pop(t)
  /\ UNCHANGED <<route, slot, control, run>>

DoClear(t, c) ==
  /\ session' = IF session.registry.control = c
                THEN [session EXCEPT !.registry = NoTurn] ELSE session
  /\ Pop(t)
  /\ UNCHANGED <<route, slot, control, run>>

DoDisarm(t, c) == Disarm(c) /\ Pop(t) /\ UNCHANGED <<session, control, run>>

\* SessionTurnLease::release_inner: an agent that left its mode changed has
\* violated the protocol.
DoRelease(t, c) ==
  \/ /\ session' = IF session.phase \in {"active", "cancelling"}
                   THEN [session EXCEPT !.phase = "ready"] ELSE session
     /\ Pop(t)
     /\ UNCHANGED <<route, slot, control, run>>
  \/ /\ "mode" \in Faults
     /\ CommitTerminalFailure(t, Tail(todo[t]))
     /\ UNCHANGED run

DoCancel(t, c) ==
  /\ control' = [control EXCEPT ![c].cancelled = TRUE]
  /\ Pop(t)
  /\ UNCHANGED <<session, route, slot, run>>

DoDropResponse(t, c) ==
  /\ run' = [run EXCEPT ![c].channel = "dropped"]
  /\ Pop(t)
  /\ UNCHANGED <<session, route, slot, control>>

DoSupervise(t, c) ==
  /\ control' = [control EXCEPT ![c].handed = TRUE]
  /\ Pop(t)
  /\ UNCHANGED <<session, route, slot, run>>

\* publish_caller_outcome
DoPublish(t, c) ==
  /\ IF control[c].response /\ control[c].outcome # None
     THEN /\ run' = [run EXCEPT ![c].channel = control[c].outcome]
          /\ control' = [control EXCEPT ![c].response = FALSE, ![c].outcome = None]
     ELSE UNCHANGED <<run, control>>
  /\ Pop(t)
  /\ UNCHANGED <<session, route, slot>>

DoFault(t, c) ==
  /\ session' = [session EXCEPT !.fault = TRUE]
  /\ Pop(t)
  /\ UNCHANGED <<route, slot, control, run>>

\* ActCall::cancel_signal: the run_turn future will be dropped.
DoSignal(t, c) ==
  /\ run' = [run EXCEPT ![c].signalled = TRUE]
  /\ Pop(t)
  /\ UNCHANGED <<session, route, slot, control>>

\* AgentTurnControl::finish_caller, the last thing that ActCall::finish does.
DoFinishCaller(t, c) ==
  /\ control' = [control EXCEPT ![c].admission = FALSE,
                                ![c].phase = IF @ = "committed" THEN "settled" ELSE @]
  /\ session' = IF control[c].admission THEN [session EXCEPT !.admission = FALSE] ELSE session
  /\ run' = [run EXCEPT ![c].finished = TRUE]
  /\ Pop(t)
  /\ UNCHANGED <<route, slot>>

Continue(t) ==
  /\ ~Free(t)
  /\ LET op == Head(todo[t])[1]
         c  == Head(todo[t])[2]
     IN  \/ op = "markCancelling" /\ DoMarkCancelling(t, c)
         \/ op = "dropAdmission" /\ DoDropAdmission(t, c)
         \/ op = "clear" /\ DoClear(t, c)
         \/ op = "disarm" /\ DoDisarm(t, c)
         \/ op = "release" /\ DoRelease(t, c)
         \/ op = "cancel" /\ DoCancel(t, c)
         \/ op = "dropResponse" /\ DoDropResponse(t, c)
         \/ op = "supervise" /\ DoSupervise(t, c)
         \/ op = "publish" /\ DoPublish(t, c)
         \/ op = "fault" /\ DoFault(t, c)
         \/ op = "signal" /\ DoSignal(t, c)
         \/ op = "finishCaller" /\ DoFinishCaller(t, c)
  /\ UNCHANGED <<worker, request, closer>>

-----------------------------------------------------------------------------
(***************************************************************************)
(* The loop thread: ActCall (send, throw, close, finish) and the scope of  *)
(* the Cue that issued the Act.                                            *)
(***************************************************************************)
Started(c) == run[c].pc # "created" /\ ~run[c].finished

\* start_driver: the claim of the session's one admission may find it taken
\* ("busy"), and what follows the claim may fail ("refused").
StartAct(c) ==
  /\ Free("loop") /\ run[c].pc = "created"
  /\ \/ /\ session.admission
        /\ run' = [run EXCEPT ![c].pc = "done", ![c].result = "busy"]
        /\ UNCHANGED <<session, control>>
     \/ /\ ~session.admission
        /\ session' = [session EXCEPT !.admission = TRUE]
        /\ control' = [control EXCEPT ![c].admission = TRUE]
        /\ \/ run' = [run EXCEPT ![c].pc = "claiming"]
           \/ run' = [run EXCEPT ![c].pc = "done", ![c].result = "refused"]
  /\ UNCHANGED <<route, slot, worker, request, closer, todo>>

\* throw(CancelledError): a refused cancellation waits for the outcome.
ThrowCancelled(c) ==
  /\ Free("loop") /\ Started(c) /\ ~run[c].signalled
  /\ RequestCancel("loop", c, Steps(c, <<"signal", "finish">>), <<>>)

CloseAct(c) ==
  /\ Free("loop") /\ Started(c) /\ ~run[c].signalled
  /\ RequestCancel("loop", c, Steps(c, <<"signal", "finish">>), Steps(c, <<"signal", "finish">>))

\* CuedScope::close_inline cancels the turns of the scope and leaves the ActCalls.
CloseScope(c) ==
  /\ Free("loop") /\ Started(c) /\ ~run[c].signalled
  /\ RequestCancel("loop", c, <<>>, <<>>)

\* drive: the future is done, so the await returns or raises.
ReturnAct(c) ==
  /\ Free("loop") /\ run[c].pc = "done" /\ Free(c) /\ Started(c) /\ ~run[c].signalled
  /\ todo' = [todo EXCEPT !["loop"] = Steps(c, <<"finish">>)]
  /\ UNCHANGED <<session, route, slot, control, run, worker, request, closer>>

\* ActCall::finish asks for the cancellation once more before finish_caller.
FinishAct(c) ==
  /\ todo["loop"] = <<<<"finish", c>>>>
  /\ RequestCancel("loop", c, Steps(c, <<"finishCaller">>), Steps(c, <<"finishCaller">>))

LoopStep ==
  \E c \in Calls :
    \/ StartAct(c) \/ ThrowCancelled(c) \/ CloseAct(c) \/ CloseScope(c)
    \/ ReturnAct(c) \/ FinishAct(c)

-----------------------------------------------------------------------------
(***************************************************************************)
(* AgentSessionSlot::run_turn, a task of its own for every call.           *)
(***************************************************************************)
Done(c, result) == run' = [run EXCEPT ![c].pc = "done", ![c].result = result]

\* claim_session_turn
ClaimTurn(c) ==
  /\ run[c].pc = "claiming"
  /\ \/ /\ session.phase = "ready"
        /\ session' = [session EXCEPT !.phase = "active"]
        /\ run' = [run EXCEPT ![c].pc = "claimed"]
     \/ /\ session.phase \in Ended
        /\ Done(c, "unavailable")
        /\ UNCHANGED session
  /\ UNCHANGED <<route, slot, control, worker, request, closer, todo>>

\* The caller_cancellation arms of the two selects; the second one is biased
\* towards the outcome.
RunCancelled(c) ==
  /\ control[c].cancelled
  /\ \/ run[c].pc = "claiming"
     \/ run[c].pc = "awaiting" /\ run[c].channel \notin Outcomes
  /\ Done(c, "cancelled")
  /\ UNCHANGED <<session, route, slot, control, worker, request, closer, todo>>

\* The Python future was cancelled, and the run_turn future is dropped where
\* it awaits.
RunDropped(c) ==
  /\ run[c].signalled /\ run[c].pc \in {"claiming", "awaiting"}
  /\ Done(c, "abandoned")
  /\ UNCHANGED <<session, route, slot, control, worker, request, closer, todo>>

\* arm_result_with_diagnostics
ArmResult(c) ==
  /\ run[c].pc = "claimed"
  /\ IF route.revoked \/ route.active # None
     THEN /\ run' = [run EXCEPT ![c].pc = "armFailed"]
          /\ UNCHANGED <<route, slot>>
     ELSE /\ run' = [run EXCEPT ![c].pc = "armed"]
          /\ route' = [route EXCEPT !.active = c]
          /\ slot' = [slot EXCEPT ![c].state = "awaiting"]
  /\ UNCHANGED <<session, control, worker, request, closer, todo>>

\* mark_broken(result_channel_lost): the library's own doing unless the route
\* was revoked.
ArmFailed(c) ==
  /\ run[c].pc = "armFailed"
  /\ session' = IF session.phase \in Usable
                THEN [session EXCEPT !.phase = "broken", !.fault = TRUE,
                                     !.ownFault = @ \/ ~route.revoked]
                ELSE session
  /\ Done(c, "broken")
  /\ UNCHANGED <<route, slot, control, worker, request, closer, todo>>

InstallArmed(c) ==
  /\ run[c].pc = "armed"
  /\ IF control[c].phase = "preparing"
     THEN /\ control' = [control EXCEPT ![c].phase = "armed", ![c].armed = TRUE,
                                        ![c].lease = TRUE, ![c].response = TRUE]
          /\ run' = [run EXCEPT ![c].pc = "installed"]
          /\ UNCHANGED todo
     ELSE /\ todo' = [todo EXCEPT ![c] = Steps(c, <<"disarm", "release">>)]
          /\ Done(c, "cancelled")
          /\ UNCHANGED control
  /\ UNCHANGED <<session, route, slot, worker, request, closer>>

\* queue_turn: the registry is open and has no turn.
CanQueue == ~session.frozen /\ session.registry = NoTurn

\* queue_if_armed and queue_turn, with fail_terminal if the registry refuses.
QueueTurn(c) ==
  /\ run[c].pc = "installed"
  /\ \/ /\ control[c].phase # "armed"
        /\ Done(c, "cancelled")
        /\ UNCHANGED <<session, route, slot, control, todo>>
     \/ /\ control[c].phase = "armed" /\ CanQueue
        /\ session' = [session EXCEPT !.registry.request = c, !.registry.control = c]
        /\ run' = [run EXCEPT ![c].pc = "awaiting"]
        /\ UNCHANGED <<route, slot, control, todo>>
     \/ /\ control[c].phase = "armed" /\ ~CanQueue
        /\ FailTerminal(c, c, ~session.frozen)
        /\ Done(c, "broken")
  /\ UNCHANGED <<worker, request, closer>>

\* The outcome arrives, or its sender is gone; a sender that is gone although
\* the caller did not cancel breaks the session (mark_broken).
ReceiveOutcome(c) ==
  /\ run[c].pc = "awaiting" /\ run[c].channel # None
  /\ IF run[c].channel = "dropped"
     THEN /\ Done(c, IF control[c].cancelled THEN "cancelled" ELSE "broken")
          /\ session' = IF control[c].cancelled \/ session.phase \notin Usable THEN session
                        ELSE [session EXCEPT !.phase = "broken", !.fault = TRUE,
                                             !.ownFault = TRUE]
     ELSE /\ Done(c, run[c].channel)
          /\ UNCHANGED session
  /\ UNCHANGED <<route, slot, control, worker, request, closer, todo>>

RunStep(c) ==
  /\ Free(c)
  /\ \/ ClaimTurn(c) \/ RunCancelled(c) \/ RunDropped(c) \/ ArmResult(c) \/ ArmFailed(c)
     \/ InstallArmed(c) \/ QueueTurn(c) \/ ReceiveOutcome(c)

-----------------------------------------------------------------------------
(***************************************************************************)
(* The session task: the opening, the turn worker, and the end of          *)
(* open_agent_session.  Everything in it runs in one task, so an event of  *)
(* the connection is handled only where the worker awaits.                 *)
(***************************************************************************)
Awaiting == {"idle", "prompting", "responded"}

\* commit_ready, commit_failure, or the cancellation of the opening.
OpenSession ==
  /\ worker.pc = "opening"
  /\ \/ /\ session.phase = "opening"
        /\ \/ /\ session' = [session EXCEPT !.phase = "ready"]
              /\ worker' = WithoutTurn("idle")
           \/ /\ "exit" \in Faults
              /\ session' = [session EXCEPT !.phase = "startFailed"]
              /\ worker' = WithoutTurn("revoking")
     \/ /\ session.token
        /\ worker' = WithoutTurn("revoking")
        /\ UNCHANGED session
  /\ UNCHANGED <<route, slot, control, run, request, closer, todo>>

\* next_turn
TakeTurn ==
  /\ worker.pc = "idle"
  /\ \/ /\ ~session.frozen /\ session.registry.request # None
        /\ worker' = [worker EXCEPT !.pc = "taken", !.call = session.registry.request]
        /\ session' = [session EXCEPT !.registry.request = None]
     \/ /\ session.frozen \/ session.token \/ session.fault
        /\ worker' = WithoutTurn("stopping")
        /\ UNCHANGED session
  /\ UNCHANGED <<route, slot, control, run, request, closer, todo>>

\* mark_submitted; a turn that was cancelled meanwhile is cleared.
MarkSubmitted ==
  LET c == worker.call
  IN  /\ worker.pc = "taken"
      /\ IF control[c].phase = "armed"
         THEN /\ control' = [control EXCEPT ![c].phase = "submitted"]
              /\ worker' = [worker EXCEPT !.pc = "submitted"]
              /\ UNCHANGED todo
         ELSE /\ todo' = [todo EXCEPT !["worker"] = Steps(c, <<"clear">>)]
              /\ worker' = WithoutTurn("idle")
              /\ UNCHANGED control
      /\ UNCHANGED <<session, route, slot, run, request, closer>>

\* register_submitted_turn, with fail_supervisor if the registry refuses, and
\* the prompt that follows it ("prompted" is a history of it).
RegisterSubmitted ==
  LET c == worker.call
  IN  /\ worker.pc = "submitted"
      /\ IF session.registry = [NoTurn EXCEPT !.control = c]
         THEN /\ session' = [session EXCEPT !.registry.submitted = TRUE]
              /\ worker' = [worker EXCEPT !.pc = "prompting"]
              /\ run' = [run EXCEPT ![c].prompted = TRUE]
              /\ UNCHANGED <<route, slot, control, todo>>
         ELSE /\ FailTerminal("worker", c, ~session.frozen)
              /\ worker' = WithoutTurn("stopping")
              /\ UNCHANGED run
      /\ UNCHANGED <<request, closer>>

ReceiveResponse ==
  /\ worker.pc = "prompting"
  /\ \E reply \in Responses : worker' = [worker EXCEPT !.pc = "responded", !.reply = reply]
  /\ UNCHANGED <<session, route, slot, control, run, request, closer, todo>>

\* begin_result_failure_handoff, once the failure token of the slot is set.
ResultFailureHandoff ==
  LET c == worker.call
      k == control[c]
      taken == session.phase # "broken" /\ k.phase = "submitted" /\ FailurePreceded(c)
  IN  /\ worker.pc = "prompting" /\ slot[c].failure /\ ~worker.handled
      /\ worker' = [worker EXCEPT !.handled = TRUE]
      /\ IF taken
         THEN /\ control' = [control EXCEPT ![c] =
                   [k EXCEPT !.phase = "ownedFailed", !.admission = FALSE,
                             !.outcome = ResultAt(slot[c])]]
              /\ slot' = [slot EXCEPT ![c].state = "settling"]
              /\ todo' = [todo EXCEPT !["worker"] = Steps(c, <<"markCancelling">>
                   \o When(k.admission, "dropAdmission") \o <<"supervise", "publish">>)]
         ELSE UNCHANGED <<control, slot, todo>>
      /\ UNCHANGED <<session, route, run, request, closer>>

\* The worker tells the agent to cancel the prompt; the connection may be gone.
SendCancel ==
  LET c == worker.call
  IN  /\ worker.pc = "prompting" /\ control[c].handed /\ ~worker.cancelSent
      /\ \/ /\ worker' = [worker EXCEPT !.cancelSent = TRUE]
            /\ UNCHANGED <<session, route, slot, control, todo>>
         \/ /\ "send" \in Faults
            /\ FailTerminal("worker", c, FALSE)
            /\ worker' = WithoutTurn("stopping")
      /\ UNCHANGED <<run, request, closer>>

\* outcome_from_settlement, outcome_from_authoritative_request_error,
\* outcome_from_provider_failure and outcome_from_terminal_failure.
OutcomeFor(reply, result) ==
  CASE result = "rejected" -> "rejected"
    [] result = "callback" -> "callback"
    [] result = "invalid" -> IF reply \in Terminal THEN "broken" ELSE "rejected"
    [] result \in {"accepted", "missing", "unavailable"} ->
         CASE reply = "stop" -> "stopped"
           [] reply \in Terminal -> "broken"
           [] reply = "end" -> [accepted |-> "success", missing |-> "missing",
                                unavailable |-> "broken"][result]
           [] reply = "requestFailed" -> IF result = "unavailable" THEN "broken" ELSE "stopped"
           [] reply = "providerFailed" -> IF result = "accepted" THEN "broken" ELSE "stopped"

\* complete_response.  A supervisor-owned turn has no caller left, and the
\* adapter may find its response uncertain.
CompleteResponse ==
  LET c == worker.call
      k == control[c]
      owned == k.phase \in {"ownedCancelled", "ownedFailed"}
      outcome == OutcomeFor(worker.reply, SettlementOf(c))
      fails(uncertain, restored) ==
        \/ worker.reply \in Terminal \/ ~restored
        \/ IF owned THEN uncertain ELSE outcome = "broken"
      told(broken) == IF broken /\ outcome \notin {"rejected", "callback"}
                      THEN "broken" ELSE outcome
  IN  /\ worker.pc = "responded"
      /\ \/ /\ k.phase \in {"committed", "settled"}
            /\ worker' = WithoutTurn("stopping")
            /\ todo' = [todo EXCEPT !["worker"] = Steps(c, <<"publish", "publish">>)]
            /\ UNCHANGED <<session, route, slot, control>>
         \/ /\ k.phase \notin {"committed", "settled"}
            /\ \E uncertain \in IF worker.reply \in {"end", "stop"} THEN BOOLEAN ELSE {FALSE},
                  restored \in IF "mode" \in Faults THEN BOOLEAN ELSE {TRUE} :
                 LET failed == fails(uncertain, restored)
                     broken == failed \/ session.phase = "broken"
                 IN  /\ session' = IF failed THEN Broken(session) ELSE session
                     /\ control' = [control EXCEPT ![c] =
                          [k EXCEPT !.phase = IF owned THEN "settled" ELSE "committed",
                                    !.armed = FALSE, !.lease = FALSE,
                                    !.outcome = IF owned THEN @ ELSE told(broken)]]
                     /\ worker' = WithoutTurn(IF broken THEN "stopping" ELSE "idle")
            /\ Settle(c)
            /\ todo' = [todo EXCEPT !["worker"] =
                 Steps(c, <<"clear">> \o When(k.lease, "release") \o <<"publish">>)]
      /\ UNCHANGED <<run, request, closer>>

\* The agent violates the protocol: a handler of the connection commits the
\* failure, and the worker meets the terminal fault where it awaits.
ProtocolViolation ==
  /\ "violation" \in Faults /\ worker.pc \in Awaiting /\ ~session.fault
  /\ CommitTerminalFailure("worker", <<>>)
  /\ UNCHANGED <<run, worker, request, closer>>

\* The end of open_agent_session: unless the session is being cancelled, the
\* loss is committed before the route goes.
EndSession ==
  /\ ~session.token
  /\ CommitTerminalFailure("worker", <<>>)
  /\ worker' = WithoutTurn("revoking")
  /\ UNCHANGED <<run, request, closer>>

WorkerReturned == worker.pc = "stopping" /\ EndSession

\* The connection, the process or the result listener ends while the worker
\* awaits; the worker is dropped there.
ConnectionLost == "exit" \in Faults /\ worker.pc \in Awaiting /\ EndSession

SessionCancelled ==
  /\ worker.pc \in Awaiting \union {"stopping"} /\ session.token
  /\ worker' = WithoutTurn("revoking")
  /\ UNCHANGED <<session, route, slot, control, run, request, closer, todo>>

\* The terminal fault ends the worker where it awaits.
WorkerStops ==
  /\ worker.pc \in {"prompting", "responded"} /\ session.fault
  /\ worker' = WithoutTurn("stopping")
  /\ UNCHANGED <<session, route, slot, control, run, request, closer, todo>>

\* revoke_route
RevokeRoute ==
  /\ worker.pc = "revoking"
  /\ worker' = [worker EXCEPT !.pc = "reaping"]
  /\ route' = [revoked |-> TRUE, active |-> None]
  /\ slot' = IF route.active = None THEN slot
             ELSE [slot EXCEPT ![route.active] = Disarmed]
  /\ UNCHANGED <<session, control, run, request, closer, todo>>

\* mark_cleanup_complete, after the process was reaped.
CleanupComplete ==
  /\ worker.pc = "reaping"
  /\ worker' = [worker EXCEPT !.pc = "ended"]
  /\ session' = [session EXCEPT !.cleaned = TRUE,
                                !.phase = IF @ = "closing" THEN "closed" ELSE @]
  /\ UNCHANGED <<route, slot, control, run, request, closer, todo>>

WorkerStep ==
  /\ Free("worker")
  /\ \/ OpenSession \/ TakeTurn \/ MarkSubmitted \/ RegisterSubmitted
     \/ ResultFailureHandoff \/ SendCancel \/ CompleteResponse
     \/ SessionCancelled \/ WorkerStops \/ WorkerReturned \/ RevokeRoute \/ CleanupComplete

\* What the agent and its process do; the library cannot make it happen.
AgentStep ==
  /\ Free("worker")
  /\ ReceiveResponse \/ ProtocolViolation \/ ConnectionLost

-----------------------------------------------------------------------------
(***************************************************************************)
(* AgentSessionSlot::cancel, called once the Production shuts down.        *)
(***************************************************************************)
CancelSession ==
  /\ closer = "idle"
  /\ closer' = "cancelling"
  /\ session' = [session EXCEPT !.token = TRUE]
  /\ UNCHANGED <<route, slot, control, run, worker, request, todo>>

\* The critical section of cancel; a session whose cleanup is complete is
\* closed at once (finish_closed_state_if_cleanup_complete).
FreezeSession ==
  /\ closer = "cancelling"
  /\ closer' = "done"
  /\ LET frozen == IF session.phase \in Usable THEN Frozen(session) ELSE session
     IN  session' = [frozen EXCEPT !.phase = IF session.cleaned THEN "closed" ELSE "closing"]
  /\ IF session.phase \in Usable
     THEN DeliverToRegistered("close", <<<<"fault", None>>>>)
     ELSE /\ todo' = [todo EXCEPT !["close"] = <<<<"fault", None>>>>]
          /\ UNCHANGED <<control, slot, route>>
  /\ UNCHANGED <<run, worker, request>>

CloseStep == Free("close") /\ (CancelSession \/ FreezeSession)

-----------------------------------------------------------------------------
(***************************************************************************)
(* The submit_result calls of the agent (ResultRequestLease).              *)
(***************************************************************************)

\* with_current_state: the lease is still that of the armed slot.
IsCurrent(q) ==
  /\ request[q].lease # None
  /\ ~route.revoked
  /\ route.active = request[q].lease

\* The answer to a submission that finds its slot not awaiting a result.
LateAnswer(q) ==
  CASE request[q].lease = None -> "noActiveSlot"
    [] IsCurrent(q) /\ slot[request[q].lease].state = "accepted" -> "alreadySubmitted"
    [] IsCurrent(q) /\ slot[request[q].lease].state = "rejected" -> "contractRejected"
    [] OTHER -> "turnUnavailable"

IsAwaited(q) == IsCurrent(q) /\ slot[request[q].lease].state = "awaiting"

Answer(q, answer) ==
  request' = [request EXCEPT ![q].pc = "done", ![q].answer = answer]

\* acquire_request
AcquireRequest(q) ==
  /\ request[q].pc = "idle"
  /\ request' = [request EXCEPT ![q].pc = "open",
                                ![q].lease = IF route.revoked THEN None ELSE route.active]
  /\ UNCHANGED slot

\* start_submission
StartSubmission(q) ==
  /\ request[q].pc = "open"
  /\ IF IsAwaited(q) THEN request' = [request EXCEPT ![q].pc = "validating"]
     ELSE Answer(q, LateAnswer(q))
  /\ UNCHANGED slot

Late(q) ==
  /\ request[q].pc = "validating" /\ ~IsAwaited(q)
  /\ Answer(q, LateAnswer(q))
  /\ UNCHANGED slot

AcceptResult(q) ==
  /\ request[q].pc = "validating" /\ IsAwaited(q)
  /\ slot' = [slot EXCEPT ![request[q].lease].state = "accepted"]
  /\ Answer(q, "accepted")

\* publish_invalid: one submission more than can be repaired ends the turn.
RejectResult(q) ==
  LET c == request[q].lease
      count == slot[c].invalid + 1
  IN  /\ request[q].pc = "validating" /\ IsAwaited(q)
      /\ IF count <= MaxInvalid
         THEN /\ slot' = [slot EXCEPT ![c].invalid = count]
              /\ Answer(q, "invalid")
         ELSE /\ slot' = [slot EXCEPT ![c].invalid = count, ![c].state = "rejected"]
              /\ request' = [request EXCEPT ![q].pc = "failing", ![q].answer = "rejected"]

\* callback_failed: the Python validator of the schema raised.
FailCallback(q) ==
  /\ "callback" \in Faults
  /\ request[q].pc = "validating" /\ IsAwaited(q)
  /\ slot' = [slot EXCEPT ![request[q].lease].state = "failed"]
  /\ request' = [request EXCEPT ![q].pc = "failing", ![q].answer = "callbackFailed"]

\* slot.failure.cancel(), after the slot was left.
SignalFailure(q) ==
  /\ request[q].pc = "failing"
  /\ slot' = [slot EXCEPT ![request[q].lease].failure = TRUE]
  /\ request' = [request EXCEPT ![q].pc = "done"]

RequestStep(q) ==
  /\ \/ AcquireRequest(q) \/ StartSubmission(q) \/ Late(q) \/ AcceptResult(q)
     \/ RejectResult(q) \/ FailCallback(q) \/ SignalFailure(q)
  /\ UNCHANGED <<session, route, control, run, worker, closer, todo>>

-----------------------------------------------------------------------------
\* Nothing is left to do: every Act has finished and the session is cleaned up.
Finished ==
  /\ closer = "done" /\ worker.pc = "ended"
  /\ \A c \in Calls : run[c].finished
  /\ \A t \in Threads : Free(t)
  /\ UNCHANGED vars

Next ==
  \/ LoopStep
  \/ \E c \in Calls : RunStep(c)
  \/ WorkerStep
  \/ AgentStep
  \/ CloseStep
  \/ \E q \in Requests : RequestStep(q)
  \/ \E t \in Threads : Continue(t)
  \/ Finished

Spec == Init /\ [][Next]_vars

\* The threads and tasks keep running; the agent and the callers need not act.
FairSpec ==
  /\ Spec
  /\ \A c \in Calls : WF_vars(RunStep(c))
  /\ \A t \in Threads : WF_vars(Continue(t))
  /\ WF_vars(WorkerStep)
  /\ WF_vars(CloseStep /\ closer # "idle")

-----------------------------------------------------------------------------
(***************************************************************************)
(* What holds.                                                             *)
(***************************************************************************)
Ops == {"markCancelling", "dropAdmission", "clear", "disarm", "release", "cancel",
        "dropResponse", "supervise", "publish", "fault", "signal", "finish", "finishCaller"}

\* Type correctness.  The registry is Open with the three fields of a turn or
\* Terminal without them (AgentTurnRegistry), so a frozen one holds no turn.
TurnTypeInv ==
  /\ session \in [phase : Usable \union Ended \union {"opening"}, admission : BOOLEAN,
                  frozen : BOOLEAN,
                  registry : [request : Calls \union {None}, control : Calls \union {None},
                              submitted : BOOLEAN],
                  token : BOOLEAN, fault : BOOLEAN, ownFault : BOOLEAN, cleaned : BOOLEAN]
  /\ session.frozen => session.registry = NoTurn
  /\ route \in [revoked : BOOLEAN, active : Calls \union {None}]
  /\ slot \in [Calls -> [state : {"none", "awaiting", "accepted", "rejected", "failed",
                                  "settling", "disarmed"},
                         invalid : 0..(MaxInvalid + 1), failure : BOOLEAN]]
  /\ control \in [Calls ->
       [phase : {"preparing", "armed", "submitted", "cancelledEarly", "ownedCancelled",
                 "ownedFailed", "committed", "settled"},
        admission : BOOLEAN, armed : BOOLEAN, lease : BOOLEAN, response : BOOLEAN,
        outcome : Outcomes \union {None}, cancelled : BOOLEAN, handed : BOOLEAN]]
  /\ run \in [Calls ->
       [pc : {"created", "claiming", "claimed", "armFailed", "armed", "installed",
              "awaiting", "done"},
        channel : Outcomes \union {None, "dropped"},
        result : Outcomes \union {None, "busy", "refused", "unavailable", "cancelled",
                                  "abandoned"},
        prompted : BOOLEAN, signalled : BOOLEAN, finished : BOOLEAN]]
  /\ worker \in [pc : {"opening", "idle", "taken", "submitted", "prompting", "responded",
                       "stopping", "revoking", "reaping", "ended"},
                 call : Calls \union {None}, reply : Responses \union {"end"},
                 handled : BOOLEAN, cancelSent : BOOLEAN]
  /\ request \in [Requests ->
       [pc : {"idle", "open", "validating", "failing", "done"}, lease : Calls \union {None},
        answer : {"none", "accepted", "invalid", "rejected", "callbackFailed", "noActiveSlot",
                  "alreadySubmitted", "contractRejected", "turnUnavailable"}]]
  /\ closer \in {"idle", "cancelling", "done"}
  /\ todo \in [Threads -> Seq(Ops \X (Calls \union {None}))]

\* Some thread will still make the step op for the call c.
Pending(op, c) == \E t \in Threads : \E i \in 1..Len(todo[t]) : todo[t][i] = <<op, c>>

\* The call c has the SessionTurnLease: in its run_turn, in its control, or in
\* the hands of a thread that is about to release it.
Holds(c) ==
  \/ run[c].pc \in {"claimed", "armFailed", "armed"}
  \/ control[c].lease
  \/ Pending("release", c)

\* At most one turn holds the session, a session in a turn is held, and a
\* Ready session has no holder, no armed result and no registered turn: it
\* becomes Ready only after the turn before it is out of the way (the order
\* of the steps after request_cancel, complete_response and
\* prepare_terminal_delivery).
OneTurnAtATime ==
  /\ \A c, d \in Calls : Holds(c) /\ Holds(d) => c = d
  /\ session.phase \in {"active", "cancelling"} => \E c \in Calls : Holds(c)
  /\ session.phase = "ready" => /\ \A c \in Calls : ~Holds(c)
                                /\ route.active = None
                                /\ session.registry = NoTurn

\* The admission of the session is taken exactly while one call owns it, so
\* no lease is released twice (the assertion in ActAdmissionLease::release).
AdmissionIsOwned ==
  LET owners == {c \in Calls : control[c].admission \/ Pending("dropAdmission", c)}
  IN  TurnTypeInv /\ Cardinality(owners) = (IF session.admission THEN 1 ELSE 0)

\* The session is Cancelling only while the turn that holds it was cancelled
\* or failed after its submission: the late mark_cancelling of one turn never
\* hits the next one (the marker is used before the admission is dropped).
CancellingBelongsToTheTurn ==
  session.phase = "cancelling" =>
    \A c \in Calls : Holds(c) => control[c].phase \notin {"preparing", "armed", "submitted"}

\* A session serves one turn at a time, and everything it holds is that turn's.
TurnsAreExclusive == OneTurnAtATime /\ AdmissionIsOwned /\ CancellingBelongsToTheTurn

\* The library never breaks a session by itself: the route is free when a
\* result is armed, the registry is free when a turn is queued and registered,
\* and the sender of the outcome is dropped only after the cancellation token
\* of its caller is set.
SessionBreaksOnlyFromOutside == ~session.ownFault

\* An accepted cancellation is final: the caller receives no outcome.  And a
\* caller is told that it was cancelled only if its cancellation was accepted.
CancellationIsFinal ==
  \A c \in Calls :
    /\ run[c].channel \in Outcomes =>
         control[c].phase \notin {"cancelledEarly", "ownedCancelled"}
    /\ run[c].result = "cancelled" => control[c].phase = "cancelledEarly" \/ control[c].cancelled

\* Of a turn whose prompt was sent, what the agent was told agrees with what
\* the caller gets: a success was accepted; an accepted value is returned unless
\* the turn stopped, broke or was cancelled; a final rejection or a failed
\* schema callback wins over any later cancellation or failure of the session
\* (FailurePreceded, take_committed_failure) unless the session is cancelled.
AnswersAgreeWithOutcome ==
  \A c \in Calls :
    LET told == {request[q].answer : q \in {q \in Requests : request[q].lease = c}}
        r == run[c].result
    IN  run[c].pc = "done" /\ run[c].prompted /\ ~run[c].signalled =>
          /\ r = "success" => "accepted" \in told
          /\ "accepted" \in told => r \in {"success", "stopped", "broken", "cancelled"}
          /\ "rejected" \in told /\ ~session.token => r = "rejected"
          /\ "callbackFailed" \in told /\ ~session.token => r = "callback"

\* A caller learns what happened to its turn: the outcome that the agent was told
\* of, and a cancellation only if there was one.
CallersLearnTheOutcome == CancellationIsFinal /\ AnswersAgreeWithOutcome

\* No caller is stranded: once the session has failed or is closed, every Act
\* that waits for it ends, in whatever window the failure found its turn.
EndedSessionsReleaseCallers ==
  \A c \in Calls :
    session.phase \in Ended /\ run[c].pc # "created" ~> run[c].pc = "done"

\* A turn that was cancelled before its prompt was sent gives the session back
\* without any help of the agent.
EarlyCancellationFreesSession ==
  \A c \in Calls : control[c].phase = "cancelledEarly" ~> ~Holds(c)

\* Turns let go: of their callers when the session ends, and of the session when
\* they are cancelled early.
TurnsLetGo == EndedSessionsReleaseCallers /\ EarlyCancellationFreesSession
=============================================================================
