--------------------------- MODULE ActDiagnostics ---------------------------
(***************************************************************************)
(* The diagnostic lifecycle of one Act: the producer that turns hooks of   *)
(* the awaited call and observations of the agent turn into Act, caller    *)
(* and turn spans (act_producer.rs), the router that finalises token usage *)
(* (usage_finalization.rs), and the three threads that drive them: the     *)
(* event loop that runs the call (act_call.rs), the worker that runs the   *)
(* turn (session/turn.rs) and the supervisor that ends the session.        *)
(*                                                                         *)
(* A thread runs a continuation todo[t].  One element is one critical      *)
(* section of the producer's or the router's lock; "unlock" releases the   *)
(* turn control's lock and "delivered" the observer's delivery order, so a *)
(* thread holds a lock exactly while its continuation still contains the   *)
(* release.                                                                *)
(***************************************************************************)
EXTENDS Naturals, Sequences

CONSTANT MaxGeneration   \* opening attempts explored

Threads == {"loop", "worker", "closer"}
Settlements == {"NotSubmitted", "Authoritative", "Unknown"}
None == "none"

VARIABLES
  session,   \* [state, generation]: the Actor's agent session
  call,      \* phase of ActCall, and whether the caller abandoned it
  ctl,       \* AgentTurnControlState: phase, bound generation, terminal observed
  result,    \* whether the result slot committed a failure first
  prod,      \* ActLifecycleState of the producer
  finalization,  \* UsageFinalizationState shared by producer and router
  entry,     \* ActFinalization of the router, or "Absent"
  usage,     \* the usage events admitted for the Act
  hub,       \* "open" or "failed": whether mandatory admission works
  latched,   \* codes the producer reported as Run failures
  todo       \* [Threads -> Seq(step)]

actVars ==
  <<session, call, ctl, result, prod, finalization, entry, usage, hub, latched, todo>>

Holds(t, release) == \E i \in DOMAIN todo[t] : todo[t][i].op = release
Free(release) == \A t \in Threads : ~Holds(t, release)

Entry(phase) ==
  [phase |-> phase, session |-> FALSE, candidate |-> FALSE, sessionTerminal |-> FALSE]

ActInit ==
  /\ session = [state |-> "opening", generation |-> 0]
  /\ call = [phase |-> "New", abandoned |-> FALSE, published |-> FALSE]
  /\ ctl = [phase |-> "Preparing", bound |-> 0, terminal |-> FALSE]
  /\ result = "awaiting"
  /\ prod = [registered |-> FALSE, generation |-> 0, waiting |-> FALSE,
             prompt |-> FALSE, cancel |-> FALSE, handoff |-> FALSE,
             terminal |-> FALSE, settlement |-> None, caller |-> FALSE,
             notified |-> FALSE, acked |-> FALSE, finished |-> FALSE,
             failed |-> FALSE]
  /\ finalization = [prompt |-> FALSE, settlement |-> None]
  /\ entry = Entry("Absent")
  /\ usage = <<>>
  /\ hub = "open"
  /\ latched = {}
  /\ todo = [t \in Threads |-> <<>>]

-----------------------------------------------------------------------------
(* The producer's transitions, each a function of its state p.  A transition
   that meets an illegal state latches a code and marks the producer failed;
   one that emits while the hub has failed latches the hub's failure. *)

Failed(p, code) == [state |-> [p EXCEPT !.failed = TRUE], codes |-> {code}]
Moved(p) == [state |-> p, codes |-> {}]
Emitted(p, q) == IF hub = "open" THEN Moved(q) ELSE Failed(p, "diagnostic")

\* maybe_finish: the Act span ends once the caller ended, the turn settled and
\* the usage event was acknowledged.
MaybeFinish(p) ==
  IF p.finished \/ p.failed \/ ~p.caller \/ p.settlement = None \/ ~p.acked
  THEN Moved(p)
  ELSE IF p.settlement # "NotSubmitted" /\ ~p.terminal
  THEN Failed(p, "act.finish-before-turn-terminal")
  ELSE Emitted([p EXCEPT !.finished = TRUE], [p EXCEPT !.finished = TRUE])

Then(m, F(_)) ==
  IF m.codes # {} THEN m ELSE F(m.state)

DriverStarted(p) ==
  IF p.failed THEN Moved(p)
  ELSE IF p.waiting \/ p.caller THEN Failed(p, "act.driver-transition-invalid")
  ELSE Emitted(p, [p EXCEPT !.waiting = TRUE])

CancelRequested(p) ==
  IF p.failed \/ p.cancel \/ p.caller THEN Moved(p)
  ELSE Emitted(p, [p EXCEPT !.cancel = TRUE])

\* validate_turn_metadata: a producer admitted with a generation refuses
\* another one.
GenerationAgrees(p) == p.generation \in {0, ctl.bound}

PromptSubmitted(p) ==
  IF p.failed THEN Moved(p)
  ELSE IF ~GenerationAgrees(p) THEN Failed(p, "act.turn-generation-mismatch")
  ELSE IF ~p.waiting THEN Failed(p, "act.prompt-before-driver")
  ELSE IF p.prompt \/ p.caller \/ p.settlement # None
  THEN Failed(p, "act.prompt-transition-invalid")
  ELSE IF finalization.prompt \/ finalization.settlement # None
  THEN Failed(p, "act.usage-slot-prompt-transition-invalid")
  ELSE Emitted([p EXCEPT !.prompt = TRUE], [p EXCEPT !.prompt = TRUE])

SupervisorHandoff(p) ==
  IF p.failed THEN Moved(p)
  ELSE IF ~GenerationAgrees(p) THEN Failed(p, "act.turn-generation-mismatch")
  ELSE IF ~p.prompt THEN Failed(p, "act.handoff-before-turn")
  ELSE IF p.handoff \/ p.terminal
  THEN Failed(p, "act.handoff-transition-invalid")
  ELSE Emitted(p, [p EXCEPT !.handoff = TRUE])

\* UsageFinalizationIdentity::settle
SlotRefuses(s) ==
  /\ finalization.settlement # s
  /\ \/ finalization.settlement # None
     \/ finalization.prompt = (s = "NotSubmitted")

Settled(p, s) ==
  IF SlotRefuses(s) THEN Failed(p, "act.usage-slot-settlement-transition-invalid")
  ELSE MaybeFinish([p EXCEPT !.settlement = s, !.terminal = (s # "NotSubmitted")])

\* Variant: a second NotSubmitted report is not recognised.
TurnTerminalStrict(p, s) ==
  IF p.failed THEN Moved(p)
  ELSE IF p.settlement # None THEN Failed(p, "act.turn-terminal-transition-invalid")
  ELSE Settled(p, s)

TurnTerminal(p, s) ==
  IF p.failed THEN Moved(p)
  ELSE IF ~GenerationAgrees(p) THEN Failed(p, "act.turn-generation-mismatch")
  ELSE IF p.settlement = s /\ s = "NotSubmitted" THEN MaybeFinish(p)
  ELSE IF p.settlement # None THEN Failed(p, "act.turn-terminal-transition-invalid")
  ELSE IF s = "NotSubmitted"
  THEN IF p.prompt THEN Failed(p, "act.not-submitted-after-turn-start")
       ELSE Settled(p, s)
  ELSE IF ~p.prompt THEN Failed(p, "act.turn-terminal-before-start")
  ELSE Then(Emitted(p, p), LAMBDA q : Settled(q, s))

\* The caller's span ends; an Act whose prompt was never submitted is settled
\* here, because no turn will report it.
CallerFinished(p) ==
  IF p.failed THEN Moved(p)
  ELSE IF p.caller THEN Failed(p, "act.caller-finish-transition-invalid")
  ELSE Then(Emitted(p, [p EXCEPT !.caller = TRUE]),
            LAMBDA q : IF ~q.prompt /\ q.settlement = None
                       THEN Settled(q, "NotSubmitted")
                       ELSE MaybeFinish(q))

UsageFinalized(p) ==
  IF p.failed THEN Moved(p)
  ELSE IF p.acked \/ p.settlement = None
  THEN Failed(p, "act.usage-ack-transition-invalid")
  ELSE MaybeFinish([p EXCEPT !.acked = TRUE])

-----------------------------------------------------------------------------
(* Running one element of a thread's continuation. *)

Step(op, arg) == [op |-> op, arg |-> arg]
Do(op) == Step(op, None)
Next1(t, op) == todo[t] # <<>> /\ todo[t][1].op = op
Continue(t, steps) == todo' = [todo EXCEPT ![t] = steps \o Tail(@)]

\* Apply a transition if the registry still knows the producer (observe,
\* observe_agent); then notify the router and drop a finished producer.
Produce(t, m, after) ==
  IF prod.registered
  THEN /\ prod' = m.state
       /\ latched' = latched \cup m.codes
       /\ finalization' = [prompt |-> finalization.prompt \/ m.state.prompt,
                           settlement |-> IF m.state.settlement = None
                                          THEN finalization.settlement
                                          ELSE m.state.settlement]
       /\ Continue(t, after \o IF m.state.finished /\ ~m.state.failed
                               THEN <<Do("remove")>> ELSE <<>>)
  ELSE UNCHANGED <<prod, latched, finalization>> /\ Continue(t, <<>>)

RunProducer(t) ==
  /\ \/ Next1(t, "cancelHook") /\ Produce(t, CancelRequested(prod), <<>>)
     \/ Next1(t, "submitted") /\ Produce(t, PromptSubmitted(prod), <<Do("notify")>>)
     \/ Next1(t, "handoff") /\ Produce(t, SupervisorHandoff(prod), <<Do("notify")>>)
     \/ /\ Next1(t, "terminal")
        /\ Produce(t, TurnTerminal(prod, todo[t][1].arg), <<Do("notify")>>)
     \/ Next1(t, "callerFinished") /\ Produce(t, CallerFinished(prod), <<Do("notify")>>)
     \/ Next1(t, "ack") /\ Produce(t, UsageFinalized(prod), <<>>)
  /\ UNCHANGED <<session, call, ctl, result, entry, usage, hub>>

\* Variant: only the turn's terminal observation notifies the router.
NotifyAfterTurn(t) ==
  /\ Next1(t, "notify")
  /\ prod' = [prod EXCEPT !.notified = @ \/ prod.terminal]
  /\ Continue(t, IF prod.terminal /\ ~prod.notified THEN <<Do("drive")>> ELSE <<>>)
  /\ UNCHANGED <<session, call, ctl, result, finalization, entry, usage, hub, latched>>

\* notify_settlement_ready: the router is told once, after the settlement.
Notify(t) ==
  LET first == prod.settlement # None /\ ~prod.failed /\ ~prod.notified IN
  /\ Next1(t, "notify")
  /\ prod' = [prod EXCEPT !.notified = @ \/ first]
  /\ Continue(t, IF first THEN <<Do("drive")>> ELSE <<>>)
  /\ UNCHANGED <<session, call, ctl, result, finalization, entry, usage, hub, latched>>

\* remove_if_finished
Forget(t) ==
  /\ Next1(t, "remove")
  /\ prod' = [prod EXCEPT !.registered = FALSE]
  /\ Continue(t, <<>>)
  /\ UNCHANGED <<session, call, ctl, result, finalization, entry, usage, hub, latched>>

\* Variant: an authoritative turn does not wait for its usage candidate.
SelectedUsageEager(e) ==
  CASE finalization.settlement = "NotSubmitted" -> <<"prompt_not_submitted">>
    [] finalization.settlement = None -> <<>>
    [] OTHER -> IF e.candidate THEN <<"reported">> ELSE <<"turn_settlement_unknown">>

\* FinalizationMachine::select_usage
SelectedUsage(e) ==
  CASE finalization.settlement = "NotSubmitted" -> <<"prompt_not_submitted">>
    [] finalization.settlement = "Unknown" -> <<"turn_settlement_unknown">>
    [] finalization.settlement = "Authoritative" ->
         IF e.candidate THEN <<"reported">> ELSE <<>>
    [] OTHER ->
         IF e.sessionTerminal /\ finalization.prompt THEN <<"turn_settlement_unknown">> ELSE <<>>

\* UsageFinalizationRouter::drive under the router's lock: admit the usage once
\* it can be selected, acknowledge once the slot is settled, and then forget
\* the Act; the acknowledgement is delivered after the lock is released.
Drive(t, e) ==
  LET admits == e.phase = "Pending" /\ SelectedUsage(e) # <<>>
      fails  == admits /\ hub = "failed"
      phase  == IF fails THEN "Failed" ELSE IF admits THEN "Admitted" ELSE e.phase
      acks   == phase = "Admitted" /\ finalization.settlement # None
  IN /\ usage' = IF admits /\ ~fails THEN usage \o SelectedUsage(e) ELSE usage
     /\ latched' = IF fails THEN latched \cup {"diagnostic"} ELSE latched
     /\ entry' = IF acks THEN Entry("Absent") ELSE [e EXCEPT !.phase = phase]
     /\ Continue(t, IF acks THEN <<Do("ack")>> ELSE <<>>)

\* What an observation notes in a pending entry before the drive: the session its
\* turn runs in, a usage candidate, or the end of that session.
Noted(field) ==
  IF entry.phase = "Pending" THEN [entry EXCEPT ![field] = TRUE] ELSE entry

\* An error of the router ends the observation that met it and is reported as a
\* failure of the Run.
RefuseUsage(t, code) ==
  LET release == CHOOSE i \in DOMAIN todo[t] :
                   /\ todo[t][i].op = "delivered"
                   /\ \A j \in 1..(i - 1) : todo[t][j].op # "delivered"
  IN /\ latched' = latched \cup {code}
     /\ todo' = [todo EXCEPT ![t] = SubSeq(@, release, Len(@))]
     /\ UNCHANGED <<entry, usage>>

\* The observations of a turn bind its entry and drive it.  Every end of a turn
\* reports a usage candidate; one that is not authoritative is invalid unless the
\* end already finalised the entry.
RunRouter(t) ==
  /\ \/ Next1(t, "drive") /\ Drive(t, entry)
     \/ Next1(t, "bind") /\ entry.phase # "Failed" /\ Drive(t, Noted("session"))
     \/ Next1(t, "bind") /\ entry.phase = "Failed" /\ RefuseUsage(t, "diagnostic")
     \/ /\ Next1(t, "candidate")
        /\ IF todo[t][1].arg = "Authoritative" \/ entry.phase # "Pending"
           THEN Drive(t, Noted("candidate"))
           ELSE RefuseUsage(t, "usage_finalization_candidate_invalid")
     \/ /\ Next1(t, "sessionTerminal")
        /\ Drive(t, IF entry.session THEN Noted("sessionTerminal") ELSE entry)
  /\ UNCHANGED <<session, call, ctl, result, prod, finalization, hub>>

\* UsageFinalizingObservationBridge::observe: what an observation runs while it
\* holds the observer's delivery order.
Observation(kind) ==
  CASE kind = "submitted" -> <<Do("bind"), Do("submitted")>>
    [] kind = "handoff" -> <<Do("bind"), Do("handoff")>>
    [] kind = "closed" -> <<Do("sessionTerminal")>>
    [] OTHER -> <<Do("bind"), Step("terminal", kind), Do("drive")>>

Observe(t) ==
  /\ Free("delivered")
  /\ LET step == todo[t][1] IN
     \/ /\ Next1(t, "observe")
        /\ Continue(t, Observation(step.arg) \o <<Do("delivered")>>)
     \/ /\ Next1(t, "observeUsage")
        /\ Continue(t, <<Do("bind"), Step("candidate", step.arg), Do("delivered")>>)
  /\ UNCHANGED <<session, call, ctl, result, prod, finalization, entry, usage, hub, latched>>

Release(t) ==
  /\ Next1(t, "unlock") \/ Next1(t, "delivered")
  /\ Continue(t, <<>>)
  /\ UNCHANGED <<session, call, ctl, result, prod, finalization, entry, usage, hub, latched>>

\* observe_turn_terminal_locked: once per turn, and only a turn with bound
\* metadata reports its end, then its usage.
TerminalReport(s) ==
  IF ctl.terminal \/ ctl.bound = 0 THEN <<>>
  ELSE <<Step("observe", s), Step("observeUsage", s)>>

-----------------------------------------------------------------------------
(* The agent session: opening attempts count generations, a failed attempt is
   retried under the next one. *)

OpeningAttempt ==
  /\ session.state = "opening"
  /\ session.generation < MaxGeneration
  /\ session' = [session EXCEPT !.generation = @ + 1]
  /\ UNCHANGED <<call, ctl, result, prod, finalization, entry, usage, hub, latched, todo>>

Ended == session.state \in {"broken", "closed"}

SessionReady ==
  /\ session.state = "opening" /\ session.generation > 0
  /\ session' = [session EXCEPT !.state = "ready"]
  /\ UNCHANGED <<call, ctl, result, prod, finalization, entry, usage, hub, latched, todo>>

-----------------------------------------------------------------------------
(* The event loop: ActCall. *)

Idle(t) == todo[t] = <<>>
Start(t, steps) == todo' = [todo EXCEPT ![t] = steps]
Running == call.phase = "Running" /\ Idle("loop")

\* finish: the caller's span ends before the turn is asked to cancel.
Finish == <<Do("callerFinished"), Do("requestCancel"), Do("finishCaller")>>

\* The producer a call prepares takes the generation its session has now.
Prepared == [prod EXCEPT !.registered = TRUE, !.generation = session.generation]

\* start: the Act and caller spans, and the admitted instant.
StartSpans(p) == Emitted(p, p)

\* bind_usage after the commit: a producer that could not start registered no
\* slot, so the binding comes late, fails the Run and refuses the call.
LateCode(m) == IF m.state.failed THEN {"act.production-usage-bind-late"} ELSE {}

\* admit_act: prepare, commit (registry, spans, usage slot), bind the usage.
AdmitAct(m) ==
  /\ latched' = latched \cup m.codes \cup LateCode(m)
  /\ entry' = Entry(IF m.state.failed THEN "Absent" ELSE "Pending")

\* start_driver: the driver hook precedes the scheduling of the turn.
StartDriver ==
  LET m == StartSpans(Prepared)
      d == DriverStarted(m.state)
  IN /\ call.phase = "New"
     /\ ~m.state.failed
     /\ AdmitAct(m)
     /\ prod' = d.state
     /\ call' = [call EXCEPT !.phase = "Running"]
     /\ UNCHANGED <<session, ctl, result, finalization, usage, hub, todo>>

\* start_driver fails, after the admission (schema bridge, late usage) or before
\* it (busy session, reused sink): the call finishes as AdmissionFailed.
AdmissionFails ==
  LET m == StartSpans(Prepared) IN
  /\ call.phase = "New"
  /\ \/ AdmitAct(m) /\ prod' = m.state
     \/ UNCHANGED <<latched, entry, prod>>
  /\ call' = [call EXCEPT !.phase = "Finishing"]
  /\ Start("loop", Finish)
  /\ UNCHANGED <<session, ctl, result, finalization, usage, hub>>

\* drive: the awaited future completed (send) and the call returns.
CallReturns ==
  /\ Running /\ call.published
  /\ call' = [call EXCEPT !.phase = "Finishing"]
  /\ Start("loop", Finish)
  /\ UNCHANGED <<session, ctl, result, prod, finalization, entry, usage, hub, latched>>

\* throw of another exception, or __clear__: finish without a cancel request.
CallAbandoned ==
  /\ Running
  /\ call' = [call EXCEPT !.phase = "Finishing", !.abandoned = TRUE]
  /\ Start("loop", Finish)
  /\ UNCHANGED <<session, ctl, result, prod, finalization, entry, usage, hub, latched>>

\* close: the cancel request's decision is ignored.
CallClosed ==
  /\ Running
  /\ call' = [call EXCEPT !.phase = "Finishing"]
  /\ Start("loop", <<Do("cancelHook"), Do("requestCancel")>> \o Finish)
  /\ UNCHANGED <<session, ctl, result, prod, finalization, entry, usage, hub, latched>>

\* throw of CancelledError: a rejected request keeps waiting for the turn.
CallCancelled ==
  /\ Running
  /\ call' = [call EXCEPT !.phase = "Cancelling"]
  /\ Start("loop", <<Do("cancelHook"), Do("requestCancel")>>)
  /\ UNCHANGED <<session, ctl, result, prod, finalization, entry, usage, hub, latched>>

CancelDecided ==
  /\ call.phase = "Cancelling" /\ Idle("loop")
  /\ LET accepted == ctl.phase \in {"CancelledBeforeSubmission", "SupervisorOwnedCancelled"}
     IN /\ call' = [call EXCEPT !.phase = IF accepted THEN "Finishing" ELSE "Running"]
        /\ Start("loop", IF accepted THEN Finish ELSE <<>>)
  /\ UNCHANGED <<session, ctl, result, prod, finalization, entry, usage, hub, latched>>

\* AgentTurnControl::request_cancel under the control's lock; the hand-over to
\* the supervisor is observed after the lock is released.
RequestCancel ==
  LET before == ctl.phase \in {"Preparing", "Armed"}
      owned  == ctl.phase = "Submitted" /\ result # "failed"
  IN /\ Next1("loop", "requestCancel")
     /\ Free("unlock")
     /\ IF Ended \/ ~(before \/ owned)
        THEN UNCHANGED ctl /\ Continue("loop", <<>>)
        ELSE IF before
        THEN /\ ctl' = [ctl EXCEPT !.phase = "CancelledBeforeSubmission", !.terminal = TRUE]
             /\ Continue("loop", TerminalReport("NotSubmitted") \o <<Do("unlock")>>)
        ELSE /\ ctl' = [ctl EXCEPT !.phase = "SupervisorOwnedCancelled"]
             /\ Continue("loop", <<Step("observe", "handoff")>>)
     /\ UNCHANGED <<session, call, result, prod, finalization, entry, usage, hub, latched>>

FinishCaller ==
  /\ Next1("loop", "finishCaller")
  /\ Free("unlock")
  /\ ctl' = [ctl EXCEPT !.phase = IF @ = "CallerOutcomeCommitted" THEN "Settled" ELSE @]
  /\ call' = [call EXCEPT !.phase = "Done"]
  /\ Continue("loop", <<>>)
  /\ UNCHANGED <<session, result, prod, finalization, entry, usage, hub, latched>>

-----------------------------------------------------------------------------
(* The turn: run_turn on the worker. *)

TurnScheduled == prod.waiting

\* run_turn waits for the session, claims it and binds the turn's metadata,
\* then arms the turn and queues it.
ClaimTurn ==
  /\ TurnScheduled /\ session.state = "ready" /\ Idle("worker") /\ Free("unlock")
  /\ ctl.phase = "Preparing"
  /\ IF ctl.bound = 0
     THEN ctl' = [ctl EXCEPT !.bound = session.generation]
     ELSE ctl' = [ctl EXCEPT !.phase = "Armed"]
  /\ UNCHANGED <<session, call, result, prod, finalization, entry, usage, hub, latched, todo>>

\* mark_submitted: observed while the control's lock is held.
MarkSubmitted ==
  /\ ctl.phase = "Armed" /\ Idle("worker") /\ Free("unlock")
  /\ ctl' = [ctl EXCEPT !.phase = "Submitted"]
  /\ Start("worker", <<Step("observe", "submitted"), Do("unlock")>>)
  /\ UNCHANGED <<session, call, result, prod, finalization, entry, usage, hub, latched>>

\* The result slot commits a rejection or a callback failure.
ResultFails ==
  /\ ctl.phase = "Submitted" /\ result = "awaiting" /\ Free("unlock")
  /\ result' = "failed"
  /\ UNCHANGED <<session, call, ctl, prod, finalization, entry, usage, hub, latched, todo>>

\* begin_result_failure_handoff
ResultFailureHandoff ==
  /\ ctl.phase = "Submitted" /\ result = "failed" /\ ~Ended /\ Free("unlock")
  /\ ctl' = [ctl EXCEPT !.phase = "SupervisorOwnedFailed"]
  /\ call' = [call EXCEPT !.published = TRUE]
  /\ UNCHANGED <<session, result, prod, finalization, entry, usage, hub, latched, todo>>

SupervisorOwned == ctl.phase \in {"SupervisorOwnedCancelled", "SupervisorOwnedFailed"}

\* complete_response: a response or an authoritative error settles the turn, any
\* other error leaves its settlement unknown and breaks the session.
CompleteResponse ==
  /\ ctl.phase = "Submitted" \/ SupervisorOwned
  /\ Idle("worker") /\ Free("unlock")
  /\ \E s \in Settlements \ {"NotSubmitted"}, breaks \in BOOLEAN :
       /\ s = "Unknown" => breaks
       /\ session' = [session EXCEPT !.state = IF breaks THEN "broken" ELSE @]
       /\ ctl' = [ctl EXCEPT !.phase = IF SupervisorOwned THEN "Settled"
                                       ELSE "CallerOutcomeCommitted",
                             !.terminal = TRUE]
       /\ Start("worker", TerminalReport(s) \o <<Do("unlock"), Do("publish")>>)
  /\ UNCHANGED <<call, result, prod, finalization, entry, usage, hub, latched>>

Publish(t) ==
  /\ Next1(t, "publish")
  /\ call' = [call EXCEPT !.published = TRUE]
  /\ Continue(t, <<>>)
  /\ UNCHANGED <<session, ctl, result, prod, finalization, entry, usage, hub, latched>>

\* run_turn refuses to claim a session that ended first.
TurnRefused ==
  /\ TurnScheduled /\ Ended /\ ctl.phase = "Preparing" /\ ~call.published
  /\ call' = [call EXCEPT !.published = TRUE]
  /\ UNCHANGED <<session, ctl, result, prod, finalization, entry, usage, hub, latched, todo>>

-----------------------------------------------------------------------------
(* The supervisor: the session fails or is closed, and its cleanup completes. *)

\* fail_terminal / cancel: prepare_terminal_delivery settles a queued turn.
SessionEnds ==
  /\ session.state \in {"opening", "ready"}
  /\ Idle("closer") /\ Free("unlock")
  /\ session' = [session EXCEPT !.state = "broken"]
  /\ LET queued == ctl.phase \in {"Armed", "Submitted"} \/ SupervisorOwned
         report == TerminalReport(IF ctl.phase = "Armed" THEN "NotSubmitted" ELSE "Unknown")
     IN IF queued
        THEN /\ ctl' = [ctl EXCEPT !.phase = IF SupervisorOwned THEN "Settled"
                                             ELSE "CallerOutcomeCommitted",
                                   !.terminal = TRUE]
             /\ Start("closer", report \o <<Do("unlock"), Do("publish")>>)
        ELSE UNCHANGED <<ctl, todo>>
  /\ UNCHANGED <<call, result, prod, finalization, entry, usage, hub, latched>>

\* Cleanup completed: SessionClosed is observed, and ends what the router still
\* holds for the session.
SessionClosed ==
  /\ session.state = "broken" /\ Idle("closer") /\ Idle("worker")
  /\ session' = [session EXCEPT !.state = "closed"]
  /\ Start("closer", <<Step("observe", "closed")>>)
  /\ UNCHANGED <<call, ctl, result, prod, finalization, entry, usage, hub, latched>>

\* The mandatory writer fails: every later admission is refused.
HubFails ==
  /\ hub = "open"
  /\ hub' = "failed"
  /\ UNCHANGED <<session, call, ctl, result, prod, finalization, entry, usage, latched, todo>>

-----------------------------------------------------------------------------
LoopStep == RequestCancel \/ FinishCaller \/ CancelDecided \/ CallReturns

RunStep(t) ==
  \/ RunProducer(t) \/ Notify(t) \/ Forget(t) \/ RunRouter(t)
  \/ Observe(t) \/ Release(t) \/ Publish(t)

TurnStep == ClaimTurn \/ MarkSubmitted \/ CompleteResponse \/ TurnRefused

CloseStep == SessionEnds \/ SessionClosed

ActNext ==
  \/ OpeningAttempt \/ SessionReady
  \/ StartDriver \/ AdmissionFails \/ CallAbandoned \/ CallClosed \/ CallCancelled \/ LoopStep
  \/ \E t \in Threads : RunStep(t)
  \/ TurnStep \/ ResultFails \/ ResultFailureHandoff
  \/ CloseStep \/ HubFails

-----------------------------------------------------------------------------
Quiet == \A t \in Threads : Idle(t)

(* What a reported Run failure is due to.  Apart from a failed hub, the producer
   meets an illegal transition in three situations only: a hand-over to the
   supervisor that is observed after the turn's end, a prompt that is submitted
   after an abandoned call finished, and a turn of a later opening attempt than
   the one the Act was admitted under (act_producer.rs, fail_state). *)
FailuresAreExplained ==
  \A code \in latched :
    CASE code \in {"diagnostic", "act.production-usage-bind-late"} -> hub = "failed"
      [] code = "act.handoff-transition-invalid" -> prod.terminal /\ ~prod.handoff
      [] code = "act.prompt-transition-invalid" -> call.abandoned /\ prod.caller
      [] code = "act.turn-generation-mismatch" -> prod.generation \in 1..(ctl.bound - 1)
      [] code = "usage_finalization_candidate_invalid" -> prod.failed
      [] OTHER -> FALSE

(* Usage is finalised once and tells the truth: at most one usage event is
   admitted for an Act, an Act that finished has exactly one, and it says
   "reported" only for an authoritative turn, "prompt not submitted" only for
   an Act without a turn (usage_finalization.rs, select_usage).  And an admitted
   Act ends: once its call is over, its session closed and every thread idle, its
   span is finished and producer registry and router have forgotten it, or the
   Run has failed (maybe_finish, drive).  No thread is left that would make up
   for a notification that was missed. *)
ActsEndTruthfully ==
  /\ Len(usage) <= 1
  /\ prod.finished /\ ~prod.failed => Len(usage) = 1
  /\ Len(usage) = 1 /\ ~prod.failed =>
       CASE finalization.settlement = "Authoritative" -> usage[1] = "reported" /\ prod.prompt
         [] finalization.settlement = "NotSubmitted" ->
              usage[1] = "prompt_not_submitted" /\ ~prod.prompt
         [] OTHER -> usage[1] = "turn_settlement_unknown" /\ prod.prompt
  /\ call.phase = "Done" /\ session.state = "closed" /\ Quiet /\ latched = {} =>
       ~prod.registered /\ entry.phase = "Absent"
=============================================================================
