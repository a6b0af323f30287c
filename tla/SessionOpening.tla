--------------------------- MODULE SessionOpening ---------------------------
(***************************************************************************)
(* Opening agent sessions: the task that prepares, spawns, handshakes and  *)
(* configures an agent process and retries it, the gate that lets one      *)
(* session install an npx package for the others, the guardian process     *)
(* that owns everything the agent forks, the result route, the calls that  *)
(* cancel a session, and the turns that use it.                            *)
(*                                                                         *)
(* The agent is the environment.  It reports its configuration truthfully  *)
(* and in the order it changes it, and a message is handled in the step    *)
(* that sends it: one reader task handles the stream in order, and nothing *)
(* else sees a message before it does.  The handshake future is another    *)
(* task and picks its response up later.                                   *)
(***************************************************************************)
EXTENDS SessionConfiguration, SessionLifecycle, Sequences, FiniteSets

CONSTANTS Sessions,     \* sessions that share one npx package
          Scenarios     \* what this behaviour's agents are and may do

ASSUME ScenariosAssumption == \A s \in Scenarios : s.profile \in Profiles

CrashLoopThreshold == 3

VARIABLES scenario,   \* the sessions, those cancelled, their profile, the requests an
                      \* agent may answer, and how many faults and notices there may be
          slot,       \* AgentSessionSlot: state, ready_committed, cleanup_complete
          canceller,  \* how far a call of cancel() is
          opener,     \* the opening task
          attempt,    \* the current attempt's connection
          monitor,    \* its configuration monitor
          agent,      \* the agent: its configuration and its processes
          route,      \* the result route
          turn,       \* the session's turn
          gate,       \* the npx preparation gate
          listener,   \* the result service's listener
          lifecycle,  \* what diagnostics were told
          faults, notices

vars == <<scenario, slot, canceller, opener, attempt, monitor, agent, route, turn,
          gate, listener, lifecycle, faults, notices>>

NoAttempt ==
  [step |-> "none",         \* the request awaited, "mcp", "worker" or "ended"
   phase |-> "initialize",
   answer |-> "none",       \* a response the handshake has not picked up yet
   options |-> [mode |-> "other", model |-> "other", effort |-> "other"],
   observed |-> FALSE,      \* response_observed
   failure |-> "none",      \* opening_failure
   transport |-> "none",    \* a frame limit or a transport protocol error
   violated |-> FALSE,      \* protocol_violation
   completion |-> "none", cancelled |-> FALSE, reached |-> FALSE]

NoAgent ==
  [config |-> [mode |-> "other", model |-> "other", effort |-> "other"],
   adapter |-> FALSE, children |-> FALSE,
   guardian |-> "none", control |-> FALSE, eof |-> FALSE, npm |-> "none"]

Init ==
  /\ scenario \in Scenarios
  /\ slot = [s \in Sessions |-> [state |-> "opening", readied |-> FALSE, cleanup |-> FALSE]]
  /\ canceller = [s \in Sessions |-> "idle"]
  /\ opener = [s \in Sessions |-> [pc |-> IF s \in scenario.sessions THEN "start" ELSE "unused",
                                   generation |-> 1, last |-> <<>>, streak |-> 0,
                                   leader |-> "none"]]
  /\ attempt = [s \in Sessions |-> NoAttempt]
  /\ monitor = [s \in Sessions |-> MonitorNew]
  /\ agent = [s \in Sessions |-> NoAgent]
  /\ route = [s \in Sessions |-> [phase |-> "none", connections |-> 0]]
  /\ turn = [s \in Sessions |-> "none"]
  /\ gate = [ready |-> FALSE, failure |-> FALSE, leader |-> "none"]
  /\ listener = "unstarted"
  /\ lifecycle = [s \in Sessions |-> LifecycleNew]
  /\ faults = 0 /\ notices = 0

Fault == faults < scenario.faults /\ faults' = faults + 1

cancelled(s) == canceller[s] # "idle"

-----------------------------------------------------------------------------
(* Slot transitions *)

Dead == {"auth_required", "start_failed", "closing", "closed"}

\* commit_failure: an opening failure counts only while the slot is opening.
commit_failure(s, kind) ==
  IF slot[s].state \in {"opening", "backing_off"}
  THEN /\ slot' = [slot EXCEPT ![s].state = IF kind = "auth" THEN "auth_required" ELSE "start_failed"]
       /\ lifecycle' = [lifecycle EXCEPT ![s] = observe_broken(@)]
  ELSE UNCHANGED <<slot, lifecycle>>

\* commit_terminal_failure, for a process exit, a lost transport, a protocol
\* violation, a lost result channel or a frame over the limit.
commit_terminal_failure(s) ==
  IF slot[s].state \in Dead THEN UNCHANGED <<slot, lifecycle>>
  ELSE /\ slot' = [slot EXCEPT ![s].state =
                     IF @ \in {"opening", "backing_off"} THEN "start_failed" ELSE "broken"]
       /\ lifecycle' = [lifecycle EXCEPT ![s] = observe_broken(@)]

\* commit_ready, under the monitor's lock: only an opening slot becomes Ready.
commit_ready(s) ==
  IF slot[s].state = "opening"
  THEN /\ slot' = [slot EXCEPT ![s].state = "ready", ![s].readied = TRUE]
       /\ monitor' = [monitor EXCEPT ![s].ready = TRUE]
       /\ lifecycle' = [lifecycle EXCEPT ![s] = observe_ready(@, opener[s].generation)]
       /\ attempt' = [attempt EXCEPT ![s].step = "worker"]
  ELSE /\ attempt' = [attempt EXCEPT ![s].step = "ended"]
       /\ UNCHANGED <<slot, monitor, lifecycle>>

finish_closed_state_if_cleanup_complete(record) ==
  IF record.cleanup /\ record.state = "closing" THEN [record EXCEPT !.state = "closed"] ELSE record

\* cancel(): the token first, then the state, then the observation, then the
\* check whether the opening task is already gone.
CancelToken(s) ==
  /\ canceller[s] = "idle" /\ s \in scenario.cancellable
  /\ canceller' = [canceller EXCEPT ![s] = "token"]
  /\ UNCHANGED <<scenario, slot, opener, attempt, monitor, agent, route, turn, gate, listener,
                 lifecycle, faults, notices>>

CancelState(s) ==
  /\ canceller[s] = "token"
  /\ canceller' = [canceller EXCEPT ![s] = "state"]
  /\ slot' = [slot EXCEPT ![s].state = "closing"]
  /\ turn' = [turn EXCEPT ![s] = IF @ = "breaking" THEN @ ELSE "none"]
  /\ UNCHANGED <<scenario, opener, attempt, monitor, agent, route, gate, listener, lifecycle,
                 faults, notices>>

CancelObserve(s) ==
  /\ canceller[s] = "state"
  /\ canceller' = [canceller EXCEPT ![s] = "observed"]
  /\ lifecycle' = [lifecycle EXCEPT ![s] = observe_closing(@)]
  /\ UNCHANGED <<scenario, slot, opener, attempt, monitor, agent, route, turn, gate, listener,
                 faults, notices>>

CancelFinish(s) ==
  /\ canceller[s] = "observed"
  /\ canceller' = [canceller EXCEPT ![s] = "done"]
  /\ slot' = [slot EXCEPT ![s] = finish_closed_state_if_cleanup_complete(@)]
  /\ UNCHANGED <<scenario, opener, attempt, monitor, agent, route, turn, gate, listener,
                 lifecycle, faults, notices>>

Cancel(s) == CancelState(s) \/ CancelObserve(s) \/ CancelFinish(s)

-----------------------------------------------------------------------------
(* The opening task, up to the spawned process *)

Goes(s, pc) == opener' = [opener EXCEPT ![s].pc = pc]

\* open_agent_session up to the gate: the workspace and the result service.
StartOpening(s) ==
  /\ opener[s].pc = "start"
  /\ \/ /\ cancelled(s)
        /\ Goes(s, "cleanup") /\ UNCHANGED <<slot, lifecycle, listener, faults>>
     \/ /\ ~cancelled(s) /\ (Fault \/ (listener = "failed" /\ UNCHANGED faults))
        /\ commit_failure(s, "start")
        /\ Goes(s, "cleanup") /\ UNCHANGED listener
     \/ /\ ~cancelled(s) /\ listener # "failed"
        /\ listener' = "ready"
        /\ Goes(s, IF scenario.npx THEN "gate" ELSE "attempt")
        /\ UNCHANGED <<slot, lifecycle, faults>>
  /\ UNCHANGED <<scenario, canceller, attempt, monitor, agent, route, turn, gate, notices>>

\* Variant: a waiting session does not look at its token.
EnterGateDeaf(s) ==
  /\ opener[s].pc = "gate"
  /\ \/ /\ gate.failure
        /\ commit_failure(s, "start")
        /\ Goes(s, "cleanup") /\ UNCHANGED gate
     \/ /\ ~gate.failure /\ gate.ready
        /\ Goes(s, "attempt") /\ UNCHANGED <<slot, lifecycle, gate>>
     \/ /\ ~gate.failure /\ ~gate.ready /\ gate.leader = "none"
        /\ gate' = [gate EXCEPT !.leader = s]
        /\ opener' = [opener EXCEPT ![s].pc = "attempt", ![s].leader = "leading"]
        /\ UNCHANGED <<slot, lifecycle>>
  /\ UNCHANGED <<scenario, canceller, attempt, monitor, agent, route, turn, listener, faults,
                 notices>>

\* NpxPreparationGate.enter: wait unless the package is settled or nobody leads.
EnterGate(s) ==
  /\ opener[s].pc = "gate"
  /\ \/ /\ gate.failure /\ ~cancelled(s)
        /\ commit_failure(s, "start")
        /\ Goes(s, "cleanup") /\ UNCHANGED gate
     \/ /\ cancelled(s)
        /\ Goes(s, "cleanup") /\ UNCHANGED <<slot, lifecycle, gate>>
     \/ /\ ~gate.failure /\ gate.ready /\ ~cancelled(s)
        /\ Goes(s, "attempt") /\ UNCHANGED <<slot, lifecycle, gate>>
     \/ /\ ~gate.failure /\ ~gate.ready /\ gate.leader = "none" /\ ~cancelled(s)
        /\ gate' = [gate EXCEPT !.leader = s]
        /\ opener' = [opener EXCEPT ![s].pc = "attempt", ![s].leader = "leading"]
        /\ UNCHANGED <<slot, lifecycle>>
  /\ UNCHANGED <<scenario, canceller, attempt, monitor, agent, route, turn, listener, faults,
                 notices>>

\* The attempt is reported after the last look at the token and without a lock.
ObserveAttempt(s) ==
  /\ opener[s].pc = "attempt"
  /\ lifecycle' = [lifecycle EXCEPT ![s] = observe_opening_attempt(@, opener[s].generation)]
  /\ Goes(s, "spawn")
  /\ UNCHANGED <<scenario, slot, canceller, attempt, monitor, agent, route, turn, gate, listener,
                 faults, notices>>

\* spawn_agent: a guardian process that owns the adapter and what it forks.
SpawnAgent(s) ==
  /\ opener[s].pc = "spawn"
  /\ \/ /\ cancelled(s)
        /\ Goes(s, "cleanup") /\ UNCHANGED <<slot, lifecycle, attempt, agent, faults>>
     \/ /\ ~cancelled(s) /\ Fault
        /\ commit_failure(s, "start")
        /\ Goes(s, "cleanup") /\ UNCHANGED <<attempt, agent>>
     \/ /\ ~cancelled(s)
        /\ attempt' = [attempt EXCEPT ![s] = [NoAttempt EXCEPT !.step = "initialize"]]
        /\ agent' = [agent EXCEPT ![s] = [NoAgent EXCEPT !.adapter = TRUE, !.children = TRUE,
                                                        !.guardian = "watching", !.control = TRUE]]
        /\ Goes(s, "connected") /\ UNCHANGED <<slot, lifecycle, faults>>
  /\ UNCHANGED <<scenario, canceller, monitor, route, turn, gate, listener, notices>>

-----------------------------------------------------------------------------
(* The handshake *)

Connected(s) == opener[s].pc = "connected"
Requests == {"initialize", "session_new", "mode", "model", "effort"}

Sends(s, step, phase) ==
  attempt' = [attempt EXCEPT ![s].step = step, ![s].phase = phase, ![s].answer = "none",
                             ![s].options = NoAttempt.options, ![s].observed = FALSE]

\* A failure is recorded unless the transport ended without a response.
HandshakeFails(s, kind) ==
  attempt' = [attempt EXCEPT ![s].step = "ended", ![s].answer = "none",
                ![s].options = NoAttempt.options,
                ![s].failure = IF @ = "none" /\ attempt[s].transport # "limit"
                                  /\ (~agent[s].eof \/ attempt[s].observed) THEN kind ELSE @]

Answered(s, step) ==
  Connected(s) /\ attempt[s].step = step /\ attempt[s].answer # "none"

\* initialize: the package runs, so the gate opens; then the route is made.
AfterInitialize(s) ==
  /\ Answered(s, "initialize")
  /\ IF attempt[s].answer # "ok"
     THEN /\ HandshakeFails(s, IF attempt[s].answer = "transient" THEN "transient" ELSE "terminal")
          /\ UNCHANGED <<gate, opener, route>>
     ELSE /\ IF gate.leader = s
             THEN /\ gate' = [gate EXCEPT !.ready = TRUE, !.leader = "none"]
                  /\ opener' = [opener EXCEPT ![s].leader = "completed"]
             ELSE UNCHANGED <<gate, opener>>
          /\ IF listener = "ready"
             THEN /\ route' = [route EXCEPT ![s] = [phase |-> "new", connections |-> 0]]
                  /\ Sends(s, "session_new", "session_new")
             ELSE HandshakeFails(s, "terminal") /\ UNCHANGED route
  /\ UNCHANGED <<scenario, slot, canceller, monitor, agent, turn, listener, lifecycle, faults,
                 notices>>

\* session/new: authentication_required revokes the route before it is reported.
AfterSessionNew(s) ==
  /\ Answered(s, "session_new")
  /\ \/ /\ attempt[s].answer = "auth" /\ route[s].phase # "revoked"
        /\ route' = [route EXCEPT ![s].phase = "revoked"]
        /\ UNCHANGED <<attempt, monitor>>
     \/ /\ attempt[s].answer = "auth" /\ route[s].phase = "revoked" /\ route[s].connections = 0
        /\ route' = [route EXCEPT ![s].phase = "none"]
        /\ HandshakeFails(s, "auth") /\ UNCHANGED monitor
     \/ /\ attempt[s].answer \in {"transient", "unavailable", "error"}
        /\ HandshakeFails(s, IF attempt[s].answer = "transient" THEN "transient" ELSE "terminal")
        /\ UNCHANGED <<route, monitor>>
     \/ /\ attempt[s].answer = "ok"
        /\ monitor' = [monitor EXCEPT ![s] = arm_mode(@)]
        /\ Sends(s, "mode", "configure") /\ UNCHANGED route
  /\ UNCHANGED <<scenario, slot, canceller, opener, agent, turn, gate, listener, lifecycle, faults,
                 notices>>

\* configure_session: the mode, the model and, when one is requested, the effort;
\* the monitor is armed with the Ready contract before the last of them is sent.
AfterConfigure(s) ==
  LET step == attempt[s].step
      profile == scenario.profile
      options == attempt[s].options
      mode_kept == require_applied_mode(profile, options)
      resolved == resolve(profile, options)
      fails == \/ attempt[s].answer # "ok" \/ ~mode_kept
               \/ step = "model" /\ options.model # "want"
               \/ step = "effort" /\ resolved = "invalid"
               \/ step = "model" /\ ~profile.effort /\ resolved = "invalid"
      next == CASE step = "mode" -> "model"
                [] step = "model" /\ profile.effort -> "effort"
                [] OTHER -> "mcp"
  IN  /\ Connected(s) /\ step \in {"mode", "model", "effort"} /\ attempt[s].answer # "none"
      /\ IF fails
         THEN /\ HandshakeFails(s, IF attempt[s].answer = "transient" THEN "transient" ELSE "terminal")
              /\ UNCHANGED monitor
         ELSE IF next = "mcp"
         THEN /\ attempt' = [attempt EXCEPT ![s].step = "mcp", ![s].phase = "mcp_ready",
                                            ![s].answer = "none",
                                            ![s].options = NoAttempt.options]
              /\ UNCHANGED monitor
         ELSE /\ Sends(s, next, "configure")
              /\ monitor' = [monitor EXCEPT ![s] =
                               IF next = "effort" \/ ~profile.effort THEN arm_ready(@) ELSE @]
      /\ UNCHANGED <<scenario, slot, canceller, opener, agent, route, turn, gate, listener,
                     lifecycle, faults, notices>>

\* The route is ready: commit, unless a notification has invalidated the
\* configuration since the last response.
AfterRouteReady(s) ==
  /\ Connected(s) /\ attempt[s].step = "mcp"
  /\ \/ /\ \/ cancelled(s) /\ UNCHANGED faults
           \/ route[s].phase = "ready" /\ (Fault \/ (monitor[s].invalid /\ UNCHANGED faults))
        /\ HandshakeFails(s, "terminal") /\ UNCHANGED <<slot, monitor, lifecycle>>
     \/ /\ route[s].phase = "ready" /\ ~monitor[s].invalid
        /\ commit_ready(s) /\ UNCHANGED faults
  /\ UNCHANGED <<scenario, canceller, opener, agent, route, turn, gate, listener, notices>>

CanAdvance(s) ==
  \/ attempt[s].answer # "none"
       /\ ~(attempt[s].answer = "auth" /\ route[s].phase = "revoked" /\ route[s].connections > 0)
  \/ attempt[s].step = "mcp" /\ (route[s].phase = "ready" \/ cancelled(s))

\* The other branches of the biased select: the handshake is polled first.
HandshakeAborts(s) ==
  /\ Connected(s) /\ attempt[s].step \in Requests \cup {"mcp"} /\ ~CanAdvance(s)
  /\ \/ /\ agent[s].eof
        /\ attempt' = [attempt EXCEPT ![s].step = "ended", ![s].answer = "none"]
     \/ /\ ~agent[s].eof /\ (monitor[s].invalid \/ attempt[s].violated)
        /\ HandshakeFails(s, "terminal")
  /\ UNCHANGED <<scenario, slot, canceller, opener, monitor, agent, route, turn, gate, listener,
                 lifecycle, faults, notices>>

\* run_agent_turn_worker: ends with the stream, the session or a terminal fault.
WorkerEnds(s) ==
  /\ Connected(s) /\ attempt[s].step = "worker"
  /\ \/ agent[s].eof /\ commit_terminal_failure(s)
     \/ cancelled(s) /\ UNCHANGED <<slot, lifecycle>>
     \/ slot[s].state = "broken" /\ turn[s] # "breaking" /\ UNCHANGED <<slot, lifecycle>>
  /\ attempt' = [attempt EXCEPT ![s].step = "ended"]
  /\ turn' = [turn EXCEPT ![s] = IF @ = "breaking" THEN @ ELSE "none"]
  /\ UNCHANGED <<scenario, canceller, opener, monitor, agent, route, gate, listener, faults,
                 notices>>

Handshake(s) ==
  \/ AfterInitialize(s) \/ AfterSessionNew(s) \/ AfterConfigure(s) \/ AfterRouteReady(s)
  \/ HandshakeAborts(s) \/ WorkerEnds(s)

-----------------------------------------------------------------------------
(* The end of an attempt *)

\* The select that runs the connection: whichever branch is ready may win.  A
\* session that had become Ready is failed here, before its processes are gone.
Complete(s) ==
  \E completion \in {"closed", "protocol", "child", "lost", "cancelled"} :
    /\ Connected(s)
    /\ CASE completion = "closed"    -> attempt[s].step = "ended"
         [] completion = "protocol"  -> attempt[s].transport # "none"
         [] completion = "child"     -> agent[s].guardian = "exited"
         [] completion = "lost"      -> listener = "failed"
         [] completion = "cancelled" -> cancelled(s)
    /\ LET reached == slot[s].readied
       IN  /\ attempt' = [attempt EXCEPT ![s].completion = completion, ![s].step = "none",
                            ![s].answer = "none", ![s].options = NoAttempt.options,
                            ![s].cancelled = cancelled(s),
                            ![s].reached = reached]
           /\ IF ~cancelled(s) /\ reached THEN commit_terminal_failure(s)
              ELSE UNCHANGED <<slot, lifecycle>>
    /\ monitor' = [monitor EXCEPT ![s] = MonitorNew]
    /\ turn' = [turn EXCEPT ![s] = IF @ = "breaking" THEN @ ELSE "none"]
    /\ route' = [route EXCEPT ![s].phase = IF @ = "none" THEN @ ELSE "revoked"]
    /\ Goes(s, "revoking")
    /\ UNCHANGED <<scenario, canceller, agent, gate, listener, faults, notices>>

\* revoke_route returns when the route's last connection has ended.
Revoked(s) ==
  /\ opener[s].pc = "revoking" /\ route[s].connections = 0
  /\ route' = [route EXCEPT ![s].phase = "none"]
  /\ Goes(s, "reap")
  /\ UNCHANGED <<scenario, slot, canceller, attempt, monitor, agent, turn, gate, listener,
                 lifecycle, faults, notices>>

\* terminate_and_reap: after a second the control pipe is closed on the guardian.
CloseControl(s) ==
  /\ opener[s].pc = "reap" /\ agent[s].guardian # "exited" /\ agent[s].control
  /\ agent' = [agent EXCEPT ![s].control = FALSE]
  /\ UNCHANGED <<scenario, slot, canceller, opener, attempt, monitor, route, turn, gate, listener,
                 lifecycle, faults, notices>>

\* What the attempt came to, in the order the code asks.
Outcome(s) ==
  LET a == attempt[s]
      leads == gate.leader = s
  IN  IF a.cancelled \/ a.reached THEN <<"return">>
      ELSE IF a.transport = "limit" \/ a.completion = "lost" THEN <<"terminal">>
      ELSE IF a.failure # "none" THEN <<a.failure>>
      ELSE IF a.completion = "protocol" THEN <<"terminal">>
      ELSE IF leads /\ agent[s].npm = "transient" THEN <<"transient">>
      ELSE IF leads /\ agent[s].npm = "deterministic" THEN <<"preparation">>
      ELSE <<"ambiguous", a.phase, a.completion>>

\* The opening loop on that outcome: stop, fail the slot, or back off; the same
\* ambiguous end three times in a row is a crash loop.
Settle(s, outcome) ==
  LET kind == outcome[1]
      streak == IF opener[s].last = outcome THEN opener[s].streak + 1 ELSE 1
      loops == kind = "ambiguous" /\ streak >= CrashLoopThreshold
      retries == kind \in {"transient", "ambiguous"} /\ ~loops /\ slot[s].state = "opening"
  IN  /\ IF kind \in {"terminal", "preparation", "auth"} \/ loops
         THEN commit_failure(s, IF kind = "auth" THEN "auth" ELSE "start")
         ELSE /\ slot' = IF retries THEN [slot EXCEPT ![s].state = "backing_off"] ELSE slot
              /\ UNCHANGED lifecycle
      /\ gate' = IF kind = "preparation" THEN [gate EXCEPT !.failure = TRUE, !.leader = "none"]
                 ELSE gate
      /\ opener' = [opener EXCEPT
           ![s].pc = IF retries THEN "backoff" ELSE "cleanup",
           ![s].last = IF retries /\ kind = "ambiguous" THEN outcome ELSE <<>>,
           ![s].streak = IF retries /\ kind = "ambiguous" THEN streak ELSE 0,
           ![s].leader = IF kind = "preparation" THEN "completed" ELSE @]

Reaped(s) ==
  /\ opener[s].pc = "reap" /\ agent[s].guardian = "exited"
  /\ Settle(s, Outcome(s))
  /\ attempt' = [attempt EXCEPT ![s] = NoAttempt]
  /\ agent' = [agent EXCEPT ![s] = [NoAgent EXCEPT !.adapter = agent[s].adapter,
                                                  !.children = agent[s].children]]
  /\ UNCHANGED <<scenario, canceller, monitor, route, turn, listener, faults, notices>>

\* The timer or the token, then begin_opening_retry.
BackoffEnds(s) ==
  /\ opener[s].pc = "backoff"
  /\ IF cancelled(s) \/ slot[s].state # "backing_off"
     THEN Goes(s, "cleanup") /\ UNCHANGED slot
     ELSE /\ slot' = [slot EXCEPT ![s].state = "opening"]
          /\ opener' = [opener EXCEPT ![s].pc = "attempt", ![s].generation = @ + 1]
  /\ UNCHANGED <<scenario, canceller, attempt, monitor, agent, route, turn, gate, listener,
                 lifecycle, faults, notices>>

\* Leaving open_agent_session drops a leader that did not complete.
FinishOpening(s) ==
  /\ opener[s].pc = "cleanup"
  /\ gate' = IF gate.leader = s THEN [gate EXCEPT !.leader = "none"] ELSE gate
  /\ slot' = [slot EXCEPT ![s] =
                finish_closed_state_if_cleanup_complete([@ EXCEPT !.cleanup = TRUE])]
  /\ opener' = [opener EXCEPT ![s].pc = "finishing", ![s].leader = "none"]
  /\ UNCHANGED <<scenario, canceller, attempt, monitor, agent, route, turn, listener, lifecycle,
                 faults, notices>>

ObserveCleanup(s) ==
  /\ opener[s].pc = "finishing"
  /\ lifecycle' = [lifecycle EXCEPT ![s] = observe_cleanup_complete(@)]
  /\ Goes(s, "done")
  /\ UNCHANGED <<scenario, slot, canceller, attempt, monitor, agent, route, turn, gate, listener,
                 faults, notices>>

-----------------------------------------------------------------------------
(* The agent, its processes and the result route *)

\* Variant: the guardian waits for the adapter alone.
GuardianWaitsForAdapter(s) ==
  /\ agent[s].guardian = "watching" /\ (~agent[s].adapter \/ ~agent[s].control)
  /\ agent' = [agent EXCEPT ![s].adapter = FALSE, ![s].guardian = "exited", ![s].eof = TRUE]
  /\ UNCHANGED <<scenario, slot, canceller, opener, attempt, monitor, route, turn, gate, listener,
                 lifecycle, faults, notices>>

\* The guardian kills and reaps everything below it once the adapter is gone or
\* its control pipe is closed, and only then exits.
GuardianCleans(s) ==
  /\ agent[s].guardian = "watching" /\ (~agent[s].adapter \/ ~agent[s].control)
  /\ agent' = [agent EXCEPT ![s].adapter = FALSE, ![s].children = FALSE,
                            ![s].guardian = "exited", ![s].eof = TRUE]
  /\ UNCHANGED <<scenario, slot, canceller, opener, attempt, monitor, route, turn, gate, listener,
                 lifecycle, faults, notices>>

\* NpxPreparationStderrClassifier: one kind of npm error code is evidence; an
\* unknown code, a record over the line limit or both kinds are none.
StderrLines == UNION {[1..n -> {"transient", "deterministic", "unknown", "other"}] : n \in 0..2}

Classify(lines) ==
  LET records == {lines[i] : i \in DOMAIN lines} \ {"other"}
  IN  CASE records = {"transient"}     -> "transient"
        [] records = {"deterministic"} -> "deterministic"
        [] OTHER                       -> "none"

\* The adapter exits by itself; its children keep running.
AdapterExits(s) ==
  /\ Connected(s) /\ agent[s].adapter /\ Fault
  /\ \E lines \in (IF gate.leader = s THEN StderrLines ELSE {<<>>}) :
       agent' = [agent EXCEPT ![s].adapter = FALSE, ![s].npm = Classify(lines)]
  /\ UNCHANGED <<scenario, slot, canceller, opener, attempt, monitor, route, turn, gate, listener,
                 lifecycle, notices>>

\* The stream ends: the agent closed it, sent a frame over the limit or something
\* that is not a message.
StreamEnds(s) ==
  /\ Connected(s) /\ ~agent[s].eof /\ Fault
  /\ \E transport \in {"none", "limit", "protocol"} :
       attempt' = [attempt EXCEPT ![s].transport = transport]
  /\ agent' = [agent EXCEPT ![s].eof = TRUE]
  /\ UNCHANGED <<scenario, slot, canceller, opener, monitor, route, turn, gate, listener,
                 lifecycle, notices>>

Speaks(s) == Connected(s) /\ agent[s].adapter /\ ~agent[s].eof

\* What a request that the agent honours does to its configuration.
Applied(s, step) ==
  LET config == agent[s].config
  IN  CASE step = "session_new" ->
             {[mode |-> "other", model |-> "other", effort |-> effort] :
                effort \in IF scenario.profile.optional THEN {"other", "absent"} ELSE {"other"}}
        [] step \in {"mode", "model", "effort"} -> {[config EXCEPT ![step] = "want"]}
        [] OTHER -> {config}

Faulty(step) ==
  CASE step = "initialize"  -> {"error", "transient"}
    [] step = "session_new" -> {"auth", "unavailable", "transient"}
    [] OTHER                -> {"error", "transient"}

\* A response: the handler shows it to the monitor before the handshake sees it.
\* An agent may also report success and leave its configuration as it was.
AgentAnswers(s) ==
  /\ Speaks(s) /\ attempt[s].step \in Requests \cap scenario.answers
  /\ attempt[s].answer = "none"
  /\ \E kind \in {"ok"} \cup Faulty(attempt[s].step), config \in Applied(s, attempt[s].step)
         \cup {agent[s].config} :
       /\ IF kind = "ok" /\ config \in Applied(s, attempt[s].step) THEN UNCHANGED faults
          ELSE Fault /\ (kind # "ok" => config = agent[s].config)
       /\ agent' = [agent EXCEPT ![s].config = config]
       /\ attempt' = [attempt EXCEPT ![s].answer = kind, ![s].options = config,
                                     ![s].observed = TRUE]
       /\ monitor' = [monitor EXCEPT ![s] = observe_configuration_response(scenario.profile, @,
                                              attempt[s].step, kind, config)]
  /\ UNCHANGED <<scenario, slot, canceller, opener, route, turn, gate, listener, lifecycle,
                 notices>>

Changed(config, source) ==
  {new \in Snapshots :
     /\ source = "current_mode" => new.model = config.model /\ new.effort = config.effort
     /\ Cardinality({field \in DOMAIN new : new[field] # config[field]}) <= 1}

\* A current_mode_update or config_option_update.  One that breaks the Ready
\* contract fails the slot from the reader task.
AgentNotifies(s) ==
  /\ Speaks(s) /\ monitor[s].session /\ attempt[s].step # "ended"
  /\ notices < scenario.notices /\ notices' = notices + 1
  /\ \E source \in {"current_mode", "snapshot"} :
       \E config \in Changed(agent[s].config, source) :
         LET planning == turn[s] = "active"
         IN  /\ agent' = [agent EXCEPT ![s].config = config]
             /\ monitor' = [monitor EXCEPT ![s] =
                              ObserveConfiguration(scenario.profile, @, source, config, planning)]
             /\ IF InvalidAfterReady(scenario.profile, monitor[s], source, config, planning)
                THEN /\ commit_terminal_failure(s)
                     /\ turn' = [turn EXCEPT ![s] = IF @ = "breaking" THEN @ ELSE "none"]
                ELSE UNCHANGED <<slot, lifecycle, turn>>
  /\ UNCHANGED <<scenario, canceller, opener, attempt, route, gate, listener, faults>>

\* A message the protocol forbids here.
AgentViolates(s) ==
  /\ Speaks(s) /\ attempt[s].step # "ended" /\ Fault
  /\ commit_terminal_failure(s)
  /\ attempt' = [attempt EXCEPT ![s].violated = TRUE]
  /\ turn' = [turn EXCEPT ![s] = IF @ = "breaking" THEN @ ELSE "none"]
  /\ UNCHANGED <<scenario, canceller, opener, monitor, agent, route, gate, listener, notices>>

\* The agent's MCP client initializes and lists the tools of its route.
AgentConnects(s) ==
  /\ Speaks(s) /\ route[s] = [phase |-> "new", connections |-> 0] /\ listener = "ready"
  /\ route' = [route EXCEPT ![s] = [phase |-> "ready", connections |-> 1]]
  /\ UNCHANGED <<scenario, slot, canceller, opener, attempt, monitor, agent, turn, gate, listener,
                 lifecycle, faults, notices>>

\* A revoked route cancels its connections.
ConnectionEnds(s) ==
  /\ route[s].connections > 0 /\ (route[s].phase = "revoked" \/ ~agent[s].adapter)
  /\ route' = [route EXCEPT ![s].connections = 0]
  /\ UNCHANGED <<scenario, slot, canceller, opener, attempt, monitor, agent, turn, gate, listener,
                 lifecycle, faults, notices>>

ListenerFails ==
  /\ listener = "ready" /\ Fault
  /\ listener' = "failed"
  /\ UNCHANGED <<scenario, slot, canceller, opener, attempt, monitor, agent, route, turn, gate,
                 lifecycle, notices>>

-----------------------------------------------------------------------------
(* Turns *)

\* release_inner: the prompt is written.
SubmitTurn(s) ==
  /\ Connected(s) /\ attempt[s].step = "worker" /\ slot[s].state = "ready" /\ turn[s] = "none"
  /\ slot' = [slot EXCEPT ![s].state = "active"]
  /\ turn' = [turn EXCEPT ![s] = "active"]
  /\ UNCHANGED <<scenario, canceller, opener, attempt, monitor, agent, route, gate, listener,
                 lifecycle, faults, notices>>

PromptAnswered(s) ==
  /\ Speaks(s) /\ turn[s] = "active" /\ slot[s].state = "active"
  /\ turn' = [turn EXCEPT ![s] = "responded"]
  /\ UNCHANGED <<scenario, slot, canceller, opener, attempt, monitor, agent, route, gate, listener,
                 lifecycle, faults, notices>>

\* Settlement: a session that is not back in its requested mode, or whose turn is
\* uncertain, is broken.  The state changes under the lock, the fact is reported
\* after it.
SettleTurn(s) ==
  /\ turn[s] = "responded" /\ slot[s].state = "active"
  /\ \/ /\ mode_is_restored_for_settlement(monitor[s])
        /\ slot' = [slot EXCEPT ![s].state = "ready"]
        /\ turn' = [turn EXCEPT ![s] = "none"] /\ UNCHANGED faults
     \/ /\ (Fault \/ (~mode_is_restored_for_settlement(monitor[s]) /\ UNCHANGED faults))
        /\ slot' = [slot EXCEPT ![s].state = "broken"]
        /\ turn' = [turn EXCEPT ![s] = "breaking"]
  /\ UNCHANGED <<scenario, canceller, opener, attempt, monitor, agent, route, gate, listener,
                 lifecycle, notices>>

ReportBroken(s) ==
  /\ turn[s] = "breaking"
  /\ turn' = [turn EXCEPT ![s] = "none"]
  /\ lifecycle' = [lifecycle EXCEPT ![s] = observe_broken(@)]
  /\ UNCHANGED <<scenario, slot, canceller, opener, attempt, monitor, agent, route, gate, listener,
                 faults, notices>>

-----------------------------------------------------------------------------
(* Specification *)

Opener(s) ==
  \/ StartOpening(s) \/ EnterGate(s) \/ ObserveAttempt(s) \/ SpawnAgent(s)
  \/ Handshake(s) \/ Complete(s) \/ Revoked(s) \/ CloseControl(s) \/ Reaped(s)
  \/ BackoffEnds(s) \/ FinishOpening(s) \/ ObserveCleanup(s)

Environment(s) ==
  \/ CancelToken(s) \/ AdapterExits(s) \/ StreamEnds(s) \/ AgentAnswers(s) \/ AgentNotifies(s)
  \/ AgentViolates(s) \/ AgentConnects(s) \/ SubmitTurn(s) \/ PromptAnswered(s)

Runtime(s) ==
  Cancel(s) \/ Opener(s) \/ GuardianCleans(s) \/ ConnectionEnds(s) \/ SettleTurn(s)
  \/ ReportBroken(s)

Next == ListenerFails \/ \E s \in Sessions : Runtime(s) \/ Environment(s)

\* Every task, the guardian process and every connection keep running; the agent
\* need not do anything.
Fairness ==
  \A s \in Sessions : WF_vars(Opener(s) \/ Cancel(s) \/ GuardianCleans(s) \/ ConnectionEnds(s))

Spec == Init /\ [][Next]_vars /\ Fairness

-----------------------------------------------------------------------------
(* Properties *)

\* A session that offers itself for turns is configured as its actor asked: while
\* the slot is Ready and not cancelled the agent's mode, model and effort are the requested ones,
\* whatever the agent reported, ignored or changed during the handshake and
\* during earlier turns (an unspecified effort is only pinned by the contract).
ReadyIsConfigured ==
  \A s \in Sessions : slot[s].state = "ready" /\ ~cancelled(s) =>
    /\ scenario.profile.legacy \/ agent[s].config.mode = "want"
    /\ agent[s].config.model = "want"
    /\ scenario.profile.effort => agent[s].config.effort = "want"

\* What an attempt started is gone before anything comes after it: no process of
\* the agent, no guardian and no connection of its route is left when the opening
\* task backs off, starts another attempt or reports its cleanup, and a task that
\* has returned does not lead the preparation gate.
NothingOutlivesCleanup ==
  \A s \in Sessions :
    /\ opener[s].pc \in {"start", "gate", "attempt", "spawn", "backoff", "cleanup", "finishing",
                         "done"} =>
         /\ ~agent[s].adapter /\ ~agent[s].children /\ agent[s].guardian = "none"
         /\ route[s] = [phase |-> "none", connections |-> 0]
    /\ slot[s].cleanup => gate.leader # s

\* When a cancelled session's cancel() and opening task have returned, the slot is
\* Closed and diagnostics have seen it close: no span of the session is left open,
\* and every Ready, closing and closed fact was accepted.
LifecycleCloses ==
  \A s \in Sessions : canceller[s] = "done" /\ opener[s].pc = "done" =>
    /\ slot[s].state = "closed" /\ slot[s].cleanup
    /\ lifecycle[s].closed /\ ~lifecycle[s].lifecycle_span /\ ~lifecycle[s].closing_span
    /\ lifecycle[s].opening_span = 0
    /\ lifecycle[s].refused \subseteq {"attempt", "broken"}

\* A cancelled session is closed, even when its agent answers nothing, ignores its
\* signals or leaves processes behind.
CancelledSessionsClose ==
  []<>(\A s \in Sessions : canceller[s] # "idle" => slot[s].state = "closed")

\* A session that is over left nothing: no process, connection or lease of its
\* attempts, and no open span in the diagnostics.
SessionsCleanUp == NothingOutlivesCleanup /\ LifecycleCloses
=============================================================================
