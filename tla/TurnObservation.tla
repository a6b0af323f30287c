-------------------------- MODULE TurnObservation --------------------------
(***************************************************************************)
(* What the diagnostics record of one agent turn.                          *)
(*                                                                         *)
(* The connection handler receives the agent's updates one at a time; each *)
(* update becomes a few observations, and every observation is one step of *)
(* the observation bridge under its lock. The result tool observes its     *)
(* transitions from another task, and the turn is ended by the task that   *)
(* settles or breaks it. The bridge keeps a projection of the turn and     *)
(* publishes canonical events to the Run's log and to the Act's sink.      *)
(***************************************************************************)
EXTENDS TurnNormalizers, FiniteSets, TLC

CONSTANTS Scenarios,   \* what the agent may send, see MCTurnObservation
          MaxRepairs   \* invalid results that may still be repaired

VARIABLES scenario,  \* the environment of this behaviour
          budget,    \* updates the agent may still send
          clock,     \* the Run clock
          phase,     \* the turn: submitted, responded, terminal
          registered,\* the session still names the turn as its submitted one
          lineage,   \* the Act's lineage is still published
          handling,  \* observations of the update being handled
          slot,      \* the result slot: state, invalid calls, observations left
          bridge,    \* BridgeState
          log,       \* the canonical events of the turn and its session
          sink,      \* the Act's sink: payload state and projected events
          refused,   \* observations the bridge refused
          sent       \* chunks that reached the message normalizer, for the properties

vars == <<scenario, budget, clock, phase, registered, lineage, handling, slot,
          bridge, log, sink, refused, sent>>

(************************** The Act's sink ********************************)

NewSink == [pending |-> <<>>, accepted |-> 0, events |-> <<>>]

\* The events of the Act that a capture configuration selects.
event_selected(capture, e) ==
  CASE e.kind \in {"delta", "completed", "thinking_started", "thinking_finished"} -> capture.messages
    [] e.kind \in {"tool_started", "tool_updated", "tool_finished"} -> capture.tools
    [] e.kind = "plan" -> capture.plans
    [] e.kind = "context" -> capture.usage
    [] e.kind \in {"result", "rejections"} -> capture.results
    [] OTHER -> TRUE

payload_source(e) == IF e.kind = "tool_started" THEN "started" ELSE "updated"

\* The first waiting payload of the event's tool and kind of update.
take_payload(pending, e) ==
  IF e.kind \notin {"tool_started", "tool_updated"}
  THEN 0
  ELSE SelectInSeq(pending, LAMBDA p : p.tool = e.tool /\ p.source = payload_source(e))

deliver_projected(s, e, sequence) ==
  LET i == take_payload(s.pending, e)
      rest == IF i = 0 THEN s.pending ELSE RemoveAt(s.pending, i)
      event == [sequence |-> sequence,
                input |-> IF i = 0 THEN Absent ELSE s.pending[i].input,
                output |-> IF i = 0 THEN Absent ELSE s.pending[i].output]
  IN  [s EXCEPT !.pending = rest,
                !.events = IF event_selected(scenario.capture, e) THEN Append(@, event) ELSE @]

\* A payload is charged to the Act's budget when it is handed to the sink.
deliver_tool_payload(s, payload) ==
  LET applied == apply_act_budget(payload, s.accepted)
  IN  [s EXCEPT !.pending = Append(@, applied.payload), !.accepted = applied.accepted]

(************************ Admission of one event **************************)

\* The bridge works on w: its own state, the log, the sink and the code of
\* the error an observation ends with.
World == [bridge |-> bridge, log |-> log, sink |-> sink, error |-> "none"]

Fail(w, code) == [w EXCEPT !.error = code]

admit_event(w, e) ==
  [w EXCEPT !.log = Append(@, e),
            !.sink = IF e.act THEN deliver_projected(@, e, Len(w.log) + 1) ELSE @]

\* An event of the turn follows from the turn's last one.
admit_turn_event(w, e) ==
  LET next == admit_event(w, e @@ [act |-> TRUE, cause |-> w.bridge.turn.last])
  IN  [next EXCEPT !.bridge.turn.last = Len(next.log)]

(************************ The turn's projection ***************************)

\* Sequence 1 is the session's lifecycle span, sequence 2 the turn's span.
SessionSpan == 1
TurnSpan == 2

NoTurn == [live |-> FALSE]

NewTurn(born) ==
  [live |-> TRUE, messages |-> NewMessages(born), thinking |-> NewThinking, tools |-> NewTools,
   thinking_span |-> 0, tool_spans |-> <<>>, payloads |-> <<>>, last |-> TurnSpan,
   rejections |-> 0, pending_rejection |-> 0]

\* No context sample of this session generation yet.
NoContext == [generation |-> 0, sequence |-> 0, act |-> FALSE]

ensure_turn(w) ==
  IF w.bridge.turn.live
  THEN w
  ELSE [w EXCEPT !.bridge.turn = NewTurn(w.bridge.born + 1), !.bridge.born = @ + 1]

project_message_candidates(w, step) ==
  FoldLeft(admit_turn_event, [w EXCEPT !.bridge.turn.messages = step.n], step.out)

flush_messages(w) ==
  IF w.bridge.turn.messages.terminal
  THEN Fail(w, "turn_already_terminal")
  ELSE project_message_candidates(w, observe_other_candidate(w.bridge.turn.messages))

project_thinking(w, candidate) ==
  LET misplaced == \/ candidate = "start" /\ w.bridge.turn.thinking_span # 0
                   \/ candidate \in {"progress", "finish"} /\ w.bridge.turn.thinking_span = 0
  IN  IF w.error # "none" THEN w
      ELSE IF misplaced THEN Fail(w, "thinking_transition_invalid")
      ELSE CASE candidate = "start" ->
                  LET next == admit_turn_event(w, [kind |-> "thinking_started"])
                  IN  [next EXCEPT !.bridge.turn.thinking_span = Len(next.log)]
             [] candidate = "finish" ->
                  LET next == admit_turn_event(w, [kind |-> "thinking_finished",
                                                   span |-> w.bridge.turn.thinking_span])
                  IN  [next EXCEPT !.bridge.turn.thinking_span = 0]
             [] candidate = "progress" -> w
             [] OTHER -> admit_turn_event(w, [kind |-> "thinking_gap"])

\* The span of a source tool call, 0 if none was started.
ToolSpan(turn, tool) == SelectInSeq(turn.tool_spans, LAMBDA s : s.tool = tool)

\* The payload of the same source call and kind of update that came first.
deliver_pending_tool_payload(w, tool, source) ==
  LET payloads == w.bridge.turn.payloads
      i == SelectInSeq(payloads, LAMBDA p : p.tool = tool /\ p.source = source)
  IN  IF i = 0
      THEN w
      ELSE [w EXCEPT !.bridge.turn.payloads = RemoveAt(@, i),
                     !.sink = deliver_tool_payload(@, payloads[i])]

project_tool(w, c) ==
  LET i == ToolSpan(w.bridge.turn, c.tool)
      known == i # 0
      open == known /\ ~w.bridge.turn.tool_spans[i].finished
      span == IF known THEN w.bridge.turn.tool_spans[i].span ELSE 0
      misplaced == \/ c.kind = "tool_started" /\ known
                   \/ c.kind \in {"tool_updated", "tool_finished"} /\ ~open
  IN  IF w.error # "none" THEN w
      ELSE IF misplaced THEN Fail(w, "tool_transition_invalid")
      ELSE CASE c.kind = "tool_started" ->
                  LET next == admit_turn_event(deliver_pending_tool_payload(w, c.tool, "started"), c)
                  IN  [next EXCEPT !.bridge.turn.tool_spans =
                         Append(@, [tool |-> c.tool, span |-> Len(next.log), finished |-> FALSE])]
             [] c.kind = "tool_updated" ->
                  admit_turn_event(deliver_pending_tool_payload(w, c.tool, "updated"), c)
             [] c.kind = "tool_finished" ->
                  LET next == admit_turn_event(w, c @@ [span |-> span])
                  IN  [next EXCEPT !.bridge.turn.tool_spans[i].finished = TRUE]
             [] OTHER -> admit_turn_event(w, c)

(************************* One observation each ***************************)

message_observed(w, o) ==
  IF w.bridge.turn.messages.terminal
  THEN Fail(w, "turn_already_terminal")
  ELSE project_message_candidates(w, observe_text(w.bridge.turn.messages, o.source, o.text, clock))

thinking_observed(w) ==
  LET flushed == flush_messages(w)
      step == observe_activity(flushed.bridge.turn.thinking)
  IN  FoldLeft(project_thinking, [flushed EXCEPT !.bridge.turn.thinking = step.n], step.out)

tool_observed(w, o) ==
  LET flushed == flush_messages(w)
      tools == flushed.bridge.turn.tools
      step == IF o.source = "started" THEN tool_start(tools, o.tool, o.status)
              ELSE tool_update(tools, o.tool, o.status)
  IN  FoldLeft(project_tool, [flushed EXCEPT !.bridge.turn.tools = step.n], step.out)

plan_observed(w, o) ==
  admit_turn_event(flush_messages(w), [kind |-> "plan", plan |-> o.plan])

\* A sample of the context window belongs to the turn the update was sent in,
\* or to the session when none was submitted.
context_observed(w, o) ==
  LET sample == [kind |-> "context", origin |-> "provider", used |-> o.used, cost |-> FALSE]
      next == IF o.turn
              THEN admit_turn_event(flush_messages(w), sample)
              ELSE admit_event(w, sample @@ [act |-> FALSE, cause |-> w.bridge.session_last])
      sequence == Len(next.log)
  IN  [next EXCEPT !.bridge.context = [generation |-> 1, sequence |-> sequence, act |-> o.turn],
                   !.bridge.session_last = IF o.turn THEN @ ELSE sequence]

\* A cost rides on the latest context sample of its session generation.
cost_observed(w) ==
  LET carried == w.bridge.context.generation = 1
      next == admit_event(w, [kind |-> "context", cost |-> TRUE,
                origin |-> IF carried THEN "carried_forward" ELSE "provider",
                used |-> IF carried THEN w.log[w.bridge.context.sequence].used ELSE 0,
                act |-> carried /\ w.bridge.context.act,
                cause |-> IF carried THEN w.bridge.context.sequence ELSE w.bridge.session_last])
  IN  [next EXCEPT !.bridge.session_last = Len(next.log)]

payload_observed(w, o) == [w EXCEPT !.bridge.turn.payloads = Append(@, o.payload)]

\* A rejection is one transition and one counter, nothing in between.
result_observed(w, o) ==
  LET flushed == flush_messages(w)
      turn == flushed.bridge.turn
      next == admit_turn_event(flushed, [kind |-> "result", transition |-> o.transition])
      counted == admit_event(flushed, [kind |-> "rejections", value |-> o.value,
                                       act |-> TRUE, cause |-> turn.pending_rejection])
  IN  IF o.kind = "result"
      THEN IF turn.pending_rejection # 0
           THEN Fail(flushed, "result_transition_invalid")
           ELSE IF o.transition = "rejected"
           THEN [next EXCEPT !.bridge.turn.pending_rejection = Len(next.log)]
           ELSE next
      ELSE IF o.value # turn.rejections + 1 \/ turn.pending_rejection = 0
           THEN Fail(flushed, "result_transition_invalid")
           ELSE [counted EXCEPT !.bridge.turn.pending_rejection = 0,
                                !.bridge.turn.rejections = o.value,
                                !.bridge.turn.last = Len(counted.log)]

\* The end of the turn completes its messages and finishes its spans, and
\* drops the projection. A turn nothing was observed of has none.
turn_terminal(w) ==
  LET messages == project_message_candidates(w, messages_terminal(w.bridge.turn.messages))
      thought == thinking_terminal(messages.bridge.turn.thinking)
      thinking == FoldLeft(project_thinking,
                    [messages EXCEPT !.bridge.turn.thinking = thought.n], thought.out)
      closed == tools_terminal(thinking.bridge.turn.tools)
      tools == FoldLeft(project_tool,
                 [thinking EXCEPT !.bridge.turn.tools = closed.n], closed.out)
  IN  CASE ~w.bridge.turn.live -> w
        [] w.bridge.turn.live /\ messages.bridge.turn.pending_rejection # 0 ->
             Fail(messages, "result_transition_invalid")
        [] OTHER -> [tools EXCEPT !.bridge.turn = NoTurn]

\* An observation about the turn needs the Act's lineage.
observe(o) ==
  IF o.kind = "cost" THEN cost_observed(World)
  ELSE IF o.kind = "context" /\ ~o.turn THEN context_observed(World, o)
  ELSE IF ~lineage THEN Fail(World, "act_lineage_unavailable")
  ELSE LET w == ensure_turn(World)
       IN  CASE o.kind = "message" -> message_observed(w, o)
             [] o.kind = "thinking" -> thinking_observed(w)
             [] o.kind = "plan" -> plan_observed(w, o)
             [] o.kind = "context" -> context_observed(w, o)
             [] o.kind = "payload" -> payload_observed(w, o)
             [] o.kind = "tool" -> tool_observed(w, o)
             [] o.kind \in {"result", "rejections"} -> result_observed(w, o)

Commit(w) ==
  /\ bridge' = w.bridge
  /\ log' = w.log
  /\ sink' = w.sink
  /\ refused' = IF w.error = "none" THEN refused ELSE Append(refused, w.error)

(*************************** The handler's task ***************************)

\* The observations each kind of update makes. Text that is empty, a status
\* of a newer protocol and usage that makes no sense are not observed.
ObserveMessage(u) ==
  IF u.text = <<>> THEN <<>> ELSE <<[kind |-> "message", source |-> u.source, text |-> u.text]>>

ObserveThinking == <<[kind |-> "thinking"]>>

ObservePlan(u) == <<[kind |-> "plan", plan |-> plan_from_acp(u.entries)]>>

ObserveContext(u) ==
  LET valid == context_from_acp(u.used, u.window)
  IN  [i \in DOMAIN valid |-> [kind |-> "context", used |-> valid[i], turn |-> registered]]

ObserveCost(u) ==
  LET valid == cost_from_acp(u.cost) IN [i \in DOMAIN valid |-> [kind |-> "cost"]]

ObservePayload(u) ==
  LET payload == capture_tool_payload(scenario.capture, u.tool, u.source, u.input, u.output)
  IN  IF HasPayload(payload) THEN <<[kind |-> "payload", payload |-> payload]>> ELSE <<>>

ObserveTool(u) ==
  IF u.status = UnknownStatus
  THEN <<>>
  ELSE <<[kind |-> "tool", source |-> u.source, tool |-> u.tool, status |-> u.status]>>

\* In the order the observers are called.
UpdateObservations(u) ==
  CASE u.kind = "chunk" -> ObserveMessage(u)
    [] u.kind = "thought" -> ObserveThinking
    [] u.kind = "plan" -> ObservePlan(u)
    [] u.kind = "usage" -> ObserveContext(u) \o ObserveCost(u)
    [] u.kind = "tool" -> ObservePayload(u) \o ObserveTool(u)

\* The characters of a chunk, told apart by the update that brought them.
Characters(u) ==
  IF u.kind = "chunk"
  THEN [u EXCEPT !.text = [i \in DOMAIN u.text |-> [width |-> u.text[i], chunk |-> budget]]]
  ELSE u

\* An update is accepted while the turn is submitted and unanswered; usage
\* belongs to the session and is accepted at any time.
ReceiveUpdate ==
  /\ handling = <<>>
  /\ budget > 0
  /\ \E u \in scenario.updates :
       /\ u.kind = "usage" \/ phase = "submitted"
       /\ handling' = UpdateObservations(Characters(u))
  /\ budget' = budget - 1
  /\ UNCHANGED <<scenario, clock, phase, registered, lineage, slot, bridge, log, sink, refused, sent>>

ObserveUpdate ==
  /\ handling # <<>>
  /\ Commit(observe(Head(handling)))
  /\ handling' = Tail(handling)
  /\ sent' = IF Head(handling).kind = "message" /\ Len(refused') = Len(refused)
             THEN Append(sent, [born |-> bridge'.born, source |-> Head(handling).source,
                                text |-> Head(handling).text])
             ELSE sent
  /\ UNCHANGED <<scenario, budget, clock, phase, registered, lineage, slot>>

\* The response to the prompt comes through the same handler.
PromptResponse ==
  /\ handling = <<>>
  /\ phase = "submitted"
  /\ phase' = "responded"
  /\ UNCHANGED <<scenario, budget, clock, registered, lineage, handling, slot, bridge, log,
                 sink, refused, sent>>

(*************************** The result tool ******************************)

Transition(t) == [kind |-> "result", transition |-> t]

\* A submission is observed, validated off the lock, and then decided.
SubmitResult ==
  /\ scenario.results > slot.calls
  /\ slot.state = "awaiting" /\ slot.left = <<>>
  /\ slot' = [slot EXCEPT !.calls = @ + 1, !.validating = @ + 1, !.left = <<Transition("submitted")>>]
  /\ UNCHANGED <<scenario, budget, clock, phase, registered, lineage, handling, bridge, log,
                 sink, refused, sent>>

publish_invalid ==
  LET count == slot.invalid + 1
      rejection == <<Transition("rejected"), [kind |-> "rejections", value |-> count]>>
  IN  IF count <= MaxRepairs
      THEN [slot EXCEPT !.invalid = count, !.left = rejection \o <<Transition("repair_requested")>>]
      ELSE [slot EXCEPT !.invalid = count, !.left = rejection, !.state = "rejected"]

accept == [slot EXCEPT !.left = <<Transition("accepted")>>, !.state = "accepted"]

DecideResult ==
  /\ slot.validating > 0 /\ slot.left = <<>>
  /\ \E decided \in IF slot.state = "awaiting" THEN {publish_invalid, accept} ELSE {slot} :
       slot' = [decided EXCEPT !.validating = @ - 1]
  /\ UNCHANGED <<scenario, budget, clock, phase, registered, lineage, handling, bridge, log,
                 sink, refused, sent>>

\* The observations of a decision are made one by one under the slot's lock.
ObserveResult ==
  /\ slot.left # <<>>
  /\ Commit(observe(Head(slot.left)))
  /\ slot' = [slot EXCEPT !.left = Tail(@)]
  /\ UNCHANGED <<scenario, budget, clock, phase, registered, lineage, handling, sent>>

(****************************** The turn **********************************)

\* Settling the turn disarms the slot, which observes a missing result.
PrepareSettlement ==
  /\ phase \in {"submitted", "responded"}
  /\ slot.left = <<>> /\ slot.state # "disarmed"
  /\ slot' = [slot EXCEPT !.state = "disarmed",
                          !.left = IF slot.state = "awaiting" /\ slot.invalid = 0
                                   THEN <<Transition("missing")>> ELSE <<>>]
  /\ UNCHANGED <<scenario, budget, clock, phase, registered, lineage, handling, bridge, log,
                 sink, refused, sent>>

\* The terminal of the turn is observed once, after its result.
ObserveTerminal ==
  /\ phase \in {"submitted", "responded"}
  /\ slot.state = "disarmed" /\ slot.left = <<>>
  /\ phase' = "terminal"
  /\ Commit(turn_terminal(World))
  /\ UNCHANGED <<scenario, budget, clock, registered, lineage, handling, slot, sent>>

\* The session forgets the turn when its guard is dropped.
ReleaseTurn ==
  /\ phase = "terminal" /\ registered
  /\ registered' = FALSE
  /\ UNCHANGED <<scenario, budget, clock, phase, lineage, handling, slot, bridge, log, sink,
                 refused, sent>>

\* The Act ends and its lineage goes.
EndAct ==
  /\ phase = "terminal" /\ lineage
  /\ lineage' = FALSE
  /\ UNCHANGED <<scenario, budget, clock, phase, registered, handling, slot, bridge, log, sink,
                 refused, sent>>

Tick ==
  /\ clock < scenario.clock
  /\ clock' = clock + 1
  /\ UNCHANGED <<scenario, budget, phase, registered, lineage, handling, slot, bridge, log,
                 sink, refused, sent>>

Init ==
  /\ scenario \in Scenarios
  /\ budget = scenario.budget
  /\ clock = 0
  /\ phase = "submitted"
  /\ registered = TRUE
  /\ lineage = TRUE
  /\ handling = <<>>
  /\ slot = [state |-> scenario.slot, invalid |-> 0, calls |-> 0, validating |-> 0, left |-> <<>>]
  /\ bridge = [turn |-> NoTurn, born |-> 0, session_last |-> SessionSpan, context |-> NoContext]
  /\ log = <<[kind |-> "session", act |-> FALSE, cause |-> 0],
             [kind |-> "turn", act |-> TRUE, cause |-> 0]>>
  /\ sink = NewSink
  /\ refused = <<>>
  /\ sent = <<>>

Next ==
  \/ ReceiveUpdate
  \/ ObserveUpdate
  \/ PromptResponse
  \/ SubmitResult
  \/ DecideResult
  \/ ObserveResult
  \/ PrepareSettlement
  \/ ObserveTerminal
  \/ ReleaseTurn
  \/ EndAct
  \/ Tick

Spec == Init /\ [][Next]_vars

(****************************** Properties ********************************)

EventsOf(kinds) == {i \in DOMAIN log : log[i].kind \in kinds}

\* The chunk that opened the message chunk i belongs to: all chunks without an
\* identity make one message, a run of chunks of one source message another.
Opener(i) ==
  LET same(j) == sent[j].born = sent[i].born /\ sent[j].source = sent[i].source
      others(j) == {k \in j..i : sent[k].born = sent[i].born
                                  /\ sent[k].source \notin {Anonymous, sent[i].source}}
  IN  CHOOSE j \in 1..i :
        /\ same(j)
        /\ sent[i].source = Anonymous \/ others(j) = {}
        /\ \A k \in 1..(j - 1) : same(k) => sent[i].source # Anonymous /\ others(k) # {}

\* The text the agent sent for the message that chunk i opened.
SentText(i) ==
  FoldLeft(LAMBDA text, j : IF Opener(j) = i THEN text \o sent[j].text ELSE text,
           <<>>, [j \in DOMAIN sent |-> j])

\* Its identity: messages are numbered in the order they are opened.
MessageOf(i) ==
  <<sent[i].born, Cardinality({j \in 1..i : Opener(j) = j /\ sent[j].born = sent[i].born})>>

\* The text the log has of a message.
LoggedText(id) ==
  FoldLeft(LAMBDA text, e : IF e.kind = "delta" /\ e.id = id THEN text \o e.text ELSE text,
           <<>>, log)

\* The bytes the log has of all messages of one projection.
LoggedBytes(born) ==
  FoldLeft(LAMBDA n, e : IF e.kind = "delta" /\ e.id[1] = born THEN n + Bytes(e.text) ELSE n, 0, log)

\* The deltas of a message put together are what the agent sent for it: a
\* prefix cut at a character, complete unless the completion says truncated,
\* and truncated only when the next character would have passed the limit of
\* the message or of the Act. The completion counts exactly the logged text
\* and comes after it, no delta passes the flush size, and a turn that is
\* over has completed every message (message.rs, project_message_candidates).
MessagesReassemble ==
  /\ \A i \in EventsOf({"delta"}) : log[i].text # <<>> /\ Bytes(log[i].text) <= FlushBytes
  /\ \A i \in EventsOf({"completed"}) :
       /\ log[i].bytes = Bytes(LoggedText(log[i].id)) /\ log[i].bytes <= MessageMaxBytes
       /\ log[i].scalars = Len(LoggedText(log[i].id))
       /\ \A j \in EventsOf({"delta", "completed"}) : log[j].id = log[i].id => j <= i
  /\ \A i \in {j \in DOMAIN sent : Opener(j) = j} :
       LET id == MessageOf(i)
           logged == LoggedText(id)
           whole == SentText(i)
           ends == {j \in EventsOf({"completed"}) : log[j].id = id}
       IN  /\ IsPrefix(logged, whole)
           /\ \A j \in ends :
                /\ log[j].truncated = (logged # whole)
                /\ logged # whole =>
                     LET lost == whole[Len(logged) + 1].width
                     IN  \/ Bytes(logged) + lost > MessageMaxBytes
                         \/ LoggedBytes(id[1]) + lost > ActMessagesMaxBytes
           /\ ~bridge.turn.live => ends # {}

OpenSpans ==
  {i \in EventsOf({"thinking_started", "tool_started"}) :
     \A j \in EventsOf({"thinking_finished", "tool_finished"}) : log[j].span # i}

\* The normalizers, the projection and the log agree on the spans that are
\* open: nothing is finished twice, a turn that is over left none behind, and
\* so the bridge refuses no observation of a turn whose Act is still running,
\* which would fail the Run (project_thinking_candidates, project_tool_candidates).
SpansMatchProjection ==
  /\ \A i, j \in EventsOf({"thinking_finished", "tool_finished"}) :
       log[i].span = log[j].span => i = j
  /\ OpenSpans =
       IF ~bridge.turn.live THEN {}
       ELSE {s \in {bridge.turn.thinking_span} : s # 0}
            \cup {bridge.turn.tool_spans[i].span : i \in
                    {k \in DOMAIN bridge.turn.tool_spans : ~bridge.turn.tool_spans[k].finished}}
  /\ \A i \in DOMAIN refused : refused[i] = "act_lineage_unavailable" /\ ~lineage

\* Rejected results are counted one by one: the k-th counter of the turn has
\* value k and is caused by the k-th rejection, and no other transition comes
\* between a rejection and its counter (publish_invalid, result_observed).
RejectionsAreCounted ==
  LET results == SelectSeq(log, LAMBDA e : e.kind \in {"result", "rejections"})
      counters == SelectSeq(log, LAMBDA e : e.kind = "rejections")
      rejected(e) == e.kind = "result" /\ e.transition = "rejected"
  IN  /\ \A k \in DOMAIN counters : counters[k].value = k /\ rejected(log[counters[k].cause])
      /\ \A k \in DOMAIN results : rejected(results[k]) =>
           \/ k = Len(results) /\ slot.left # <<>>
           \/ k < Len(results) /\ results[k + 1].kind = "rejections"

Directions(e) == {e.input, e.output} \ {Absent}

\* The bytes captured for an event.
CapturedBytes(e) ==
  (IF e.input.kind = "captured" THEN e.input.bytes ELSE 0)
  + (IF e.output.kind = "captured" THEN e.output.bytes ELSE 0)

\* Tool payloads reach the sink on the start or update of a tool only, never
\* more than the Act's budget in all and never one above the snapshot limit,
\* and a direction is cut only when it is above a limit: what the sink was
\* handed and what the budget was charged agree (apply_act_budget).
PayloadsAreAccounted ==
  LET events == {sink.events[i] : i \in DOMAIN sink.events}
      delivered == FoldLeft(LAMBDA n, e : n + CapturedBytes(e), 0, sink.events)
  IN  /\ sink.pending = <<>>
      /\ delivered = sink.accepted /\ sink.accepted <= ActPayloadMaxBytes
      /\ \A e \in events : Directions(e) # {} => log[e.sequence].kind \in {"tool_started", "tool_updated"}
      /\ \A e \in events : \A d \in Directions(e) :
           d.kind = "captured" => d.bytes <= SnapshotMaxBytes

\* A cost carries the occupancy of the last context sample before it, and
\* names that sample as its cause (cost_observed).
CostCarriesLatestContext ==
  \A i \in EventsOf({"context"}) : log[i].cost =>
    LET before == {j \in EventsOf({"context"}) : j < i /\ ~log[j].cost}
    IN  IF before = {}
        THEN log[i].origin = "provider" /\ log[i].used = 0
        ELSE /\ log[i].cause \in before
             /\ \A j \in before : j <= log[i].cause
             /\ log[i].used = log[log[i].cause].used

\* The log tells the turn as it was: what it says an agent wrote is what it wrote,
\* what the sink was handed is what its budget was charged, spans pair up,
\* rejections are counted and a cost stands on the occupancy it was reported with.
ObservationsAreFaithful ==
  /\ MessagesReassemble /\ PayloadsAreAccounted /\ SpansMatchProjection
  /\ RejectionsAreCounted /\ CostCarriesLatestContext
=============================================================================
