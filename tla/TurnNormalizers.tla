-------------------------- MODULE TurnNormalizers --------------------------
(***************************************************************************)
(* The normalizers of one agent turn: they turn the raw updates an agent   *)
(* sends over ACP into the candidates the observation bridge publishes.    *)
(* Message text is cut into bounded deltas, thinking and tool updates into *)
(* spans, tool payloads into sized snapshots under a per-Act budget.       *)
(*                                                                         *)
(* Every normalizer is a record, and an operation maps [n, out] (the       *)
(* normalizer and the candidates it has produced) to the next such pair.   *)
(***************************************************************************)
EXTENDS Naturals, Sequences, SequencesExt

CONSTANTS FlushBytes,           \* bytes that flush a pending delta
          FlushAge,             \* age that flushes a pending delta
          MessageMaxBytes,      \* bytes captured of one message
          ActMessagesMaxBytes,  \* bytes captured of all messages of an Act
          PlanMaxBytes,         \* canonical bytes of a plan snapshot
          PayloadMaxDepth,      \* nesting of a captured tool payload
          PayloadMaxNodes,      \* JSON nodes of a captured tool payload
          SnapshotMaxBytes,     \* bytes of one captured tool payload
          ActPayloadMaxBytes    \* bytes of the tool payloads of an Act

(***************************** Agent messages *****************************)

\* Text is a sequence of characters; a character has a width in bytes.
Bytes(text) == FoldLeft(LAMBDA n, c : n + c.width, 0, text)

\* The longest prefix of whole characters within limit bytes.
utf8_prefix(text, limit) ==
  LET fits(n) == Bytes(SubSeq(text, 1, n)) <= limit
  IN  SubSeq(text, 1, CHOOSE n \in 0..Len(text) :
                        fits(n) /\ (n < Len(text) => ~fits(n + 1)))

Anonymous == "anonymous"
NoMessage == <<0, 0>>
NoDelta == [id |-> NoMessage, text |-> <<>>, at |-> 0]

\* A fresh normalizer. A message identity is random in the code; here it is
\* the projection the message belongs to and its number in it.
NewMessages(born) ==
  [open |-> <<>>, active |-> NoMessage, completed |-> {}, next |-> <<born, 1>>,
   pending |-> NoDelta, captured |-> 0, terminal |-> FALSE]

MessagePosition(n, id) == CHOOSE i \in DOMAIN n.open : n.open[i].id = id

flush_pending(s) ==
  IF s.n.pending.id = NoMessage
  THEN s
  ELSE [n |-> [s.n EXCEPT !.pending = NoDelta],
        out |-> Append(s.out, [kind |-> "delta", id |-> s.n.pending.id,
                               text |-> s.n.pending.text])]

flush_if_elapsed(s, now) ==
  IF now >= s.n.pending.at + FlushAge THEN flush_pending(s) ELSE s

Completion(m) == [kind |-> "completed", id |-> m.id, bytes |-> m.bytes,
                  scalars |-> m.scalars, truncated |-> m.truncated]

complete_message(s, id) ==
  LET i == MessagePosition(s.n, id)
      m == s.n.open[i]
  IN  [n |-> [s.n EXCEPT !.open = RemoveAt(@, i), !.completed = @ \cup {m.source}],
       out |-> Append(s.out, Completion(m))]

OpenMessage(s, source) ==
  [s EXCEPT !.n.open = Append(@, [id |-> s.n.next, source |-> source, bytes |-> 0,
                                  scalars |-> 0, truncated |-> FALSE]),
            !.n.next = <<@[1], @[2] + 1>>]

\* Chunks without an identity share one message until the turn ends. A chunk
\* of another source message completes the one before it, and a source
\* message that was completed already comes back as a new one, with a gap.
message_for_source(s, source) ==
  LET same == {i \in DOMAIN s.n.open : s.n.open[i].source = source}
      flushed == flush_pending(s)
      closed == IF flushed.n.active = NoMessage
                THEN flushed
                ELSE complete_message(flushed, flushed.n.active)
      opened == OpenMessage(closed, source)
      active == [opened EXCEPT !.n.active = closed.n.next]
  IN  IF same # {}
      THEN [s |-> s, id |-> s.n.open[CHOOSE i \in same : TRUE].id]
      ELSE IF source = Anonymous
      THEN [s |-> OpenMessage(s, source), id |-> s.n.next]
      ELSE [s |-> IF source \in closed.n.completed
                  THEN [active EXCEPT !.out = Append(@, [kind |-> "message_gap"])]
                  ELSE active,
            id |-> closed.n.next]

\* One captured character joins the pending delta of its message: a delta of
\* another message, or one the character does not fit into, goes out first.
AppendCharacter(s, id, c, now) ==
  LET full == \/ s.n.pending.id # id
              \/ Bytes(s.n.pending.text) + c.width > FlushBytes
      ready == IF full THEN flush_pending(s) ELSE s
      pending == IF ready.n.pending.id = NoMessage
                 THEN [id |-> id, text |-> <<c>>, at |-> now]
                 ELSE [ready.n.pending EXCEPT !.text = Append(@, c)]
      added == [ready EXCEPT !.n.pending = pending]
  IN  IF Bytes(pending.text) = FlushBytes THEN flush_pending(added) ELSE added

append_captured(s, id, text, now) ==
  FoldLeft(LAMBDA acc, c : AppendCharacter(acc, id, c, now), s, text)

\* A message that was cut in the middle of a chunk is not marked.
CaptureTextUnmarked(s, id, text, now) ==
  LET i == MessagePosition(s.n, id)
      m == s.n.open[i]
      remaining == MessageMaxBytes - m.bytes
      left == ActMessagesMaxBytes - s.n.captured
      captured == utf8_prefix(text, IF remaining < left THEN remaining ELSE left)
      counted == [s EXCEPT !.n.open[i].bytes = @ + Bytes(captured),
                           !.n.open[i].scalars = @ + Len(captured),
                           !.n.open[i].truncated = captured = <<>>,
                           !.n.captured = @ + Bytes(captured)]
  IN  IF m.truncated THEN s ELSE append_captured(counted, id, captured, now)

\* The text of a message is captured up to the limits of the message and of
\* the Act. A message that lost text captures nothing more.
capture_text(s, id, text, now) ==
  LET i == MessagePosition(s.n, id)
      m == s.n.open[i]
      message_remaining == MessageMaxBytes - m.bytes
      act_remaining == ActMessagesMaxBytes - s.n.captured
      captured == utf8_prefix(text, IF message_remaining < act_remaining
                                    THEN message_remaining ELSE act_remaining)
      counted == [s EXCEPT !.n.open[i].bytes = @ + Bytes(captured),
                           !.n.open[i].scalars = @ + Len(captured),
                           !.n.open[i].truncated = Len(captured) < Len(text),
                           !.n.captured = @ + Bytes(captured)]
  IN  IF m.truncated THEN s ELSE append_captured(counted, id, captured, now)

observe_text(n, source, text, now) ==
  LET ready == flush_if_elapsed([n |-> n, out |-> <<>>], now)
      target == message_for_source(ready, source)
  IN  IF text = <<>> THEN ready ELSE capture_text(target.s, target.id, text, now)

observe_other_candidate(n) == flush_pending([n |-> n, out |-> <<>>])

messages_terminal(n) ==
  LET flushed == flush_pending([n |-> n, out |-> <<>>])
      rest == flushed.n.open
  IN  [n |-> [flushed.n EXCEPT !.open = <<>>, !.active = NoMessage, !.terminal = TRUE],
       out |-> flushed.out \o [i \in DOMAIN rest |-> Completion(rest[i])]]

(******************************** Thinking ********************************)

NewThinking == [active |-> FALSE, terminal |-> FALSE]

observe_activity(n) ==
  IF n.terminal
  THEN [n |-> n, out |-> <<"gap">>]
  ELSE [n |-> [n EXCEPT !.active = TRUE], out |-> <<IF n.active THEN "progress" ELSE "start">>]

thinking_terminal(n) ==
  [n |-> [active |-> FALSE, terminal |-> TRUE],
   out |-> IF n.terminal THEN <<"gap">> ELSE IF n.active THEN <<"finish">> ELSE <<>>]

(********************************* Tools **********************************)

NoStatus == "none"          \* an update that leaves the status alone
UnknownStatus == "unknown"  \* a status of a newer protocol

NewTools == [open |-> <<>>, finished |-> {}, terminal |-> FALSE]

OpenTools(n) == {n.open[i].tool : i \in DOMAIN n.open}

valid_status_transition(current, next) ==
  \/ current = "pending"
  \/ current = "in_progress" /\ next # "pending"

IsTerminal(status) == status \in {"completed", "failed"}

ToolGap(n, tool) == [n |-> n, out |-> <<[kind |-> "tool_gap", tool |-> tool]>>]

ToolFinished(tool, outcome) == [kind |-> "tool_finished", tool |-> tool, outcome |-> outcome]

tool_start(n, tool, status) ==
  IF n.terminal \/ tool \in OpenTools(n) \cup n.finished
  THEN ToolGap(n, tool)
  ELSE IF IsTerminal(status)
  THEN [n |-> [n EXCEPT !.finished = @ \cup {tool}],
        out |-> <<[kind |-> "tool_started", tool |-> tool], ToolFinished(tool, status)>>]
  ELSE [n |-> [n EXCEPT !.open = Append(@, [tool |-> tool, status |-> status])],
        out |-> <<[kind |-> "tool_started", tool |-> tool]>>]

\* A finished tool is not remembered as finished.
ToolUpdateForgets(n, tool, status) ==
  LET i == CHOOSE i \in DOMAIN n.open : n.open[i].tool = tool
      next == IF status = NoStatus THEN n.open[i].status ELSE status
      updated == [kind |-> "tool_updated", tool |-> tool]
  IN  IF tool \notin OpenTools(n) \/ ~valid_status_transition(n.open[i].status, next)
      THEN ToolGap(n, tool)
      ELSE IF IsTerminal(next)
      THEN [n |-> [n EXCEPT !.open = RemoveAt(@, i)], out |-> <<updated, ToolFinished(tool, next)>>]
      ELSE [n |-> [n EXCEPT !.open[i].status = next], out |-> <<updated>>]

tool_update(n, tool, status) ==
  LET i == CHOOSE i \in DOMAIN n.open : n.open[i].tool = tool
      next == IF status = NoStatus THEN n.open[i].status ELSE status
      updated == [kind |-> "tool_updated", tool |-> tool]
  IN  IF n.terminal \/ tool \notin OpenTools(n)
      THEN ToolGap(n, tool)
      ELSE IF ~valid_status_transition(n.open[i].status, next)
      THEN ToolGap(n, tool)
      ELSE IF IsTerminal(next)
      THEN [n |-> [n EXCEPT !.open = RemoveAt(@, i), !.finished = @ \cup {tool}],
            out |-> <<updated, ToolFinished(tool, next)>>]
      ELSE [n |-> [n EXCEPT !.open[i].status = next], out |-> <<updated>>]

\* A tool that is still open when the turn ends was cancelled with it.
tools_terminal(n) ==
  IF n.terminal
  THEN ToolGap(n, "none")
  ELSE [n |-> [open |-> <<>>, finished |-> n.finished \cup OpenTools(n), terminal |-> TRUE],
        out |-> [i \in DOMAIN n.open |-> ToolFinished(n.open[i].tool, "cancelled")]]

(************************* Plans, context and cost ************************)

\* A plan is a sequence of entries, each with its canonical bytes; known is
\* FALSE for a priority or a status this build does not know. A plan that
\* cannot be kept whole is kept as an empty, truncated one.
plan_from_acp(entries) ==
  IF \/ \E i \in DOMAIN entries : ~entries[i].known
     \/ FoldLeft(LAMBDA n, entry : n + entry.bytes, 0, entries) > PlanMaxBytes
  THEN [entries |-> <<>>, truncated |-> TRUE]
  ELSE [entries |-> entries, truncated |-> FALSE]

context_from_acp(used, window) == IF used > window THEN <<>> ELSE <<used>>

\* An amount below zero or not finite, or a bad currency, is dropped.
cost_from_acp(cost) == IF cost \in {"none", "invalid"} THEN <<>> ELSE <<cost>>

(***************************** Tool payloads ******************************)

\* A JSON value is known by its nesting, its nodes and its canonical bytes;
\* typed is FALSE for content of a kind this build does not know.
\* Nothing was captured of an absent direction.
Absent == [kind |-> "absent"]
Omitted(reason) == [kind |-> "omitted", reason |-> reason]
Captured(value) == [kind |-> "captured", bytes |-> value.bytes, of |-> value]

\* What the limits say of a value that sits at some depth of the snapshot.
check_resources(value, depth, nodes) ==
  IF ~value.typed THEN "invalid_type"
  ELSE IF depth + value.depth > PayloadMaxDepth THEN "depth_limit"
  ELSE IF nodes + value.nodes > PayloadMaxNodes THEN "node_limit"
  ELSE IF value.bytes > SnapshotMaxBytes THEN "snapshot_byte_limit"
  ELSE "fits"

capture_input(value) ==
  LET verdict == check_resources(value, 0, 0)
  IN  IF verdict = "fits" THEN Captured(value) ELSE Omitted(verdict)

\* An output is its raw value, its content blocks and its locations, checked
\* one after the other against one running total.
capture_output(parts) ==
  LET add(acc, part) ==
        LET total == [part EXCEPT !.bytes = @ + acc.bytes]
            verdict == check_resources(total, 1, acc.nodes)
        IN  IF acc.verdict # "fits" THEN acc
            ELSE [verdict |-> verdict, bytes |-> total.bytes, nodes |-> acc.nodes + part.nodes]
      sum == FoldLeft(add, [verdict |-> "fits", bytes |-> 0, nodes |-> 1], parts)
  IN  IF sum.verdict = "fits"
      THEN [kind |-> "captured", bytes |-> sum.bytes, of |-> parts]
      ELSE Omitted(sum.verdict)

\* The directions the policy selects, of those the update carries.
capture_tool_payload(policy, tool, source, input, output) ==
  [tool |-> tool, source |-> source,
   input |-> IF policy.inputs /\ input # <<>> THEN capture_input(input[1]) ELSE Absent,
   output |-> IF policy.outputs /\ output # <<>> THEN capture_output(output) ELSE Absent]

HasPayload(payload) == payload.input # Absent \/ payload.output # Absent

\* One direction charged to the bytes the Act has left.
AdmitDirection(direction, accepted) ==
  IF direction.kind # "captured"
  THEN [direction |-> direction, accepted |-> accepted]
  ELSE IF accepted + direction.bytes <= ActPayloadMaxBytes
  THEN [direction |-> direction, accepted |-> accepted + direction.bytes]
  ELSE [direction |-> Omitted("act_byte_limit"), accepted |-> accepted]

\* Input is charged before output.
apply_act_budget(payload, accepted) ==
  LET input == AdmitDirection(payload.input, accepted)
      output == AdmitDirection(payload.output, input.accepted)
  IN  [payload |-> [payload EXCEPT !.input = input.direction, !.output = output.direction],
       accepted |-> output.accepted]

=============================================================================
