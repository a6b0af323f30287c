---------------------------- MODULE MCProduction ----------------------------
(***************************************************************************)
(* A Run and its Acts, for TLC.  A behaviour is one Run with its Scenes    *)
(* and the casts of its Actors, where a story fixes what happens in it; or *)
(* it is the life of one Act among its producer, its turn and the usage    *)
(* router; or it is one turn in detail, where a scenario fixes what the    *)
(* agent may send, how many updates, what the sink captures and how often  *)
(* a result is tried.                                                      *)
(***************************************************************************)
EXTENDS TurnObservation, ActDiagnostics, ActorCasting

VARIABLE part

Everything == [messages |-> TRUE, tools |-> TRUE, plans |-> TRUE, usage |-> TRUE,
               results |-> TRUE, inputs |-> TRUE, outputs |-> TRUE]

Chunk(source, text) == [kind |-> "chunk", source |-> source, text |-> text]
Thought == [kind |-> "thought"]
Plan(entries) == [kind |-> "plan", entries |-> entries]
Usage(context, cost) == [kind |-> "usage", used |-> context, window |-> 2, cost |-> cost]
ToolCall(tool, status, input, output) ==
  [kind |-> "tool", source |-> "started", tool |-> tool, status |-> status,
   input |-> input, output |-> output]
ToolCallUpdate(tool, status, input, output) ==
  [kind |-> "tool", source |-> "updated", tool |-> tool, status |-> status,
   input |-> input, output |-> output]

Value(bytes) == [depth |-> 1, nodes |-> 1, bytes |-> bytes, typed |-> TRUE]
Deep == [depth |-> 3, nodes |-> 1, bytes |-> 1, typed |-> TRUE]
Untyped == [depth |-> 1, nodes |-> 1, bytes |-> 1, typed |-> FALSE]

\* Text of one message after the other, interleaved with anonymous text.
Messages ==
  [updates |-> {Chunk(s, t) : s \in {Anonymous, "a", "b"}, t \in {<<2>>, <<1, 2, 1>>}} \cup {Thought},
   budget |-> 4, capture |-> Everything, slot |-> "accepted", results |-> 0, clock |-> 1]

\* Two tools, every status, no payloads.
Tools ==
  [updates |-> {ToolCall(t, s, <<>>, <<>>) : t \in {"t", "u"}, s \in {"pending", "in_progress", "completed"}}
               \cup {ToolCallUpdate("t", s, <<>>, <<>>) :
                        s \in {NoStatus, "pending", "in_progress", "failed", UnknownStatus}}
               \cup {Thought},
   budget |-> 4, capture |-> [Everything EXCEPT !.messages = FALSE],
   slot |-> "accepted", results |-> 0, clock |-> 0]

\* One tool whose updates carry payloads at and above the limits.
Payloads ==
  [updates |-> {ToolCall("t", "in_progress", <<>>, <<>>),
                ToolCall("t", "in_progress", <<Value(2)>>, <<>>),
                ToolCall("t", "pending", <<Deep>>, <<Value(1), Value(1)>>),
                ToolCallUpdate("t", NoStatus, <<Value(3)>>, <<>>),
                ToolCallUpdate("t", NoStatus, <<Value(1)>>, <<Value(2)>>),
                ToolCallUpdate("t", "pending", <<>>, <<Value(1), Untyped>>),
                ToolCallUpdate("t", "completed", <<>>, <<Value(2)>>)},
   budget |-> 4, capture |-> Everything, slot |-> "accepted", results |-> 0, clock |-> 0]

\* The result tool beside text and plans.
Results ==
  [updates |-> {Chunk(Anonymous, <<1>>), Plan(<<[bytes |-> 2, known |-> TRUE]>>), Usage(2, "valid")},
   budget |-> 2, capture |-> [Everything EXCEPT !.plans = FALSE],
   slot |-> "awaiting", results |-> 2, clock |-> 0]

\* Samples of the context with and without a cost, right and wrong.
Samples ==
  [updates |-> {Chunk(Anonymous, <<1>>), Usage(1, "none"), Usage(2, "valid"), Usage(3, "valid"),
                Usage(3, "invalid")},
   budget |-> 4, capture |-> Everything, slot |-> "awaiting", results |-> 0, clock |-> 0]

\* Nothing of the turn.
Silence == [updates |-> {}, budget |-> 0, slot |-> "awaiting"]

MCScenarios == {Messages, Tools, Payloads, Results, Samples, Silence}

-----------------------------------------------------------------------------
Story(scene_bound, replaced_bound, fault_bound, ends, calls) ==
  [scenes |-> scene_bound, replacements |-> replaced_bound, faults |-> fault_bound,
   results |-> ends, casts |-> calls]
AnyEnd == {"none", "cancelled", "error"}
NoStory == Story(0, 0, 0, {}, {})

\* Two Scenes and a task factory that may be replaced; the same with one Scene and a
\* failure of the diagnostics; a cast that meets a Scene, or such a failure; two
\* casts of the same name.
MCStories ==
  {Story(2, 1, 0, AnyEnd, {}), Story(1, 1, 1, AnyEnd, {}),
   Story(1, 0, 0, {"none"}, {"c1"}), Story(0, 0, 1, {"none"}, {"c1"}),
   Story(0, 0, 0, {"none"}, {"c1", "c2"}), NoStory}
MCNameOf == [c \in Casts |-> "actor"]

-----------------------------------------------------------------------------
mcVars == <<vars, actVars, prodVars, part>>

MCInit ==
  /\ Init /\ ActInit /\ ProdInit /\ part \in {"act", "turn", "run"}
  /\ part = "turn" <=> scenario # Silence
  /\ part = "run" <=> story # NoStory

Acting == part = "act" /\ ActNext /\ UNCHANGED <<vars, prodVars, part>>
Observing == part = "turn" /\ Next /\ UNCHANGED <<actVars, prodVars, part>>
Producing == part = "run" /\ ProdNext /\ UNCHANGED <<vars, actVars, part>>

MCSpec == MCInit /\ [][Acting \/ Observing \/ Producing]_mcVars
=============================================================================
