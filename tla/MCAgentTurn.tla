---------------------------- MODULE MCAgentTurn ----------------------------
(* Instances of AgentTurn for TLC. *)
EXTENDS AgentTurn, TLC

AllResponses == {"end", "stop", "requestFailed", "providerFailed", "lost"}
OnlyEnd == {"end"}

AllFaults == {"exit", "violation", "mode", "send", "callback"}
ModeFault == {"mode"}

\* A run without the shutdown of the session.
NoShutdown == closer = "idle"

\* The calls, and the requests, are interchangeable.
Symmetry == Permutations(Calls) \union Permutations(Requests)
=============================================================================
