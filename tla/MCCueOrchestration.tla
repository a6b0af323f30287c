------------------------- MODULE MCCueOrchestration -------------------------
(***************************************************************************)
(* Instances of CueOrchestration for TLC.                                  *)
(***************************************************************************)
EXTENDS CueOrchestration, TLC

CONSTANTS a1, a2, s1, s2, c1, c2, c3, c4

AllResults == {"valid", "invalid", "cancelled", "error"}
AllFaults == {"admission", "dispatch", "attachment", "task_cancel",
              "caller_cancels", "caller_throws", "caller_closes", "actor_dropped"}

\* Fewer, where there are four Cues.
SomeResults == {"valid"}
SomeFaults == {"dispatch", "caller_cancels"}

\* Two Cues of one Scene for the same Actor.
PairTarget == [c \in Cues |-> a1]
PairHome == [c \in Cues |-> s1]
PairCaller == [c \in Cues |-> None]

\* Three Cues for one Actor from two Scenes, which share its mailbox, and a Cue
\* that the first of them makes from its own task.
SharedTarget == (c1 :> a1) @@ (c2 :> a1) @@ (c3 :> a1) @@ (c4 :> a2)
SharedHome == (c1 :> s1) @@ (c2 :> s1) @@ (c3 :> s2) @@ (c4 :> s1)
SharedCaller == (c1 :> None) @@ (c2 :> None) @@ (c3 :> None) @@ (c4 :> c1)
=============================================================================
