------------------------ MODULE MCDiagnosticPipeline ------------------------
(***************************************************************************)
(* An instance of DiagnosticPipeline for TLC.                              *)
(***************************************************************************)
EXTENDS DiagnosticPipeline

\* Events of equal length with everything that may go wrong; or a Run of
\* events of two lengths, where both budgets and both capture thresholds bite,
\* and nothing goes wrong but a slow shutdown.
Failing ==
  [last |-> 3, cues |-> 1, sizes |-> {1},
   faults |-> {"store", "refresh", "quota", "stall", "time", "services", "reference", "clock"}]
Capturing == [last |-> 4, cues |-> 2, sizes |-> {1, 2}, faults |-> {"time"}]

MCSetups == {Failing, Capturing}
=============================================================================
