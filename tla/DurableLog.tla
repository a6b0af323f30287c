----------------------------- MODULE DurableLog -----------------------------
(***************************************************************************)
(* What the diagnostic pipeline promises of a Run's archive, whatever the  *)
(* threads, queues and failures in between: the events accepted so far are *)
(* the numbers 1 .. accepted; the archive always holds a prefix of them;   *)
(* and an archive marked clean_shutdown holds them all, for good.          *)
(***************************************************************************)
EXTENDS Naturals

CONSTANT Limit          \* the largest sequence number

VARIABLES accepted,     \* events accepted by the hub
          stored,       \* events in the archive
          clean         \* clean_shutdown

logVars == <<accepted, stored, clean>>

LogInit == accepted = 0 /\ stored = 0 /\ clean = FALSE

LogAccept ==
  /\ ~ clean
  /\ accepted < Limit
  /\ accepted' = accepted + 1
  /\ UNCHANGED <<stored, clean>>

LogStore ==
  /\ ~ clean
  /\ stored' \in stored + 1 .. accepted
  /\ UNCHANGED <<accepted, clean>>

LogFinalize ==
  /\ stored = accepted
  /\ clean' = TRUE
  /\ UNCHANGED <<accepted, stored>>

LogSpec == LogInit /\ [][LogAccept \/ LogStore \/ LogFinalize]_logVars
=============================================================================
