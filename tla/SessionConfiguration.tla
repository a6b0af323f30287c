------------------------ MODULE SessionConfiguration ------------------------
(***************************************************************************)
(* The configuration contract of an agent session: the mode, model and    *)
(* effort a profile asks for, the snapshots an agent reports, and the      *)
(* monitor that decides whether a session may become, and stay, Ready.     *)
(*                                                                         *)
(* A snapshot gives the current value of each select option.  "want" is    *)
(* the requested value.  "other" stands for any other one, and for an      *)
(* option that is missing, duplicated or not a select; "absent" is an      *)
(* effort option the agent does not advertise.                             *)
(***************************************************************************)
EXTENDS Naturals

Modes == {"want", "plan", "other"}
Models == {"want", "other"}
Efforts == {"want", "other", "absent"}
Snapshots == [mode : Modes, model : Models, effort : Efforts]

\* What a profile asks for and how its adapter is driven: set_mode or a mode
\* option, an effort or the agent's default, an adapter that lets a turn plan.
Profiles == [legacy : BOOLEAN, effort : BOOLEAN, optional : BOOLEAN, plans : BOOLEAN]

require_current(options, id, expected) == options[id] = expected

\* set_mode reports no snapshot, so only the option kind can be checked.
require_applied_mode(profile, options) ==
  profile.legacy \/ require_current(options, "mode", "want")

effective_unspecified_effort(profile, options) ==
  IF options.effort = "absent" /\ ~profile.optional THEN "invalid" ELSE options.effort

\* The effort a Ready session is bound to, or "invalid".
resolve(profile, options) ==
  IF ~(require_applied_mode(profile, options) /\ require_current(options, "model", "want"))
  THEN "invalid"
  ELSE IF profile.effort THEN IF options.effort = "want" THEN "want" ELSE "invalid"
       ELSE effective_unspecified_effort(profile, options)

-----------------------------------------------------------------------------
(* A turn's excursion into a temporary mode and back *)

Stable == <<"stable">>

\* The next transition state, or <<"rejected">>.
ObserveMode(transition, source, observed, turn_is_active) ==
  LET at == transition[1]
      temporary == transition[2]
  IN  IF ~turn_is_active /\ transition # Stable THEN <<"rejected">>
      ELSE CASE at = "stable" /\ observed = "want" -> Stable
             [] at = "stable" /\ observed # "want" /\ source = "current_mode" ->
                  <<"awaiting_temporary", observed>>
             [] at = "awaiting_temporary" /\ observed = temporary ->
                  IF source = "snapshot" THEN <<"temporary", temporary>> ELSE transition
             [] at = "temporary" /\ observed = temporary -> transition
             [] at = "temporary" /\ observed # temporary /\ observed = "want"
                /\ source = "current_mode" -> <<"awaiting_baseline", temporary>>
             [] at = "awaiting_baseline" /\ observed = "want" ->
                  IF source = "snapshot" THEN Stable ELSE transition
             [] OTHER -> <<"rejected">>

\* Only the Claude adapter lets a turn leave the requested mode, and only for plan.
accepts_post_ready_mode(profile, observed, turn_is_active) ==
  observed = "want" \/ (profile.plans /\ turn_is_active /\ observed = "plan")

-----------------------------------------------------------------------------
(* The monitor *)

MonitorNew ==
  [session |-> FALSE,        \* the session id is known
   pending |-> "none",       \* the request whose response settles a contract
   mode_contract |-> FALSE,
   contract |-> "none",      \* the effective effort of the Ready contract
   transition |-> Stable,
   invalid |-> FALSE,        \* the invalidated token is cancelled with it
   ready |-> FALSE]

arm_mode(monitor) == [monitor EXCEPT !.session = TRUE, !.pending = "mode"]

arm_ready(monitor) == [monitor EXCEPT !.pending = "ready"]

\* Only the response to the armed request is taken; a failed one just disarms.
observe_configuration_response(profile, monitor, request, kind, options) ==
  LET armed == CASE monitor.pending = "mode"  -> {"mode"}
                 [] monitor.pending = "ready" -> {"model", "effort"}
                 [] OTHER -> {}
      taken == [monitor EXCEPT !.pending = "none"]
      resolved == resolve(profile, options)
  IN  IF request \notin armed THEN monitor
      ELSE IF kind # "ok" THEN taken
      ELSE IF monitor.pending = "mode"
           THEN IF require_applied_mode(profile, options)
                THEN [taken EXCEPT !.mode_contract = TRUE]
                ELSE [taken EXCEPT !.invalid = TRUE]
           ELSE IF resolved = "invalid" THEN [taken EXCEPT !.invalid = TRUE]
                ELSE [taken EXCEPT !.contract = resolved]

\* The Ready contract on a notification: the next transition or <<"rejected">>.
ReadyAccepts(profile, monitor, source, options, turn_is_active) ==
  LET kept == /\ require_current(options, "model", "want")
              /\ require_current(options, "effort", monitor.contract)
  IN  IF source = "snapshot" /\ ~kept THEN <<"rejected">>
      ELSE IF source = "snapshot" /\ profile.legacy THEN monitor.transition
      ELSE IF ~accepts_post_ready_mode(profile, options.mode, turn_is_active) THEN <<"rejected">>
      ELSE ObserveMode(monitor.transition, source, options.mode, turn_is_active)

ModeAccepts(profile, source, options) ==
  (source = "snapshot" /\ profile.legacy) \/ options.mode = "want"

\* A configuration notification before or after Ready.
ObserveConfiguration(profile, monitor, source, options, turn_is_active) ==
  LET next == ReadyAccepts(profile, monitor, source, options, turn_is_active)
      accepted == IF monitor.contract # "none" THEN next # <<"rejected">>
                  ELSE ~monitor.mode_contract \/ ModeAccepts(profile, source, options)
  IN  CASE accepted /\ monitor.contract # "none" -> [monitor EXCEPT !.transition = next]
        [] ~accepted /\ ~monitor.ready -> [monitor EXCEPT !.invalid = TRUE]
        [] OTHER -> monitor

\* The same notification is InvalidAfterReady.
InvalidAfterReady(profile, monitor, source, options, turn_is_active) ==
  monitor.ready /\ ReadyAccepts(profile, monitor, source, options, turn_is_active) = <<"rejected">>

\* Variant: a turn that is still in its temporary mode settles.
SettlesInTemporaryMode(monitor) == monitor.ready /\ ~monitor.invalid

mode_is_restored_for_settlement(monitor) ==
  monitor.ready /\ ~monitor.invalid /\ monitor.transition = Stable
=============================================================================
