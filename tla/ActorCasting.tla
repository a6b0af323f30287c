---------------------------- MODULE ActorCasting ----------------------------
(***************************************************************************)
(* The Actors of a Production during its Run: cast_actor                   *)
(* (orchestration/production.rs), the registry of their names              *)
(* (actor_registry.rs), their agent sessions under the AgentSupervisor     *)
(* (session/supervisor.rs) and the producer of their diagnostics           *)
(* (diagnostic_runtime/actor_producer.rs).                                 *)
(*                                                                         *)
(* A cast runs on any Python thread, from the constructor of the           *)
(* Production on.  When the Run is over, shutdown_and_wait refuses new     *)
(* casts, waits for those that are under way, and ends the sessions they   *)
(* have started.  An Actor that nobody refers to is dropped: its           *)
(* capability dies in one step and leaves the registry in another, so that *)
(* a lookup or another cast may come in between.                           *)
(*                                                                         *)
(* A session is "open" until it is cancelled or fails, and "clean" once    *)
(* its process is reaped; SessionOpening has its detail.                   *)
(***************************************************************************)
EXTENDS RunLifecycle

CONSTANTS Casts,          \* calls of cast_actor
          Names, NameOf   \* the names they give their Actors

ASSUME CastAssumption == /\ NameOf \in [Casts -> Names]
                         /\ Stories \subseteq StoryType(Casts)

VARIABLES cast,       \* each cast: its step, capability, session and diagnostics
          registry,   \* ActorRegistry: the entry of each name
          supervisor  \* SupervisorState, and the Notify of its changes

castVars == <<cast, registry, supervisor>>
prodVars == <<runVars, castVars>>

\* The ActorLifecycleProducer of an Actor, as far as it is in the table;
\* "bound" is a producer that knows the Runtime.
NoActor == [there |-> FALSE, bound |-> FALSE, constructed |-> FALSE, committed |-> FALSE,
            detached |-> FALSE, span |-> "none"]
NoCast == [step |-> "idle", capability |-> "none", session |-> "none", actor |-> NoActor]
Unused == [state |-> "Free"]

ProdInit ==
  /\ RunInit
  /\ cast = [c \in Casts |-> NoCast]
  /\ registry = [n \in Names |-> Unused]
  /\ supervisor = [shutting_down |-> FALSE, active_casts |-> 0, sessions |-> {},
                   notified |-> FALSE, listed |-> {}]

-----------------------------------------------------------------------------
(* The registry.                                                           *)

Reserved(c) == [state |-> "Reserved", by |-> c]
Live(c) == [state |-> "Live", by |-> c]
EntryOf(c) == registry[NameOf[c]]
SetEntry(c, entry) == registry' = [registry EXCEPT ![NameOf[c]] = entry]

\* rollback and detach remove an entry only if it is their own.
Rollback(c) == SetEntry(c, IF EntryOf(c) = Reserved(c) THEN Unused ELSE EntryOf(c))
RemoveAny(c) == SetEntry(c, Unused)
RemoveLive(c) == SetEntry(c, IF EntryOf(c) = Live(c) THEN Unused ELSE EntryOf(c))

\* get and snapshot drop an entry whose capability is dead.
Lookup(n) ==
  /\ registry[n].state = "Live"
  /\ cast[registry[n].by].capability # "held"
  /\ registry' = [registry EXCEPT ![n] = Unused]
  /\ UNCHANGED <<runVars, cast, supervisor>>

-----------------------------------------------------------------------------
(* The diagnostics of an Actor.                                            *)

\* source_for_production and cast_started: the span begins below the Run, or
\* below the construction of the Production; otherwise there is no producer.
CastStarted(constructing) ==
  IF (diag.run.installed /\ ~Broken(diag)) \/ constructing
  THEN [NoActor EXCEPT !.there = TRUE, !.span = "open", !.bound = ~constructing]
  ELSE NoActor

\* report_state_error: an invalid transition fails the Run the Actor belongs to.
ActorLatches(d, actor, due) ==
  IF actor.there /\ ~due /\ (actor.bound \/ d.run.installed) THEN Latched(d, "state") ELSE d

\* observe_identity for Constructed and RegistryCommitted.
Constructed(actor) ==
  IF actor.there THEN [actor EXCEPT !.constructed = TRUE] ELSE actor
Committed(actor) ==
  IF actor.there THEN [actor EXCEPT !.committed = TRUE] ELSE actor

\* cast_finished with begin_finish: a failed cast ends the span, a successful
\* one leaves it open.
CastFinished(actor, error) ==
  IF ~actor.there \/ error = "none" THEN actor
  ELSE [actor EXCEPT !.there = FALSE, !.span = OutcomeOf(error)]

\* observe_identity for RegistryDetached: the span of a cast that succeeded ends.
Detached(actor, succeeded) ==
  CASE ~actor.there -> actor
    [] actor.there /\ succeeded -> [actor EXCEPT !.detached = TRUE, !.there = FALSE,
                                                 !.span = "completed"]
    [] actor.there /\ ~succeeded -> [actor EXCEPT !.detached = TRUE]

-----------------------------------------------------------------------------
(* cast_actor.                                                             *)

\* The drop of an AgentCastPermit.
PermitDroppedQuietly == [supervisor EXCEPT !.active_casts = @ - 1]
PermitDropped == [supervisor EXCEPT !.active_casts = @ - 1, !.notified = TRUE]

BeginCast(c) ==
  /\ c \in story.casts /\ cast[c].step = "idle"
  /\ IF supervisor.shutting_down
     THEN cast' = [cast EXCEPT ![c].step = "failed"] /\ UNCHANGED supervisor
     ELSE /\ cast' = [cast EXCEPT ![c].step = "permitted"]
          /\ supervisor' = [supervisor EXCEPT !.active_casts = @ + 1]
  /\ UNCHANGED <<runVars, registry>>

ReserveName(c) ==
  /\ cast[c].step = "permitted"
  /\ IF EntryOf(c) = Unused
     THEN /\ SetEntry(c, Reserved(c))
          /\ \E constructing \in BOOLEAN :
               /\ constructing => stage = "bind"
               /\ cast' = [cast EXCEPT ![c].step = "reserved",
                                       ![c].actor = CastStarted(constructing)]
          /\ UNCHANGED supervisor
     ELSE /\ cast' = [cast EXCEPT ![c].step = "failed"]
          /\ supervisor' = PermitDropped
          /\ UNCHANGED registry
  /\ UNCHANGED runVars

\* The class of the Actor is called: user code runs.
ConstructActor(c) ==
  /\ cast[c].step = "reserved"
  /\ cast' = [cast EXCEPT ![c].step = "constructed", ![c].actor = Constructed(@)]
  /\ diag' = ActorLatches(diag, cast[c].actor, ~cast[c].actor.constructed)
  /\ UNCHANGED <<story, stage, at, core, asks, python, returned, failures, used,
                 registry, supervisor>>

\* start_agent_session and start_inner: the session is tracked before its
\* opening is spawned; without a diagnostic identity there is no session.
StartSession(c) ==
  /\ cast[c].step = "constructed" /\ cast[c].actor.there
  /\ cast' = [cast EXCEPT ![c].step = "started", ![c].session = "open",
                          ![c].capability = "held"]
  /\ supervisor' = [supervisor EXCEPT
       !.sessions = {s \in @ : cast[s].session # "clean"} \cup {c}]
  /\ UNCHANGED <<runVars, registry>>

\* The cast fails before it is committed: the launch cannot be resolved, the
\* class raises, there is no diagnostic identity, or an object of the Actor
\* cannot be made, in which case its session is cancelled with the capability.
FailCast(c) ==
  /\ cast[c].step \in {"reserved", "constructed", "started"}
  /\ LET started == cast[c].step = "started"
         left == IF started THEN Detached(cast[c].actor, FALSE) ELSE cast[c].actor
     IN  \E error \in {"cancelled", "error"} :
           cast' = [cast EXCEPT ![c].step = "failed", ![c].actor = CastFinished(left, error),
                      ![c].capability = IF started THEN "gone" ELSE @,
                      ![c].session = IF @ = "open" THEN "cancelled" ELSE @]
  /\ Rollback(c)
  /\ supervisor' = PermitDropped
  /\ UNCHANGED runVars

\* RegistryReservation::commit asserts that the reservation is still its own.
CommitCast(c) ==
  /\ cast[c].step = "started"
  /\ LET actor == Committed(cast[c].actor)
         due == actor.constructed /\ ~cast[c].actor.committed
     IN  /\ cast' = [cast EXCEPT
               ![c].step = IF EntryOf(c) = Reserved(c) THEN "done" ELSE "panicked",
               ![c].actor = CastFinished(actor, "none")]
         /\ diag' = ActorLatches(diag, actor, due)
  /\ SetEntry(c, Live(c))
  /\ supervisor' = PermitDropped
  /\ UNCHANGED <<story, stage, at, core, asks, python, returned, failures, used>>

-----------------------------------------------------------------------------
(* The end of an Actor.                                                    *)

\* The last reference to a capability goes: weak references are dead from here,
\* and the session is cancelled.
DropCapability(c) ==
  /\ cast[c].step = "done" /\ cast[c].capability = "held"
  /\ cast' = [cast EXCEPT ![c].capability = "dropping",
                          ![c].session = IF @ = "open" THEN "cancelled" ELSE @]
  /\ UNCHANGED <<runVars, registry, supervisor>>

\* The rest of its drop: the name is given back, the span ends.
DetachActor(c) ==
  /\ cast[c].capability = "dropping"
  /\ RemoveLive(c)
  /\ cast' = [cast EXCEPT ![c].capability = "gone", ![c].actor = Detached(@, TRUE)]
  /\ diag' = ActorLatches(diag, cast[c].actor, ~cast[c].actor.detached)
  /\ UNCHANGED <<story, stage, at, core, asks, python, returned, failures, used, supervisor>>

\* A session ends, cancelled or on its own, and is cleaned up ...
SessionCleans(c) ==
  /\ cast[c].session \in {"open", "cancelled"}
  /\ cast' = [cast EXCEPT ![c].session = "clean"]
  /\ UNCHANGED <<runVars, registry, supervisor>>

\* ... and its opening task releases it.
ReleaseSession(c) ==
  /\ cast[c].session = "clean" /\ c \in supervisor.sessions
  /\ supervisor' = [supervisor EXCEPT !.sessions = @ \ {c}, !.notified = TRUE]
  /\ UNCHANGED <<runVars, cast, registry>>

-----------------------------------------------------------------------------
(* shutdown_and_wait, after the lifecycle has returned.                    *)

Shuts(from, next) ==
  /\ At("sessions", from) /\ at' = next
  /\ UNCHANGED <<story, stage, core, asks, python, returned, failures, used, diag, registry>>

RefuseCasts ==
  /\ Shuts("entry", "register")
  /\ supervisor' = [supervisor EXCEPT !.shutting_down = TRUE]
  /\ UNCHANGED cast

\* The Notified future exists before the count is read.
RegisterWaiter ==
  /\ Shuts("register", "check")
  /\ supervisor' = [supervisor EXCEPT !.notified = FALSE]
  /\ UNCHANGED cast

CheckCastsUnawaited ==
  /\ Shuts("check", "list")
  /\ UNCHANGED <<cast, supervisor>>

CheckCasts ==
  /\ Shuts("check", IF supervisor.active_casts = 0 THEN "list" ELSE "await")
  /\ UNCHANGED <<cast, supervisor>>

AwaitChange ==
  /\ supervisor.notified /\ Shuts("await", "register")
  /\ UNCHANGED <<cast, supervisor>>

CancelSessions ==
  /\ Shuts("list", "wait")
  /\ supervisor' = [supervisor EXCEPT !.listed = supervisor.sessions]
  /\ cast' = [c \in Casts |-> IF c \in supervisor.sessions /\ cast[c].session = "open"
                              THEN [cast[c] EXCEPT !.session = "cancelled"] ELSE cast[c]]

AwaitSessions ==
  /\ At("sessions", "wait") /\ To("done", "entry")
  /\ \A c \in supervisor.listed : cast[c].session = "clean"
  /\ UNCHANGED <<rest, python, returned, failures, diag, castVars>>

-----------------------------------------------------------------------------
Shutdown ==
  \/ RefuseCasts \/ RegisterWaiter \/ CheckCasts \/ AwaitChange \/ CancelSessions \/ AwaitSessions
CastStep(c) == ReserveName(c) \/ ConstructActor(c) \/ StartSession(c) \/ CommitCast(c) \/ FailCast(c)
CastNext ==
  \/ Shutdown
  \/ \E c \in Casts : \/ BeginCast(c) \/ CastStep(c) \/ DropCapability(c) \/ DetachActor(c)
                      \/ SessionCleans(c) \/ ReleaseSession(c)
  \/ \E n \in Names : Lookup(n)

ProdNext == (RunNext /\ UNCHANGED castVars) \/ CastNext

ProdSpec == ProdInit /\ [][ProdNext]_prodVars

-----------------------------------------------------------------------------
(* Properties.                                                             *)

Over == stage \in {"finish", "sessions", "done"}

\* A Run leaves nothing behind: when its lifecycle returns, its Scene is closed
\* and drained, the task factory it lent to the loop is gone from there, and,
\* unless the diagnostics have failed, no span of a Scene is open inside a Run
\* that is.  When the command returns, every agent session is cleaned up, also
\* the one of a cast that raced the shutdown.
NothingOutlivesTheRun ==
  /\ Over => /\ scene.phase = "Closed" /\ scene.operations = 0
             /\ factory # "wrapper"
             /\ ~Broken(diag) => "open" \notin {diag.scene.span, diag.drain.drain,
                                                diag.drain.cleanup}
  /\ stage = "done" => \A c \in Casts : cast[c].session \in {"none", "clean"}

\* The diagnostics tell the story of the Run: no order of shutdown requests,
\* cancellations, failures and casts makes a hook come out of turn, the outcome
\* they record for the Run is the one the caller of the lifecycle is given, the
\* shutdown has the same one, and a task factory that was found replaced fails
\* the Run.
ReportsMatchTheRun ==
  /\ diag.run.failure # "state"
  /\ diag.run.span \in Outcomes =>
       /\ diag.run.span = "completed" <=> failures = << >>
       /\ diag.run.span = "cancelled" => "cancelled" \in {diag.run.start, diag.run.stop}
       /\ diag.run.shutdown \in {"none", diag.run.span}
       /\ "open" \notin {diag.run.start, diag.run.stop}
       /\ diag.run.stop = "none" <=> diag.run.start # "completed"
  /\ Over /\ replaced => failures # << >>

\* A name stands for one Actor: while an Actor is alive its name finds it, an
\* entry that is only reserved belongs to a cast under way, no reservation is
\* lost before its commit, and the span of an Actor ends with it, once.
NamesIdentifyActors ==
  \A c \in Casts :
    /\ cast[c].step # "panicked"
    /\ cast[c].step = "done" /\ cast[c].capability = "held" => EntryOf(c) = Live(c)
    /\ EntryOf(c) = Reserved(c) => cast[c].step \in {"reserved", "constructed", "started"}
    /\ cast[c].actor.span = "open" <=> cast[c].actor.there
    /\ cast[c].capability = "gone" => cast[c].actor.span \in Outcomes

\* What goes on without the user: the threads of the program, and user code, casts
\* and sessions that have been told to end.
Progress ==
  \/ RunProgress /\ UNCHANGED castVars
  \/ Shutdown
  \/ \E c \in Casts : \/ CastStep(c) \/ ReleaseSession(c)
                      \/ SessionCleans(c) /\ cast[c].session = "cancelled"

\* A Run that is asked to stop, or whose diagnostics fail, is never stuck: until
\* the command can return, and whatever the Run does when the request arrives, one
\* of its threads can move: no wakeup of the supervisor, no cancellation and no
\* close of a Scene is lost.
ShutdownIsNeverStuck ==
  (core.shutdown \/ Broken(diag)) /\ stage # "done" => ENABLED Progress
=============================================================================
