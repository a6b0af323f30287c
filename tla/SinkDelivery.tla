---------------------------- MODULE SinkDelivery ----------------------------
(***************************************************************************)
(* One Act's diagnostic sink: the bounded queue its events enter, the      *)
(* callback driver on the diagnostic thread, the two threads that may      *)
(* close the sink (the close waiter started by the Act's settlement and    *)
(* the shutdown of the sink runtime) and the summary that is latched once. *)
(*                                                                         *)
(* Deliveries of one Run are serialised by the hub's delivery-order lock,  *)
(* so there is one producer.  The queue is only ever locked with try_lock: *)
(* an attempt may fail whenever another thread is about to use the queue   *)
(* (Contended).  Other Acts' sinks appear as the share of the runtime      *)
(* budget they hold.                                                       *)
(***************************************************************************)
EXTENDS Integers, Sequences, FiniteSets, SequencesExt, FiniteSetsExt

CONSTANTS
  MaxSequence,      \* bound: events offered to the sink
  Sizes,            \* encoded sizes an event may have
  TotalLimit,       \* per-sink budget
  StructuralReserve,\* part of it that content events may not use
  RuntimeLimit,     \* budget shared by all sinks of the runtime
  OtherShares,      \* the shares of it other sinks may hold
  DiscardAttempts,  \* DISCARD_CONTENTION_ATTEMPTS of the shutdown
  None

ASSUME SinkLimits ==
  /\ MaxSequence \in Nat \ {0} /\ Sizes \subseteq Nat \ {0}
  /\ TotalLimit \in Nat /\ StructuralReserve \in 0 .. TotalLimit
  /\ RuntimeLimit \in Nat /\ OtherShares \subseteq 0 .. RuntimeLimit
  /\ DiscardAttempts \in Nat \ {0}

VARIABLES
  phase,      \* SinkLifecycle.phase
  facts,      \* the cause latched by the seal
  entered,    \* active_enqueues
  accounted,  \* terminal_accounted
  queue,      \* QueueState.queued
  running,    \* QueueState.active_callback
  total,      \* QueueState.total_usage
  content,    \* QueueState.content_usage
  overflow,   \* QueueState.terminal_reason is set
  runtime,    \* RuntimeBudget usage
  others,     \* the part of it other sinks hold
  dropped,    \* DropLedger, by sequence number
  delivered,  \* sequence numbers of the callbacks recorded as delivered
  failure,    \* callback_failure
  cancelled,  \* runtime_cancel_requested
  settling,   \* delivery_settling
  summary,    \* the latched SinkDeliverySummary
  public,     \* the Python sink's state, and the settlement's phase
  authority,  \* the Act's Python task authority is live
  retired,    \* the registry no longer lists the sink
  prod,       \* program counter of the delivering thread
  event,      \* the event it delivers
  number,     \* sequence number of the last event of the Act
  offered,    \* events that reached the queue so far
  drv,        \* program counter of _drive_sink
  sequence,   \* its local: the sequence number it last dispatched
  main,       \* program counter of _dispatcher_main
  stop,       \* the StopAt command was sent
  clock,      \* "early", "cancel" (cancel_at passed) or "late" (deadline)
  closer,     \* program counters of the two threads that close the sink
  nominal,    \* the close reason each of them is about to latch
  abandon,    \* callback_abandoned, as the shutdown found it
  shut,       \* program counter of the capability's drop
  attempts    \* discard attempts of the shutdown

sinkVars == <<phase, facts, entered, accounted>>
queueVars == <<queue, running, total, content, overflow, runtime, others, dropped>>
deliveryVars == <<delivered, failure, cancelled, settling>>
closeVars == <<summary, public, authority, retired, closer, nominal, abandon>>
prodVars == <<prod, event, number, offered>>
threadVars == <<drv, sequence, main, stop, clock>>
shutVars == <<shut, attempts>>
vars == <<sinkVars, queueVars, deliveryVars, closeVars, prodVars, threadVars, shutVars>>

Events == [seq : 1 .. MaxSequence, class : {"content", "structural"}, size : Sizes]
Closers == {"waiter", "shutdown"}
Reasons == {"act_finished", "delivery_overflow", "runtime_shutdown", "callback_failed"}
ContentLimit == TotalLimit - StructuralReserve

TypeOK ==
  /\ phase \in {"OPEN", "SEALING", "SEALED", "CLOSED"}
  /\ facts \in {None, "act_finished", "runtime_shutdown"}
  /\ entered \in 0 .. 1
  /\ {accounted, overflow, cancelled, settling, authority, retired, stop} \subseteq BOOLEAN
  /\ queue \in Seq(Events) /\ running \in Events \cup {None} /\ event \in Events \cup {None}
  /\ {total, content, runtime, others} \subseteq Nat
  /\ number \in 0 .. MaxSequence
  /\ dropped \subseteq 1 .. MaxSequence /\ offered \subseteq 1 .. MaxSequence
  /\ sequence \in 0 .. MaxSequence /\ delivered \in Seq(1 .. MaxSequence)
  /\ failure \in {None, "raised", "invalid_return"}
  /\ public \in {"BOUND", "SEALED", "CLOSED"}
  /\ prod \in {"idle", "over", "enter", "confirm", "admit", "purge", "leave", "settle"}
  /\ drv \in {"next", "sleep", "callback", "hung", "retry", "completing",
              "recording", "failed", "failedRetry", "discard", "done"}
  /\ main \in {"run", "stopping", "exited"}
  /\ clock \in {"early", "cancel", "late"}
  /\ closer \in [Closers -> {"off", "poll", "check", "latch", "done"}]
  /\ nominal \in [Closers -> Reasons \cup {None}] /\ abandon \in BOOLEAN
  /\ shut \in {"no", "seal", "loop", "discard", "inspect", "close", "latch",
               "report", "done"}
  /\ attempts \in 0 .. DiscardAttempts

Init ==
  /\ phase = "OPEN" /\ facts = None /\ entered = 0 /\ accounted = FALSE
  /\ queue = <<>> /\ running = None /\ total = 0 /\ content = 0 /\ overflow = FALSE
  /\ runtime = 0 /\ others = 0 /\ dropped = {}
  /\ delivered = <<>> /\ failure = None /\ cancelled = FALSE /\ settling = FALSE
  /\ summary = None /\ public = "BOUND" /\ authority = TRUE /\ retired = FALSE
  /\ closer = [c \in Closers |-> "off"] /\ nominal = [c \in Closers |-> None] /\ abandon = FALSE
  /\ prod = "idle" /\ event = None /\ number = 0 /\ offered = {}
  /\ drv = "next" /\ sequence = 0 /\ main = "run" /\ stop = FALSE /\ clock = "early"
  /\ shut = "no" /\ attempts = 0

-----------------------------------------------------------------------------
(* The queue *)

Usage(events) == FoldSeq(LAMBDA e, sum : e.size + sum, 0, events)
ContentUsage(events) == Usage(SelectSeq(events, LAMBDA e : e.class = "content"))
SeqsOf(events) == {e.seq : e \in ToSet(events)}

\* The thread's next step locks the queue.
UsesQueue(t) ==
  \/ t = "producer" /\ prod \in {"admit", "purge"}
  \/ t = "driver" /\ drv \in {"next", "completing", "failed", "discard"}
  \/ t \in Closers /\ closer[t] = "poll"
  \/ t = "shutdown" /\ shut \in {"discard", "inspect", "close"}

Contended(t) == \E u \in {"producer", "driver"} \cup Closers : u # t /\ UsesQueue(u)

\* discard_queued_locked: the active callback keeps its usage
DiscardQueued ==
  /\ queue' = <<>>
  /\ total' = total - Usage(queue)
  /\ content' = content - ContentUsage(queue)
  /\ runtime' = runtime - Usage(queue)
  /\ dropped' = dropped \cup SeqsOf(queue)
  /\ UNCHANGED <<running, others>>

\* try_discard_queued: the whole queue is dropped, or the lock is contended
TryDiscard(t, done, contended) ==
  \/ DiscardQueued /\ overflow' = overflow /\ done
  \/ Contended(t) /\ UNCHANGED queueVars /\ contended

\* try_complete_callback: the active callback gives its usage back
CompleteCallback ==
  /\ running' = None
  /\ total' = total - running.size
  /\ content' = content - (IF running.class = "content" THEN running.size ELSE 0)
  /\ runtime' = runtime - running.size
  /\ UNCHANGED <<queue, overflow, others, dropped>>

\* The queue without its first k content events.
Without(k) ==
  LET contents == SelectSeq([i \in DOMAIN queue |-> i], LAMBDA i : queue[i].class = "content")
      victims == {contents[j] : j \in 1 .. k}
  IN [victims |-> {queue[i].seq : i \in victims},
      size |-> MapThenSumSet(LAMBDA i : queue[i].size, victims),
      rest |-> SelectSeq(queue, LAMBDA q : ~ \E i \in victims : queue[i] = q)]

ContentOf(e) == IF e.class = "content" THEN e.size ELSE 0

\* The queue can take e once it has evicted its first k content events.
Fits(e, k) ==
  /\ total - Without(k).size + e.size <= TotalLimit
  /\ content - Without(k).size + ContentOf(e) <= ContentLimit
  /\ runtime - Without(k).size + e.size <= RuntimeLimit

AloneFits(e) == e.size <= IF e.class = "content" THEN ContentLimit ELSE TotalLimit

Evictions(e) ==
  {k \in 0 .. Len(SelectSeq(queue, LAMBDA q : q.class = "content")) : AloneFits(e) /\ Fits(e, k)}

\* try_admit: drop e (contended, terminal, or no room for content), end delivery
\* (no room for a structural event), or evict as little content as makes room
TryAdmit(e) ==
  \/ /\ \/ Contended("producer") \/ overflow
        \/ e.class = "content" /\ Evictions(e) = {}
     /\ dropped' = dropped \cup {e.seq}
     /\ prod' = "leave"
     /\ UNCHANGED <<queue, running, total, content, overflow, runtime, others>>
  \/ /\ ~overflow /\ e.class = "structural" /\ Evictions(e) = {}
     /\ queue' = <<>>
     /\ total' = total - Usage(queue)
     /\ content' = content - ContentUsage(queue)
     /\ runtime' = runtime - Usage(queue)
     /\ dropped' = dropped \cup SeqsOf(queue) \cup {e.seq}
     /\ overflow' = TRUE
     /\ prod' = "leave"
     /\ UNCHANGED <<running, others>>
  \/ /\ ~overflow /\ Evictions(e) # {}
     /\ LET room == Without(Min(Evictions(e))) IN
          /\ queue' = Append(room.rest, e)
          /\ total' = total - room.size + e.size
          /\ content' = content - room.size + ContentOf(e)
          /\ runtime' = runtime - room.size + e.size
          /\ dropped' = dropped \cup room.victims
     /\ prod' = "purge"
     /\ UNCHANGED <<running, overflow, others>>

\* Other sinks of the runtime take and return budget with the same CAS.
OtherSinks ==
  /\ \E n \in OtherShares :
       /\ n # others /\ n + total <= RuntimeLimit
       /\ others' = n /\ runtime' = n + total
  /\ UNCHANGED <<queue, running, total, content, overflow, dropped>>
  /\ UNCHANGED <<sinkVars, deliveryVars, closeVars, prodVars, threadVars, shutVars>>

-----------------------------------------------------------------------------
(* The delivering thread: deliver_projected, under the delivery-order lock *)

stopped == failure # None

\* take_payload, project and materialise the event in Python, then begin_enqueue's
\* first check; a rejected event is reported once and forgotten
Offer ==
  /\ prod = "idle" /\ number < MaxSequence
  /\ phase = "OPEN" /\ ~accounted
  /\ \E class \in {"content", "structural"}, size \in Sizes :
       event' = [seq |-> number + 1, class |-> class, size |-> size]
  /\ number' = number + 1
  /\ prod' = "enter"
  /\ UNCHANGED <<phase, facts, entered, accounted, offered>>
  /\ UNCHANGED <<queueVars, deliveryVars, closeVars, threadVars, shutVars>>

\* Materialising the event fails in Python: it never reaches the queue, and a
\* terminal event then never settles the Act.
MaterializeFails ==
  /\ prod = "idle" /\ number < MaxSequence
  /\ phase = "OPEN" /\ ~accounted
  /\ number' = number + 1
  /\ prod' \in {"idle", "over"}
  /\ UNCHANGED <<event, offered>>
  /\ UNCHANGED <<sinkVars, queueVars, deliveryVars, closeVars, threadVars, shutVars>>

Enter ==
  /\ prod = "enter"
  /\ entered' = entered + 1
  /\ prod' = "confirm"
  /\ UNCHANGED <<phase, facts, accounted, event, number, offered>>
  /\ UNCHANGED <<queueVars, deliveryVars, closeVars, threadVars, shutVars>>

\* Variant: begin_enqueue does not look at the phase again.
ConfirmOnce ==
  /\ prod = "confirm" /\ prod' = "admit"
  /\ accounted' = (event.class = "structural")
  /\ UNCHANGED <<entered, event, phase, facts, number, offered>>
  /\ UNCHANGED <<queueVars, deliveryVars, closeVars, threadVars, shutVars>>

\* begin_enqueue, second check; the Act's terminal event is accounted once
Confirm ==
  /\ prod = "confirm"
  /\ IF phase = "OPEN"
     THEN /\ prod' = "admit"
          /\ accounted' = (event.class = "structural")
          /\ UNCHANGED <<entered, event>>
     ELSE /\ prod' = "idle" /\ event' = None
          /\ entered' = entered - 1
          /\ UNCHANGED accounted
  /\ UNCHANGED <<phase, facts, number, offered>>
  /\ UNCHANGED <<queueVars, deliveryVars, closeVars, threadVars, shutVars>>

Admit ==
  /\ prod = "admit"
  /\ offered' = offered \cup {event.seq}
  /\ TryAdmit(event)
  /\ UNCHANGED <<event, number>>
  /\ UNCHANGED <<sinkVars, deliveryVars, closeVars, threadVars, shutVars>>

\* SinkDispatcher::try_enqueue: an event queued behind a failure is discarded again
Purge ==
  /\ prod = "purge"
  /\ IF stopped
     THEN TryDiscard("producer", prod' = "leave", prod' = "leave")
     ELSE prod' = "leave" /\ UNCHANGED queueVars
  /\ UNCHANGED <<event, number, offered>>
  /\ UNCHANGED <<sinkVars, deliveryVars, closeVars, threadVars, shutVars>>

Leave ==
  /\ prod = "leave"
  /\ entered' = entered - 1
  /\ IF event.class = "structural"
     THEN prod' = "settle" /\ UNCHANGED event
     ELSE prod' = "idle" /\ event' = None
  /\ UNCHANGED <<phase, facts, accounted, number, offered>>
  /\ UNCHANGED <<queueVars, deliveryVars, closeVars, threadVars, shutVars>>

\* settle_terminal: expire the authority, seal, retire, start the close waiter.
\* It holds the capability's state, so the state's drop cannot overlap it.
Settle ==
  /\ prod = "settle" /\ shut = "no"
  /\ phase = "OPEN" /\ public = "BOUND" /\ ~retired
  /\ authority' = FALSE
  /\ phase' = "SEALED" /\ facts' = "act_finished"
  /\ public' = "SEALED" /\ retired' = TRUE
  /\ closer' = [closer EXCEPT !["waiter"] = "poll"]
  /\ prod' = "idle" /\ event' = None
  /\ UNCHANGED <<entered, accounted, summary, nominal, abandon, number, offered>>
  /\ UNCHANGED <<queueVars, deliveryVars, threadVars, shutVars>>

\* The capability is already being dropped: its weak reference is dead.
SettleTooLate ==
  /\ prod = "settle" /\ shut # "no"
  /\ prod' = "idle" /\ event' = None
  /\ UNCHANGED <<number, offered>>
  /\ UNCHANGED <<sinkVars, queueVars, deliveryVars, closeVars, threadVars, shutVars>>

-----------------------------------------------------------------------------
(* The diagnostic thread: _drive_sink and _dispatcher_main share one loop *)

DriverStep(from, to) == drv = from /\ drv' = to
DriverFrame == UNCHANGED <<sinkVars, closeVars, prodVars, shutVars, main, stop, clock>>

\* _next_dispatch hands out the oldest event
NextDispatch ==
  /\ DriverStep("next", "callback")
  /\ running = None /\ queue # <<>>
  /\ running' = Head(queue) /\ queue' = Tail(queue)
  /\ sequence' = Head(queue).seq
  /\ UNCHANGED <<total, content, overflow, runtime, others, dropped, deliveryVars>>
  /\ DriverFrame

\* ... or nothing: the queue is empty, or contended.  Then the driver ends if the
\* dispatcher is stopping, and sleeps otherwise.
NothingToDispatch ==
  /\ drv = "next"
  /\ queue = <<>> \/ Contended("driver")
  /\ drv' = IF main = "run" THEN "sleep" ELSE "done"
  /\ UNCHANGED <<sequence, queueVars, deliveryVars>>
  /\ DriverFrame

Wake ==
  /\ \/ DriverStep("sleep", "next") /\ UNCHANGED settling
     \/ DriverStep("retry", "completing") /\ settling' = TRUE
     \/ DriverStep("failedRetry", "failed") /\ UNCHANGED settling
  /\ UNCHANGED <<sequence, queueVars, delivered, failure, cancelled>>
  /\ DriverFrame

\* _complete_success begins: the settling flag is held over completion and record
CallbackReturns ==
  /\ DriverStep("callback", "completing")
  /\ settling' = TRUE
  /\ UNCHANGED <<sequence, queueVars, delivered, failure, cancelled>>
  /\ DriverFrame

CallbackFails ==
  /\ DriverStep("callback", "failed")
  /\ failure' \in {"raised", "invalid_return"}
  /\ UNCHANGED <<sequence, queueVars, delivered, cancelled, settling>>
  /\ DriverFrame

\* A callback that blocks its thread for good.
CallbackHangs ==
  /\ DriverStep("callback", "hung")
  /\ UNCHANGED <<sequence, queueVars, deliveryVars>>
  /\ DriverFrame

CompleteActive ==
  /\ drv = "completing"
  /\ \/ CompleteCallback /\ drv' = "recording" /\ UNCHANGED settling
     \/ Contended("driver") /\ drv' = "retry" /\ settling' = FALSE /\ UNCHANGED queueVars
  /\ UNCHANGED <<sequence, delivered, failure, cancelled>>
  /\ DriverFrame

RecordDelivery ==
  /\ DriverStep("recording", "next")
  /\ delivered' = Append(delivered, sequence)
  /\ settling' = FALSE
  /\ UNCHANGED <<sequence, queueVars, failure, cancelled>>
  /\ DriverFrame

\* _complete_failed: complete the active callback, then discard the rest
CompleteFailed ==
  /\ drv = "failed"
  /\ \/ running # None /\ CompleteCallback /\ drv' = "discard"
     \/ running = None /\ drv' = "discard" /\ UNCHANGED queueVars
     \/ running # None /\ Contended("driver") /\ drv' = "failedRetry" /\ UNCHANGED queueVars
  /\ UNCHANGED <<sequence, deliveryVars>>
  /\ DriverFrame

DiscardFailed ==
  /\ drv = "discard"
  /\ TryDiscard("driver", drv' = "done", drv' = "failedRetry")
  /\ UNCHANGED <<sequence, deliveryVars>>
  /\ DriverFrame

\* The loop can run _dispatcher_main only while _drive_sink is suspended.
Suspended == drv \in {"sleep", "callback", "retry", "failedRetry", "done"}
MainFrame == UNCHANGED <<sinkVars, queueVars, closeVars, prodVars, shutVars,
                         delivered, failure, settling, sequence, stop, clock>>

MainStop ==
  /\ main = "run" /\ stop /\ Suspended
  /\ main' = "stopping"
  /\ UNCHANGED <<drv, cancelled>>
  /\ MainFrame

\* cancel_now: the task is cancelled once, wherever it is suspended.  A
\* CancelledError inside an exception handler's retry ends the task at once.
MainCancel ==
  /\ main = "stopping" /\ clock # "early" /\ ~cancelled /\ Suspended /\ drv # "done"
  /\ cancelled' = TRUE
  /\ drv' = IF drv = "callback" THEN "callback"
            ELSE IF drv = "failedRetry" /\ failure = "raised" THEN "done" ELSE "failed"
  /\ UNCHANGED main
  /\ MainFrame

\* The callback lets the cancellation through (it may also swallow it).
CallbackCancelled ==
  /\ cancelled
  /\ DriverStep("callback", "failed")
  /\ UNCHANGED <<sequence, queueVars, deliveryVars>>
  /\ DriverFrame

MainExit ==
  /\ main = "stopping" /\ drv = "done"
  /\ main' = "exited"
  /\ UNCHANGED <<drv, cancelled>>
  /\ MainFrame

Tick ==
  /\ stop /\ clock # "late"
  /\ clock' = IF clock = "early" THEN "cancel" ELSE "late"
  /\ UNCHANGED <<drv, sequence, main, stop>>
  /\ UNCHANGED <<sinkVars, queueVars, deliveryVars, closeVars, prodVars, shutVars>>

-----------------------------------------------------------------------------
(* Closing: try_close_drained and latch_summary, by either closing thread *)

CloserFrame == UNCHANGED <<queueVars, deliveryVars, prodVars, threadVars, shutVars,
                           facts, entered, accounted, authority, retired, abandon>>
Goto(c, to) == closer' = [closer EXCEPT ![c] = to]

\* publish_closed: the waiter publishes the latched summary to Python; the shutdown
\* does so in its report
Published(c) == public' = IF c = "waiter" THEN "CLOSED" ELSE public

\* The waiter polls again; the shutdown looks at the thread and the time first.
NotYet(c) == IF c = "shutdown" THEN "off" ELSE "poll"

PollClose(c) ==
  /\ closer[c] = "poll"
  /\ \/ phase = "CLOSED" /\ Goto(c, "done") /\ Published(c) /\ UNCHANGED nominal
     \/ /\ phase = "SEALED" /\ queue = <<>> /\ running = None
        /\ Goto(c, "check") /\ UNCHANGED public
        /\ nominal' = [nominal EXCEPT ![c] = IF overflow THEN "delivery_overflow" ELSE None]
     \/ /\ \/ Contended(c)
           \/ queue # <<>> \/ running # None
        /\ phase # "CLOSED"
        /\ Goto(c, NotYet(c)) /\ UNCHANGED <<nominal, public>>
  /\ UNCHANGED <<phase, summary>>
  /\ CloserFrame

\* Variant: the settling flag is not consulted.
CheckNothing(c) ==
  /\ closer[c] = "check"
  /\ Goto(c, "latch")
  /\ nominal' = [nominal EXCEPT ![c] =
       IF @ # None THEN @ ELSE IF cancelled THEN "runtime_shutdown" ELSE facts]
  /\ UNCHANGED <<phase, summary, public>>
  /\ CloserFrame

CheckSettling(c) ==
  /\ closer[c] = "check"
  /\ Goto(c, IF settling THEN NotYet(c) ELSE "latch")
  /\ nominal' = [nominal EXCEPT ![c] =
       IF @ # None THEN @ ELSE IF cancelled THEN "runtime_shutdown" ELSE facts]
  /\ UNCHANGED <<phase, summary, public>>
  /\ CloserFrame

\* from_delivery_facts; source gaps and truncated payloads, which only take
\* `complete` away, are left out
SummaryOf(reason, abandoned) ==
  [reason |-> IF failure # None THEN "callback_failed" ELSE reason,
   delivered |-> delivered, dropped |-> Cardinality(dropped),
   abandoned |-> abandoned /\ failure = None,
   complete |-> /\ reason = "act_finished" /\ dropped = {}
                /\ failure = None /\ ~abandoned]

\* latch_summary: the thread that wins the CAS to CLOSING fills the summary while
\* the other waits for CLOSED
LatchSummary(c) ==
  /\ closer[c] = "latch"
  /\ \/ /\ phase = "SEALED" /\ phase' = "CLOSED"
        /\ summary' = SummaryOf(nominal[c], c = "shutdown" /\ abandon)
     \/ phase = "CLOSED" /\ UNCHANGED <<phase, summary>>
  /\ Published(c)
  /\ Goto(c, "done")
  /\ UNCHANGED nominal
  /\ CloserFrame

-----------------------------------------------------------------------------
(* Shutdown: the drop of the capability's state, and shutdown_until *)

ShutFrame == UNCHANGED <<deliveryVars, prodVars, drv, sequence, main, clock, entered, accounted,
                         authority, retired, summary>>

\* begin_runtime_shutdown: the Python sink of a binding still registered is sealed;
\* then shutdown_until seals an open sink by CAS and waits for the entered enqueues
BeginShutdown ==
  /\ shut = "no"
  /\ shut' = "seal"
  /\ public' = IF retired THEN public ELSE "SEALED"
  /\ phase' = IF phase = "OPEN" THEN "SEALING" ELSE phase
  /\ UNCHANGED <<facts, queueVars, stop, closer, nominal, abandon, attempts>>
  /\ ShutFrame

\* the seal completes, and the diagnostic thread is asked to stop
SealAndStop ==
  /\ shut = "seal" /\ (phase = "SEALING" => entered = 0)
  /\ IF phase = "SEALING" THEN phase' = "SEALED" /\ facts' = "runtime_shutdown"
                          ELSE UNCHANGED <<phase, facts>>
  /\ stop' = TRUE
  /\ shut' = "loop"
  /\ closer' = [closer EXCEPT !["shutdown"] = "poll"]
  /\ UNCHANGED <<queueVars, nominal, public, abandon, attempts>>
  /\ ShutFrame

\* Variant: the polling loop waits for the thread whatever the time.
LoopForever ==
  /\ shut = "loop" /\ closer["shutdown"] \in {"off", "done"}
  /\ IF main = "exited"
     THEN shut' = (IF summary # None THEN "report" ELSE "discard") /\ UNCHANGED closer
     ELSE /\ closer["shutdown"] = "off"
          /\ closer' = [closer EXCEPT !["shutdown"] = "poll"]
          /\ UNCHANGED shut
  /\ UNCHANGED <<phase, facts, queueVars, stop, nominal, public, abandon, attempts>>
  /\ ShutFrame

\* one turn of the polling loop, after its attempt to close the sink
LoopCheck ==
  /\ shut = "loop" /\ closer["shutdown"] \in {"off", "done"}
  /\ IF main = "exited" \/ clock = "late"
     THEN shut' = (IF summary # None THEN "report" ELSE "discard") /\ UNCHANGED closer
     ELSE /\ closer["shutdown"] = "off"
          /\ closer' = [closer EXCEPT !["shutdown"] = "poll"]
          /\ UNCHANGED shut
  /\ UNCHANGED <<phase, facts, queueVars, stop, nominal, public, abandon, attempts>>
  /\ ShutFrame

DiscardPending ==
  /\ shut = "discard"
  /\ TryDiscard("shutdown",
       shut' = "inspect" /\ UNCHANGED attempts,
       /\ attempts' = attempts + 1
       /\ shut' = IF attempts' = DiscardAttempts THEN "inspect" ELSE "discard")
  /\ UNCHANGED <<phase, facts, stop, closer, nominal, public, abandon>>
  /\ ShutFrame

\* callback_is_active: a contended queue counts as inactive
InspectCallback ==
  /\ shut = "inspect"
  /\ abandon' \in {running # None \/ settling} \cup (IF Contended("shutdown") THEN {FALSE} ELSE {})
  /\ shut' = "close"
  /\ UNCHANGED <<phase, facts, queueVars, stop, closer, nominal, public, attempts>>
  /\ ShutFrame

\* close_for_runtime_shutdown
CloseForShutdown ==
  /\ shut = "close"
  /\ IF summary # None
     THEN shut' = "report" /\ UNCHANGED <<closer, nominal>>
     ELSE /\ shut' = "latch"
          /\ \E overflowed \in {overflow} \cup (IF Contended("shutdown") THEN {FALSE} ELSE {}) :
               nominal' = [nominal EXCEPT !["shutdown"] =
                 IF overflowed /\ ~abandon THEN "delivery_overflow" ELSE "runtime_shutdown"]
          /\ closer' = [closer EXCEPT !["shutdown"] = "latch"]
  /\ UNCHANGED <<phase, facts, queueVars, stop, public, abandon, attempts>>
  /\ ShutFrame

\* the join or the abandoning of the thread, and publish_latched_summary
Report ==
  /\ \/ shut = "report"
     \/ shut = "latch" /\ closer["shutdown"] = "done"
  /\ shut' = "done"
  /\ public' = IF retired THEN public ELSE "CLOSED"
  /\ UNCHANGED <<phase, facts, queueVars, stop, closer, nominal, abandon, attempts>>
  /\ ShutFrame

-----------------------------------------------------------------------------
Producer == Offer \/ MaterializeFails \/ Enter \/ Confirm \/ Admit \/ Purge \/ Leave
              \/ Settle \/ SettleTooLate
Callback == CallbackReturns \/ CallbackFails \/ CallbackHangs \/ CallbackCancelled
Driver ==
  \/ NextDispatch \/ NothingToDispatch \/ Wake \/ CompleteActive
  \/ RecordDelivery \/ CompleteFailed \/ DiscardFailed
Main == MainStop \/ MainCancel \/ MainExit
Closer(c) == PollClose(c) \/ CheckSettling(c) \/ LatchSummary(c)
Shutdown == \/ SealAndStop \/ LoopCheck \/ DiscardPending
            \/ InspectCallback \/ CloseForShutdown \/ Report

Next ==
  \/ Producer \/ Callback \/ Driver \/ Main \/ Tick \/ OtherSinks
  \/ BeginShutdown \/ Shutdown
  \/ \E c \in Closers : Closer(c)

Spec == Init /\ [][Next]_vars

\* The threads run; a callback ends unless it hangs (a step of its own), and a
\* queue that is contended now and again is not contended for ever: a step that
\* needs its lock and gets through (Progress, finitely often in a behaviour)
\* succeeds if it is tried again and again.
Progress ==
  \/ NextDispatch
  \/ (CompleteActive \/ CompleteFailed) /\ running' # running
  \/ DiscardFailed /\ drv' = "done"
  \/ PollClose("waiter") /\ closer'["waiter"] # "poll"

Fairness ==
  /\ WF_vars(Producer /\ prod # "idle") /\ WF_vars(Callback) /\ WF_vars(Driver)
  /\ WF_vars(Main) /\ WF_vars(Tick) /\ WF_vars(Shutdown)
  /\ \A c \in Closers : WF_vars(Closer(c))
  /\ SF_vars(Progress)

FairSpec == Spec /\ Fairness

-----------------------------------------------------------------------------
(* Properties *)

\* Every event that reached the queue has exactly one fate: it waits, runs, was
\* delivered, was counted as dropped, or is the one event whose callback did not
\* complete; and the budget a sink charges its runtime is exactly what the queue
\* and the active callback hold, whatever was evicted, discarded, retried or
\* cancelled on the way.
Fates == <<SeqsOf(queue), IF running = None THEN {} ELSE {running.seq},
           ToSet(delivered), dropped>>
Unfinished == offered \ UNION ToSet(Fates)
EveryEventHasOneFate ==
  /\ TypeOK
  /\ \A i, j \in DOMAIN Fates : i # j => Fates[i] \cap Fates[j] = {}
  /\ UNION ToSet(Fates) \subseteq offered
  /\ drv # "recording" => Cardinality(Unfinished) <= 1
  /\ Unfinished # {} /\ drv # "recording" => failure # None \/ cancelled
  /\ \A i \in 1 .. Len(delivered) - 1 : delivered[i] < delivered[i + 1]
  /\ total = Usage(queue) + (IF running = None THEN 0 ELSE running.size)
  /\ content = ContentUsage(queue) + (IF running = None THEN 0 ELSE ContentOf(running))
  /\ runtime = others + total
  /\ total <= TotalLimit /\ content <= ContentLimit /\ runtime <= RuntimeLimit

\* A summary that says `complete` was latched after every event that reached the
\* queue had been delivered, the terminal one included; and any sink that closed
\* by draining accounts for every event: delivered, dropped, or the one whose
\* callback failed.  This is the hand-over between the driver's completion, the
\* settling flag and the two threads that may latch the summary.
SummaryIsTruthful ==
  summary # None =>
    /\ summary.complete => /\ ToSet(summary.delivered) = offered /\ accounted
                           /\ facts = "act_finished"
    /\ (shut = "no" \/ summary.reason = "act_finished") =>
         Len(summary.delivered) + summary.dropped
           + (IF summary.reason = "callback_failed" THEN 1 ELSE 0) = Cardinality(offered)

\* Events are accounted from the queue to the summary.
EventsAreAccounted == EveryEventHasOneFate /\ SummaryIsTruthful

\* Once a sink is sealed no event enters its queue, although an enqueue and the
\* shutdown's seal may run side by side; and a sink that closed because its Act
\* finished is quiet: nothing is dispatched, delivered or dropped any more.
ClosedSinkIsQuiet ==
  [][/\ phase \in {"SEALED", "CLOSED"} => UNCHANGED offered
     /\ summary # None /\ (shut = "no" \/ summary.reason = "act_finished")
          => UNCHANGED <<queue, running, delivered, dropped, summary>>]_vars

\* The sink of a settled Act closes in Python, unless a callback hangs; a shutdown
\* returns, even then, with the sink closed.
SinksClose ==
  /\ (facts = "act_finished") ~> (public = "CLOSED" \/ drv = "hung")
  /\ (shut # "no") ~> (shut = "done" /\ phase = "CLOSED")
=============================================================================
