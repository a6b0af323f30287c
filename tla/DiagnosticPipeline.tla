------------------------- MODULE DiagnosticPipeline -------------------------
(***************************************************************************)
(* The mandatory diagnostics of one Run, from the producers to the sealed  *)
(* archive.  Four threads take part:                                       *)
(*   - the event loop, which captures Cues and closes the Run;             *)
(*   - every other producer of events (Scene, Effect, Act, Agent);         *)
(*   - the writer thread (run_writer), which batches and commits events;   *)
(*   - the main thread, which supervises the Run and shuts it down.        *)
(* They share the hub and its sequence numbers, the ingress, the quota,    *)
(* and the command, reply and failure channels of the writer.              *)
(*                                                                         *)
(* A setup names what may go wrong outside the program: "store" (a         *)
(* transaction fails), "refresh" (the check after a commit fails), "quota" *)
(* (the limit is reached), "stall" (the writer's deadline passes), "time"  *)
(* (the guard's deadline passes), "services" (registry, server or stream   *)
(* fail to close), "reference" (an event is refused by the validator) and  *)
(* "clock" (no terminal timestamp).  A crash of the process needs no       *)
(* action: what it leaves is the variable store, in any state.             *)
(***************************************************************************)
EXTENDS MandatoryIngress

CONSTANTS MaxSequence,              \* bound: the largest sequence number of a setup
          BatchEvents, BatchBytes,  \* MAX_BATCH_EVENTS, MAX_BATCH_CANONICAL_BYTES
          Setups                    \* what a behaviour may meet: the largest sequence
                                    \* number, Cues begun, event lengths, faults

ASSUME PipelineAssumption ==
  /\ MaxSequence \in Nat
  /\ \A s \in Setups : s.last \in 0 .. MaxSequence /\ s.cues \in Nat /\ s.sizes \subseteq Sizes
  /\ BatchEvents \in Nat \ {0} /\ BatchBytes \in Nat \ {0}

VARIABLES hub,       \* the next sequence number, and the admission that holds the lock
          ingress,
          quota,     \* RunQuota: its latched failure, and the signal to the writer
          loop,      \* the event loop's part in Cue capture and in the end of the Run
          writer,
          store,     \* the archive: committed events and clean_shutdown
          channel,   \* WriterCommand and reply channels
          failures,  \* producer failure, the writer's failure channel, FirstCoreFailure
          setup,     \* the setup of the behaviour
          main       \* supervise, shutdown_ordered and the diagnostic guard

vars == <<hub, ingress, quota, loop, writer, store, channel, failures, setup, main>>

NoAdmission == [by |-> "nobody", class |-> "normal", bytes |-> 0]

Init ==
  /\ setup \in Setups
  /\ hub = [next |-> 1, admission |-> NoAdmission]
  /\ ingress = NewIngress
  /\ quota = [failed |-> FALSE, signal |-> FALSE]
  /\ loop = [pc |-> "idle", begun |-> 0, captured |-> FALSE, gap |-> 0,
             suppressed |-> 0, reported |-> 0, runClosed |-> FALSE]
  /\ writer = [pc |-> "poll", intent |-> "none", batch |-> << >>,
               watermark |-> 0, after |-> "status"]
  /\ store = [events |-> << >>, clean |-> FALSE]
  /\ channel = [command |-> "none", open |-> TRUE, reply |-> "none"]
  /\ failures = [producer |-> FALSE, writer |-> FALSE, first |-> FALSE]
  /\ main = [pc |-> "running", failed |-> FALSE, abandoned |-> FALSE,
             deadline |-> "unset"]

LatchQuota(q) == IF q.failed THEN q ELSE [failed |-> TRUE, signal |-> TRUE]

\* precheck and post_growth_measurement fail at the limit, and ever after.
QuotaMayFail == quota.failed \/ "quota" \in setup.faults

-----------------------------------------------------------------------------
(***************************************************************************)
(* Admission.  admit_inner holds the hub's lock from the sequence number   *)
(* to the commit of the reservation, so one admission is in progress at a  *)
(* time; the writer and the main thread run in between.                    *)
(***************************************************************************)
HubFree == hub.admission = NoAdmission

\* Where the event loop goes on after its event was accepted, or refused.
LoopAccepted ==
  CASE loop.pc = "gap" ->
         [loop EXCEPT !.pc = "idle", !.reported = @ + loop.gap, !.gap = 0]
    [] loop.pc = "finalGap" ->
         [loop EXCEPT !.pc = "terminal", !.reported = @ + loop.gap, !.gap = 0]
    [] loop.pc = "terminal" -> [loop EXCEPT !.pc = "closed", !.runClosed = TRUE]
    [] loop.pc = "idle" -> loop

LoopRefused ==
  CASE loop.pc \in {"gap", "idle"} -> [loop EXCEPT !.pc = "idle"]
    [] loop.pc \in {"finalGap", "terminal"} -> [loop EXCEPT !.pc = "closed"]

\* Every producer latches the refusal of its event in the Runtime producer.
Refused(by) ==
  /\ failures' = [failures EXCEPT !.producer = TRUE]
  /\ loop' = IF by = "loop" THEN LoopRefused ELSE loop
  /\ hub' = [hub EXCEPT !.admission = NoAdmission]

\* admit_inner up to the reservation, with DurableAdmission in front of the ingress.
BeginAdmission(by, class, bytes) ==
  /\ HubFree
  /\ \/ /\ hub.next > setup.last
        /\ Refused(by)
        /\ UNCHANGED <<ingress, quota>>
     \/ /\ hub.next <= setup.last /\ QuotaMayFail
        /\ quota' = LatchQuota(quota)
        /\ ingress' = Seal(ingress)
        /\ Refused(by)
     \/ /\ hub.next <= setup.last /\ ~ quota.failed
        /\ ingress.sealed
        /\ Refused(by)
        /\ UNCHANGED <<ingress, quota>>
     \/ /\ hub.next <= setup.last /\ ~ quota.failed
        /\ ~ ingress.sealed /\ OverBudget(ingress, bytes)
        /\ ingress' = LatchIngress(ingress, "budget")
        /\ Refused(by)
        /\ UNCHANGED quota
     \/ /\ hub.next <= setup.last /\ ~ quota.failed
        /\ ~ ingress.sealed /\ ~ OverBudget(ingress, bytes)
        /\ ingress' = Reserve(ingress, class, bytes)
        /\ hub' = [hub EXCEPT !.admission = [by |-> by, class |-> class, bytes |-> bytes]]
        /\ UNCHANGED <<quota, loop, failures>>
  /\ UNCHANGED <<writer, store, channel, main>>

\* The other producers stop with the operation: Scenes are drained and
\* shutdown_agent_sessions has returned before supervise does.
AdmitOther ==
  /\ main.pc \in {"running", "settling"}
  /\ \E bytes \in setup.sizes : BeginAdmission("other", "normal", bytes)

AdmitCueEvent ==
  /\ loop.pc = "idle" /\ loop.captured
  /\ \E bytes \in setup.sizes : BeginAdmission("loop", "cue", bytes)

\* emit_cue_capture_gap, and the end of the Run span in finish_run.
AdmitLoopEvent ==
  /\ loop.pc \in {"gap", "finalGap", "terminal"}
  /\ \E bytes \in setup.sizes : BeginAdmission("loop", "normal", bytes)

\* The validator accepted the event: it takes its number and is queued.
CommitAdmission ==
  /\ ~ HubFree
  /\ ingress' = Accept(ingress, hub.next, hub.admission.bytes)
  /\ hub' = [next |-> hub.next + 1, admission |-> NoAdmission]
  /\ loop' = IF hub.admission.by = "loop" THEN LoopAccepted ELSE loop
  /\ UNCHANGED <<quota, writer, store, channel, failures, main>>

\* The validator refused it: the reservation is dropped, the number is not used.
RejectAdmission ==
  /\ ~ HubFree /\ "reference" \in setup.faults
  /\ ingress' = Release(ingress, hub.admission.bytes)
  /\ Refused(hub.admission.by)
  /\ UNCHANGED <<quota, writer, store, channel, main>>

-----------------------------------------------------------------------------
\* admission_started: a new Cue asks the ingress whether it is captured.
BeginCue ==
  /\ loop.pc = "idle" /\ HubFree
  /\ loop.begun < setup.cues
  /\ ingress' = BeginCueCapture(ingress)
  /\ LET begun == [loop EXCEPT !.begun = @ + 1]
     IN  CASE CaptureDecision(ingress) = "suppress" ->
                loop' = [begun EXCEPT !.suppressed = @ + 1]
           [] CaptureDecision(ingress) = "capture" ->
                loop' = [begun EXCEPT !.captured = TRUE]
           [] CaptureDecision(ingress) = "resume" ->
                loop' = [begun EXCEPT !.captured = TRUE, !.pc = "gap",
                                      !.gap = ingress.suppressed]
  /\ UNCHANGED <<hub, quota, writer, store, channel, failures, main>>

\* finish_run: the Cues still suppressed are reported before the Run span
\* ends; a latched producer failure skips all of it.
FinishRun ==
  /\ loop.pc = "idle"
  /\ \/ /\ failures.producer /\ hub.admission.by # "loop"
        /\ loop' = [loop EXCEPT !.pc = "closed"]
        /\ UNCHANGED ingress
     \/ /\ ~ failures.producer /\ HubFree
        /\ ingress' = FinishCueCapture(ingress)
        /\ loop' = [loop EXCEPT !.pc = IF ingress.suppressed > 0 THEN "finalGap" ELSE "terminal",
                                !.gap = ingress.suppressed]
  /\ UNCHANGED <<hub, quota, writer, store, channel, failures, main>>

-----------------------------------------------------------------------------
(***************************************************************************)
(* The writer thread.  "pc" is the place in the loop of run_writer; its    *)
(* batch is the BatchAccumulator, and "after" the place that commit_batch  *)
(* returns to.                                                             *)
(***************************************************************************)
WriterExited == writer.pc \in {"ok", "failed"}

\* The age of the oldest event in the batch is left open: a batch that is
\* not empty may be due at any time.
BatchIsFull(batch) == Len(batch) >= BatchEvents \/ TotalBytes(batch) >= BatchBytes

At(place) == writer.pc = place

GoTo(place) == writer' = [writer EXCEPT !.pc = place]

\* run_writer returns an error: the thread seals the ingress and reports it.
WriterFails(i) ==
  /\ GoTo("failed")
  /\ ingress' = Seal(i)
  /\ failures' = [failures EXCEPT !.writer = TRUE]
  /\ UNCHANGED <<hub, loop, main>>

\* The failure signals are polled before the commands.
WPoll ==
  /\ At("poll")
  /\ \/ /\ ingress.signal \/ quota.signal
        /\ WriterFails(ingress)
     \/ /\ ~ ingress.signal /\ ~ quota.signal
        /\ GoTo("command")
        /\ UNCHANGED <<hub, ingress, loop, failures, main>>
  /\ UNCHANGED <<quota, store, channel>>

\* Finalize, Close, Abort, or a dropped sender, unless one was received before.
ReceivedIntent ==
  CASE writer.intent # "none" -> writer.intent
    [] writer.intent = "none" /\ channel.command = "finalize" -> "finalize"
    [] writer.intent = "none" /\ channel.command \in {"close", "abort"} -> "abort"
    [] writer.intent = "none" /\ channel.command = "none" ->
         IF channel.open THEN "none" ELSE "abort"

WCommand ==
  /\ At("command")
  /\ channel' = IF writer.intent = "none" THEN [channel EXCEPT !.command = "none"] ELSE channel
  /\ \/ /\ writer' = [writer EXCEPT !.pc = "dequeue", !.intent = ReceivedIntent]
        /\ UNCHANGED <<hub, ingress, loop, failures, main>>
     \/ /\ ReceivedIntent # writer.intent  \* observe_progress, on a new intent
        /\ "stall" \in setup.faults /\ PendingEvents(ingress) > 0
        /\ WriterFails(ingress)
  /\ UNCHANGED <<quota, store>>

\* try_dequeue and push, until the queue is empty or a batch is triggered.
WDequeue ==
  /\ At("dequeue")
  /\ IF QueuedAt(ingress) = {}
     THEN GoTo("flush") /\ UNCHANGED ingress
     ELSE LET event == ingress.outstanding[FirstQueued(ingress)]
              batch == Append(writer.batch, [sequence |-> event.sequence, bytes |-> event.bytes])
          IN  /\ ingress' = Dequeue(ingress)
              /\ \/ writer' = [writer EXCEPT !.batch = batch, !.pc = "commit", !.after = "dequeue"]
                 \/ /\ ~ BatchIsFull(batch)
                    /\ writer' = [writer EXCEPT !.batch = batch]
  /\ UNCHANGED <<hub, quota, loop, store, channel, failures, main>>

WFlush ==
  /\ At("flush")
  /\ \/ /\ writer.batch # << >>
        /\ writer' = [writer EXCEPT !.pc = "commit", !.after = "status"]
     \/ /\ writer.batch = << >> \/ writer.intent = "none"
        /\ GoTo("status")
  /\ UNCHANGED <<hub, ingress, quota, loop, store, channel, failures, main>>

\* commit_batch up to the end of the transaction; a failure rolls it back.
WCommit ==
  /\ At("commit")
  /\ \/ /\ QuotaMayFail
        /\ quota' = LatchQuota(quota)
        /\ WriterFails(ingress)
        /\ UNCHANGED store
     \/ /\ "store" \in setup.faults \/ writer.batch[1].sequence # writer.watermark + 1
        /\ WriterFails(ingress)
        /\ UNCHANGED <<quota, store>>
     \/ /\ ~ quota.failed
        /\ writer.batch[1].sequence = writer.watermark + 1
        /\ store' = [store EXCEPT !.events =
                       @ \o [n \in DOMAIN writer.batch |-> writer.batch[n].sequence]]
        /\ GoTo("committed")
        /\ UNCHANGED <<hub, ingress, quota, loop, failures, main>>
  /\ UNCHANGED channel

Notification ==
  [previous |-> writer.watermark,
   committed |-> writer.batch[Len(writer.batch)].sequence,
   events |-> Len(writer.batch),
   bytes |-> TotalBytes(writer.batch)]

\* The rest of commit_batch: the watermark advances, the ingress releases
\* the events, and the quota is measured again.
WCommitted ==
  /\ At("committed")
  /\ \/ /\ "refresh" \in setup.faults
        /\ WriterFails(ingress)
        /\ UNCHANGED quota
     \/ /\ QuotaMayFail
        /\ quota' = LatchQuota(quota)
        /\ WriterFails(MarkCommitted(ingress, Notification))
     \/ /\ ~ quota.failed
        /\ ingress' = MarkCommitted(ingress, Notification)
        /\ writer' = [writer EXCEPT !.pc = writer.after, !.batch = << >>,
                                    !.watermark = Notification.committed]
        /\ UNCHANGED <<hub, quota, loop, failures, main>>
  /\ UNCHANGED <<store, channel>>

\* A plausible slip: a reservation does not count as pending.
ReadyWithReservation ==
  writer.intent # "none" /\ ingress.outstanding = << >> /\ writer.batch = << >>

\* Events reserved but not yet committed to the ingress count as pending.
ReadyToClose ==
  writer.intent # "none" /\ PendingEvents(ingress) = 0 /\ writer.batch = << >>

WStatus ==
  /\ At("status")
  /\ \/ /\ "stall" \in setup.faults /\ PendingEvents(ingress) > 0
        /\ WriterFails(ingress)
     \/ /\ GoTo(CASE ~ ReadyToClose -> "poll"
                  [] ReadyToClose /\ writer.intent = "finalize" -> "finalize"
                  [] ReadyToClose /\ writer.intent = "abort" -> "closing")
        /\ UNCHANGED <<hub, ingress, loop, failures, main>>
  /\ UNCHANGED <<quota, store, channel>>

\* The finalization.  shutdown_abandoned is read here, and once more at the
\* end of the transaction (CancellationHook); the commit itself comes after.
FinalizeFails ==
  /\ channel' = [channel EXCEPT !.reply = "err"]
  /\ WriterFails(ingress)

WFinalize ==
  /\ At("finalize")
  /\ \/ /\ main.abandoned
        /\ FinalizeFails
     \/ /\ ~ main.abandoned
        /\ GoTo("beforeCommit")
        /\ UNCHANGED <<hub, ingress, loop, channel, failures, main>>
  /\ UNCHANGED <<quota, store>>

WBeforeCommit ==
  /\ At("beforeCommit")
  /\ \/ /\ main.abandoned \/ "store" \in setup.faults
        /\ FinalizeFails
     \/ /\ ~ main.abandoned
        /\ GoTo("finalCommit")
        /\ UNCHANGED <<hub, ingress, loop, channel, failures, main>>
  /\ UNCHANGED <<quota, store>>

WFinalCommit ==
  /\ At("finalCommit")
  /\ \/ /\ "store" \in setup.faults
        /\ FinalizeFails
        /\ UNCHANGED store
     \/ /\ store' = [store EXCEPT !.clean = TRUE]
        /\ GoTo("finalized")
        /\ UNCHANGED <<hub, ingress, loop, channel, failures, main>>
  /\ UNCHANGED quota

\* A guard that gave up waiting drops the receiver of the reply, soon after
\* it has set shutdown_abandoned.
WFinalized ==
  /\ At("finalized")
  /\ \/ /\ "refresh" \in setup.faults
        /\ FinalizeFails
        /\ UNCHANGED quota
     \/ /\ QuotaMayFail
        /\ quota' = LatchQuota(quota)
        /\ FinalizeFails
     \/ /\ ~ quota.failed /\ main.pc # "awaiting"
        /\ WriterFails(ingress)
        /\ UNCHANGED <<quota, channel>>
     \/ /\ ~ quota.failed /\ main.pc \in {"awaiting", "released"}
        /\ channel' = [channel EXCEPT !.reply = "ok"]
        /\ GoTo("waitClose")
        /\ UNCHANGED <<hub, ingress, quota, loop, failures, main>>
  /\ UNCHANGED store

\* wait_for_writer_close blocks for Close, Abort or the end of the sender.
WWaitClose ==
  /\ At("waitClose")
  /\ channel.command # "none" \/ ~ channel.open
  /\ channel' = [channel EXCEPT !.command = "none"]
  /\ GoTo("closing")
  /\ UNCHANGED <<hub, ingress, quota, loop, store, failures, main>>

\* checkpoint_and_close_writer.
WClose ==
  /\ At("closing")
  /\ \/ /\ "store" \in setup.faults
        /\ WriterFails(ingress)
        /\ UNCHANGED quota
     \/ /\ QuotaMayFail
        /\ quota' = LatchQuota(quota)
        /\ WriterFails(ingress)
     \/ /\ ~ quota.failed
        /\ GoTo("ok")
        /\ UNCHANGED <<hub, ingress, quota, loop, failures, main>>
  /\ UNCHANGED <<store, channel>>

WriterStep ==
  /\ \/ WPoll \/ WCommand \/ WDequeue \/ WFlush \/ WCommit \/ WCommitted \/ WStatus
     \/ WFinalize \/ WBeforeCommit \/ WFinalCommit \/ WFinalized \/ WWaitClose \/ WClose
  /\ UNCHANGED setup

-----------------------------------------------------------------------------
(***************************************************************************)
(* The main thread: supervise while the Run lasts, then shutdown_ordered.  *)
(***************************************************************************)

\* try_core_failure: it empties the writer's failure channel.
CoreFailure == failures.first \/ failures.writer \/ failures.producer

Probe ==
  /\ failures' = [failures EXCEPT !.first = CoreFailure, !.writer = @ /\ failures.first]
  /\ ingress' = IF CoreFailure THEN Seal(ingress) ELSE ingress

\* A tick of the poll that finds a failure seals the ingress and requests
\* shutdown; from then on supervise only waits for the operation.
MPoll ==
  /\ main.pc = "running" /\ CoreFailure
  /\ Probe
  /\ main' = [main EXCEPT !.pc = "settling", !.failed = TRUE]
  /\ UNCHANGED <<hub, quota, loop, writer, store, channel>>

\* The operation has returned; a failure not seen before is looked for once more.
MOperationReturned ==
  /\ main.pc \in {"running", "settling"} /\ loop.pc = "closed"
  /\ IF main.pc = "running"
     THEN Probe /\ main' = [main EXCEPT !.pc = "ended", !.failed = CoreFailure]
     ELSE main' = [main EXCEPT !.pc = "ended"] /\ UNCHANGED <<failures, ingress>>
  /\ UNCHANGED <<hub, quota, loop, writer, store, channel>>

\* shutdown_ordered: after a failure, before the Run has closed, or without
\* a terminal timestamp the guard aborts; otherwise it shuts down cleanly.
\* Both seal the ingress first.
MShutdown ==
  /\ main.pc = "ended"
  /\ ingress' = Seal(ingress)
  /\ LET aborts == failures.first \/ failures.producer \/ ~ loop.runClosed
     IN  \/ /\ aborts \/ "clock" \in setup.faults
            /\ main' = [main EXCEPT !.pc = "aborting", !.failed = TRUE]
         \/ /\ ~ aborts
            /\ main' = [main EXCEPT !.pc = "finalizing"]
  /\ UNCHANGED <<hub, quota, loop, writer, store, channel, failures>>

\* abandon_thread: the writer thread is detached, with its command sender.
Abandon(m) == [m EXCEPT !.abandoned = TRUE, !.failed = TRUE, !.pc = "released"]

DropSender == channel' = [channel EXCEPT !.open = FALSE]

\* WriterSupervisor::finalize: send, then wait for the reply until the deadline.
MFinalize ==
  /\ main.pc = "finalizing"
  /\ IF WriterExited
     THEN main' = [Abandon(main) EXCEPT !.deadline = "running"] /\ DropSender
     ELSE /\ main' = [main EXCEPT !.pc = "awaiting", !.deadline = "running"]
          /\ channel' = [channel EXCEPT !.command = "finalize"]
  /\ UNCHANGED <<hub, ingress, quota, loop, writer, store, failures>>

MReply ==
  /\ main.pc = "awaiting" /\ channel.reply # "none"
  /\ main' = [main EXCEPT !.pc = "closing", !.failed = @ \/ channel.reply = "err"]
  /\ UNCHANGED <<hub, ingress, quota, loop, writer, store, channel, failures>>

\* A plausible slip: recv in place of recv_timeout.
MNoReplyWithoutTimeout ==
  /\ main.pc = "awaiting" /\ channel.reply = "none"
  /\ WriterExited
  /\ main' = Abandon(main)
  /\ DropSender
  /\ UNCHANGED <<hub, ingress, quota, loop, writer, store, failures>>

\* No reply, because the time is up or because the writer has exited.
MNoReply ==
  /\ main.pc = "awaiting" /\ channel.reply = "none"
  /\ main.deadline = "passed" \/ WriterExited
  /\ main' = Abandon(main)
  /\ DropSender
  /\ UNCHANGED <<hub, ingress, quota, loop, writer, store, failures>>

\* The stream, the registry and the server are closed, then the writer is
\* joined: with Close after a finalization, with Abort otherwise.  Without a
\* thread to join there is nothing left to do.
MCloseServices ==
  /\ main.pc \in {"aborting", "closing", "released"}
  /\ \E failed \in BOOLEAN :
       /\ failed => "services" \in setup.faults
       /\ IF main.pc = "released"
          THEN main' = [main EXCEPT !.pc = "exit", !.failed = @ \/ failed] /\ UNCHANGED channel
          ELSE IF WriterExited
          THEN main' = [main EXCEPT !.pc = "exit", !.failed = TRUE, !.abandoned = TRUE]
               /\ DropSender
          ELSE /\ main' = [main EXCEPT !.pc = "joining", !.failed = @ \/ failed,
                                       !.deadline = IF @ = "unset" THEN "running" ELSE @]
               /\ channel' = [channel EXCEPT !.open = FALSE,
                                !.command = IF main.pc = "aborting" THEN "abort" ELSE "close"]
  /\ UNCHANGED <<hub, ingress, quota, loop, writer, store, failures>>

\* A plausible slip: the result of the joined thread is dropped.
MJoinForgettingResult ==
  /\ main.pc = "joining"
  /\ \/ /\ WriterExited
        /\ main' = [main EXCEPT !.pc = "exit"]
     \/ /\ ~ WriterExited /\ main.deadline = "passed"
        /\ main' = [main EXCEPT !.pc = "exit", !.failed = TRUE, !.abandoned = TRUE]
  /\ UNCHANGED <<hub, ingress, quota, loop, writer, store, channel, failures>>

MJoin ==
  /\ main.pc = "joining"
  /\ \/ /\ WriterExited
        /\ main' = [main EXCEPT !.pc = "exit", !.failed = @ \/ At("failed")]
     \/ /\ ~ WriterExited /\ main.deadline = "passed"
        /\ main' = [main EXCEPT !.pc = "exit", !.failed = TRUE, !.abandoned = TRUE]
  /\ UNCHANGED <<hub, ingress, quota, loop, writer, store, channel, failures>>

MDeadline ==
  /\ "time" \in setup.faults /\ main.deadline = "running"
  /\ main' = [main EXCEPT !.deadline = "passed"]
  /\ UNCHANGED <<hub, ingress, quota, loop, writer, store, channel, failures, setup>>

MainStep ==
  /\ \/ MPoll \/ MOperationReturned \/ MShutdown \/ MFinalize \/ MReply \/ MNoReply
     \/ MCloseServices \/ MJoin
  /\ UNCHANGED setup

\* The process is over, and so is the writer.
Done ==
  /\ main.pc = "exit" /\ WriterExited
  /\ UNCHANGED vars

ProducerStep ==
  /\ \/ AdmitOther \/ AdmitCueEvent \/ AdmitLoopEvent \/ CommitAdmission \/ RejectAdmission
     \/ BeginCue \/ FinishRun
  /\ UNCHANGED setup

Next == ProducerStep \/ WriterStep \/ MainStep \/ MDeadline \/ Done

Spec == Init /\ [][Next]_vars

-----------------------------------------------------------------------------
(***************************************************************************)
(* Fairness.  The main thread and the operating system's clock go on; the  *)
(* deadline bounds every wait of the guard.  The writer's thread goes on   *)
(* too unless it hangs in a transaction, and a batch that is not full      *)
(* becomes due (MAX_BATCH_AGE) if the writer keeps asking.                 *)
(***************************************************************************)
GuardFairness == WF_vars(MainStep) /\ WF_vars(MDeadline)

DueBatch == At("flush") /\ WFlush /\ writer'.pc = "commit" /\ UNCHANGED setup

WriterFairness == WF_vars(WriterStep) /\ SF_vars(DueBatch)

GuardSpec == Spec /\ GuardFairness

-----------------------------------------------------------------------------
Admissions ==
  {NoAdmission} \cup [by : {"loop", "other"}, class : {"normal", "cue"}, bytes : Sizes]

LoopStates(cues) ==
  [pc : {"idle", "gap", "finalGap", "terminal", "closed"}, begun : 0 .. cues,
   captured : BOOLEAN, gap : 0 .. cues, suppressed : 0 .. cues, reported : 0 .. cues,
   runClosed : BOOLEAN]

Places == {"poll", "command", "dequeue", "flush", "commit", "committed", "status",
           "finalize", "beforeCommit", "finalCommit", "finalized", "waitClose",
           "closing", "ok", "failed"}

Batched == [sequence : Nat \ {0}, bytes : Sizes]

WriterStates ==
  [pc : Places, intent : {"none", "finalize", "abort"}, batch : Seq(Batched),
   watermark : Nat, after : {"dequeue", "status"}]

ChannelStates ==
  [command : {"none", "finalize", "close", "abort"}, open : BOOLEAN,
   reply : {"none", "ok", "err"}]

MainStates ==
  [pc : {"running", "settling", "ended", "aborting", "finalizing", "awaiting",
         "closing", "released", "joining", "exit"},
   failed : BOOLEAN, abandoned : BOOLEAN, deadline : {"unset", "running", "passed"}]

\* Every variable keeps its type.
PipelineTypeInv ==
  /\ hub \in [next : 1 .. MaxSequence + 1, admission : Admissions]
  /\ ingress \in IngressStates
  /\ quota \in [failed : BOOLEAN, signal : BOOLEAN]
  /\ loop \in LoopStates(setup.cues)
  /\ writer \in WriterStates
  /\ store \in [events : Seq(Nat \ {0}), clean : BOOLEAN]
  /\ channel \in ChannelStates
  /\ failures \in [producer : BOOLEAN, writer : BOOLEAN, first : BOOLEAN]
  /\ main \in MainStates

InFlightAt(queue) == {n \in DOMAIN queue : queue[n].phase = "inflight"}

\* The hub, the queue, the accumulator, the archive and the watermarks of
\* writer and ingress describe one log: the archive holds 1 .. n, the queue
\* the rest up to the last number given out, the in-flight part of the queue
\* is what the accumulator holds, and the two overlap only between the commit
\* of a batch and its release (commit_batch_with_hook).
StoreAndQueueAreOneLog ==
  LET queue == ingress.outstanding
      inFlight == InFlightAt(queue)
      overlap == IF Len(store.events) > ingress.committed THEN Len(writer.batch) ELSE 0
  IN  /\ \A n \in DOMAIN store.events : store.events[n] = n
      /\ \A n \in DOMAIN queue : queue[n].sequence = ingress.committed + n
      /\ \E k \in 0 .. Len(queue) : inFlight = 1 .. k
      /\ hub.next = ingress.committed + Len(queue) + 1
      /\ Len(store.events) = ingress.committed + overlap
      /\ ~ WriterExited => /\ writer.watermark = ingress.committed
                           /\ inFlight = DOMAIN writer.batch
                           /\ \A n \in inFlight :
                                writer.batch[n] = [sequence |-> queue[n].sequence,
                                                   bytes |-> queue[n].bytes]

\* The budget of the ingress is never exceeded, its byte counters are the
\* bytes of what it holds, reservations included, the accounting failure of
\* mark_committed and IngressReservation::commit is never latched, and hub,
\* queue, accumulator and archive are one log.  Every Cue that was not captured
\* is in a gap event that the hub accepted, in the one being emitted, or still
\* counted by the ingress; only a latched producer failure loses one.
AccountingIsExact ==
  /\ PipelineTypeInv
  /\ StoreAndQueueAreOneLog
  /\ ingress.failure # "accounting"
  /\ ingress.outstandingBytes = TotalBytes(ingress.outstanding)
  /\ ingress.reservedBytes = hub.admission.bytes
  /\ ingress.reservedEvents = IF HubFree THEN 0 ELSE 1
  /\ PendingEvents(ingress) <= MaxEvents /\ PendingBytes(ingress) <= MaxBytes
  /\ failures.producer \/ loop.suppressed = loop.reported + loop.gap + ingress.suppressed

\* Exit code 0 means that the archive is marked clean and holds every event
\* the hub accepted, that every suppressed Cue is reported in it, and that
\* the writer has closed the store and gone.
SuccessMeansComplete ==
  main.pc = "exit" /\ ~ main.failed =>
    /\ store.clean /\ Len(store.events) = hub.next - 1
    /\ loop.runClosed /\ loop.reported = loop.suppressed
    /\ writer.pc = "ok" /\ ~ main.abandoned

\* A guard that gives up (abandon_thread, join_after) leaves the archive
\* unclean for good, unless the writer had already passed the last check of
\* shutdown_abandoned before its commit.
AbandonedRunStaysUnclean ==
  [](main.abandoned /\ ~ At("finalCommit") /\ ~ store.clean => []~ store.clean)

\* The pipeline implements the durable log.
Log == INSTANCE DurableLog WITH Limit <- MaxSequence, accepted <- hub.next - 1,
                                stored <- Len(store.events), clean <- store.clean

ArchiveIsDurableLog == Log!LogSpec

\* Once the Run has ended the process exits, even if the writer thread hangs:
\* every wait of the guard is bounded by the shutdown deadline.
ShutdownIsBounded == main.pc = "ended" ~> main.pc = "exit"

\* If the writer's thread goes on, an accepted event reaches the archive or the
\* writer reports a failure.
AcceptedEventsAreSettled ==
  WriterFairness =>
    \A n \in 1 .. MaxSequence :
      hub.next > n ~> (Len(store.events) >= n \/ At("failed"))

\* A Run settles: the process exits whatever the writer does, an archive given
\* up stays unclean, and with a live writer no accepted event is left behind.
RunsSettle == ShutdownIsBounded /\ AbandonedRunStaysUnclean /\ AcceptedEventsAreSettled

=============================================================================
