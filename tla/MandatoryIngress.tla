-------------------------- MODULE MandatoryIngress --------------------------
(***************************************************************************)
(* The mandatory diagnostic ingress (store/admission.rs): the bounded      *)
(* queue between the producers of diagnostic events and the writer thread. *)
(* Every operation runs under the one mutex of SharedIngress, so each is   *)
(* an operator from a state of the ingress to its next state.              *)
(*                                                                         *)
(* An event is its sequence number and the length of its canonical bytes.  *)
(* Only one Run exists, so run_id is left out; so is the fatal admission   *)
(* slot (fatal_state), which nothing in rust/src ever asks for.  "signal"  *)
(* is the one-element channel of failure_sender.                           *)
(***************************************************************************)
EXTENDS Integers, Sequences

CONSTANTS MaxEvents, MaxBytes,        \* MAX_UNCOMMITTED_{EVENTS,CANONICAL_BYTES}
          PauseEvents, PauseBytes,    \* CUE_CAPTURE_PAUSE_*
          ResumeEvents, ResumeBytes,  \* CUE_CAPTURE_RESUME_*
          Sizes                       \* lengths of canonical events

ASSUME BudgetAssumption ==
  /\ MaxEvents \in Nat /\ PauseEvents \in 1 .. MaxEvents
  /\ MaxBytes \in Nat /\ PauseBytes \in 1 .. MaxBytes
  /\ ResumeEvents \in 0 .. PauseEvents - 1
  /\ ResumeBytes \in 0 .. PauseBytes - 1
  /\ Sizes \subseteq Nat \ {0}

IngressFailures == {"budget", "accounting"}

Tracked == [sequence : Nat \ {0}, bytes : Sizes, phase : {"queued", "inflight"}]

IngressStates ==
  [reservedEvents : Nat, reservedBytes : Nat,
   outstanding : Seq(Tracked), outstandingBytes : Nat,
   committed : Nat, sealed : BOOLEAN, paused : BOOLEAN, suppressed : Nat,
   failure : IngressFailures \cup {"none"}, signal : BOOLEAN]

NewIngress ==
  [reservedEvents |-> 0, reservedBytes |-> 0,
   outstanding |-> << >>, outstandingBytes |-> 0,
   committed |-> 0, sealed |-> FALSE, paused |-> FALSE, suppressed |-> 0,
   failure |-> "none", signal |-> FALSE]

-----------------------------------------------------------------------------
\* What is accepted and not yet committed, reservations included.
PendingEvents(i) == i.reservedEvents + Len(i.outstanding)
PendingBytes(i) == i.reservedBytes + i.outstandingBytes

TotalBytes(s) ==
  LET sum[n \in 0 .. Len(s)] == IF n = 0 THEN 0 ELSE sum[n - 1] + s[n].bytes
  IN  sum[Len(s)]

SaturatingSub(a, b) == IF b > a THEN 0 ELSE a - b

\* seal_normal_ingress, and seal_for_external_core_failure without the fatal slot.
Seal(i) == [i EXCEPT !.sealed = TRUE]

\* latch_failure: the first failure stays, and is the only one sent.
LatchIngress(i, kind) ==
  IF i.failure # "none"
  THEN Seal(i)
  ELSE [Seal(i) EXCEPT !.failure = kind, !.signal = TRUE]

-----------------------------------------------------------------------------

OverBudget(i, bytes) ==
  PendingEvents(i) + 1 > MaxEvents \/ PendingBytes(i) + bytes > MaxBytes

AtPause(events, bytes) == events >= PauseEvents \/ bytes >= PauseBytes

\* reserve, for an open ingress that has the room.  A Cue whose event reaches
\* the pause threshold closes the capture for the next Cue.
Reserve(i, class, bytes) ==
  [i EXCEPT !.reservedEvents = @ + 1,
            !.reservedBytes = @ + bytes,
            !.paused = \/ @
                       \/ /\ class = "cue"
                          /\ AtPause(PendingEvents(i) + 1, PendingBytes(i) + bytes)]

\* A reservation is dropped.
Release(i, bytes) ==
  [i EXCEPT !.reservedEvents = SaturatingSub(@, 1),
            !.reservedBytes = SaturatingSub(@, bytes)]

NextExpected(i) ==
  IF i.outstanding = << >>
  THEN i.committed + 1
  ELSE i.outstanding[Len(i.outstanding)].sequence + 1

\* IngressReservation::commit.  An event out of order is kept, and latched.
Accept(i, sequence, bytes) ==
  LET tracked == [sequence |-> sequence, bytes |-> bytes, phase |-> "queued"]
      checked == IF sequence = NextExpected(i) THEN i ELSE LatchIngress(i, "accounting")
  IN  [Release(checked, bytes) EXCEPT !.outstanding = Append(@, tracked),
                                      !.outstandingBytes = @ + bytes]

-----------------------------------------------------------------------------
QueuedAt(i) == {n \in DOMAIN i.outstanding : i.outstanding[n].phase = "queued"}

FirstQueued(i) == CHOOSE n \in QueuedAt(i) : \A m \in QueuedAt(i) : n <= m

\* try_dequeue, when an event is queued.
Dequeue(i) == [i EXCEPT !.outstanding[FirstQueued(i)].phase = "inflight"]

\* validate_commit: the notification names the in-flight, dense prefix.
ValidCommit(i, note) ==
  /\ note.previous = i.committed
  /\ note.events <= Len(i.outstanding)
  /\ \A n \in 1 .. note.events : /\ i.outstanding[n].phase = "inflight"
                                 /\ i.outstanding[n].sequence = i.committed + n
  /\ note.committed = i.committed + note.events
  /\ note.bytes = TotalBytes(SubSeq(i.outstanding, 1, note.events))

\* A plausible slip: the byte count of the committed prefix is not returned.
MarkCommittedKeepingBytes(i, note) ==
  IF ~ ValidCommit(i, note)
  THEN LatchIngress(i, "accounting")
  ELSE [i EXCEPT !.outstanding = SubSeq(@, note.events + 1, Len(@)),
                 !.committed = note.committed]

MarkCommitted(i, note) ==
  IF ~ ValidCommit(i, note)
  THEN LatchIngress(i, "accounting")
  ELSE [i EXCEPT !.outstanding = SubSeq(@, note.events + 1, Len(@)),
                 !.outstandingBytes = @ - note.bytes,
                 !.committed = note.committed]

-----------------------------------------------------------------------------
Drained(i) == PendingEvents(i) <= ResumeEvents /\ PendingBytes(i) <= ResumeBytes

\* begin_cue_capture: what a new Cue is told, and what that does to the ingress.
CaptureDecision(i) ==
  CASE i.sealed -> "capture"
    [] ~ i.sealed /\ i.paused /\ Drained(i) ->
         IF i.suppressed = 0 THEN "capture" ELSE "resume"
    [] ~ i.sealed /\ i.paused /\ ~ Drained(i) -> "suppress"
    [] ~ i.sealed /\ ~ i.paused ->
         IF AtPause(PendingEvents(i), PendingBytes(i)) THEN "suppress" ELSE "capture"

\* A plausible slip: every suppressed Cue counts as the first of its pause.
BeginCueCaptureForgetful(i) ==
  CASE CaptureDecision(i) = "suppress" -> [i EXCEPT !.paused = TRUE, !.suppressed = 1]
    [] CaptureDecision(i) # "suppress" /\ ~ i.sealed /\ i.paused ->
         [i EXCEPT !.paused = FALSE, !.suppressed = 0]
    [] OTHER -> i

BeginCueCapture(i) ==
  CASE CaptureDecision(i) = "suppress" ->
         [i EXCEPT !.paused = TRUE, !.suppressed = IF i.paused THEN @ + 1 ELSE 1]
    [] CaptureDecision(i) # "suppress" /\ ~ i.sealed /\ i.paused ->
         [i EXCEPT !.paused = FALSE, !.suppressed = 0]
    [] OTHER -> i

\* finish_cue_capture: the caller reports the suppressed Cues it returns.
FinishCueCapture(i) == [i EXCEPT !.paused = FALSE, !.suppressed = 0]
=============================================================================
