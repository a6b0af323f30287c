----------------------- MODULE DiagnosticWriterProofs -----------------------
(***************************************************************************)
(* The rest of the proof that PipelineInv is an invariant of               *)
(* DiagnosticPipeline: the steps of the writer thread and of the main      *)
(* thread; and what follows from it: exact accounting, that exit code 0    *)
(* means a complete archive, that an archive given up stays unclean, and   *)
(* that the pipeline implements DurableLog.                                *)
(***************************************************************************)
EXTENDS DiagnosticPipelineProofs

-----------------------------------------------------------------------------
(* The writer thread.                                                      *)

QuotaStates == [failed : BOOLEAN, signal : BOOLEAN]

\* A quota that latches its failure is still a quota.
LEMMA LatchedQuota ==
  ASSUME PipelineTypeInv
  PROVE  quota \in QuotaStates /\ LatchQuota(quota) \in QuotaStates
BY DEF PipelineTypeInv, QuotaStates, LatchQuota

\* A writer that only goes to another place keeps the rest.
LEMMA GoToFacts ==
  ASSUME writer \in WriterStates, NEW p \in Places, writer' = [writer EXCEPT !.pc = p]
  PROVE  /\ writer' \in WriterStates /\ writer'.pc = p
         /\ writer'.intent = writer.intent /\ writer'.batch = writer.batch
         /\ writer'.watermark = writer.watermark
BY DEF WriterStates

\* A step of the writer that leaves hub, queue and batch alone.
LEMMA WriterFrame ==
  ASSUME PipelineInv, UNCHANGED <<hub, loop, main, setup>>, Sealing(ingress, ingress'),
         failures' \in [producer : BOOLEAN, writer : BOOLEAN, first : BOOLEAN],
         failures'.producer = failures.producer, quota' \in QuotaStates,
         channel' \in ChannelStates, writer' \in WriterStates,
         store' \in [events : Seq(Nat \ {0}), clean : BOOLEAN], store'.events = store.events,
         writer'.batch = writer.batch, writer'.watermark = writer.watermark,
         ~ WriterExited,
         ~ WriterExited' => (writer'.pc = "committed" <=> writer.pc = "committed"),
         writer'.pc \in {"commit", "committed"} => writer.batch # << >>
  PROVE  AdmissionInv' /\ LogInv' /\ CaptureInv'
<1>1. AdmissionInv /\ LogInv /\ CaptureInv /\ PipelineTypeInv /\ ingress.failure # "accounting"
  BY DEF PipelineInv, AdmissionInv
<1>2. PipelineTypeInv'
  BY <1>1 DEF PipelineTypeInv, Sealing, QuotaStates
<1>3. AdmissionInv'
  BY <1>1, <1>2, AdmissionFrame DEF Sealing
<1>4. LogInv'
  BY <1>1, LogFrame DEF Sealing
<1>5. CaptureInv'
  BY <1>1, CaptureFrame DEF Sealing
<1>6. QED
  BY <1>3, <1>4, <1>5

\* run_writer fails: the ingress is sealed and the failure is sent.
LEMMA WriterFailsStep ==
  ASSUME PipelineInv, WriterFails(ingress), ~ WriterExited, quota' \in QuotaStates,
         channel' \in ChannelStates,
         channel'.reply = channel.reply \/ (channel'.reply = "err" /\ channel.reply # "ok"),
         UNCHANGED <<store, setup>>
  PROVE  PipelineInv'
<1>1. /\ AdmissionInv /\ EndInv /\ PipelineTypeInv
      /\ ingress \in IngressStates /\ writer \in WriterStates
  BY DEF PipelineInv, AdmissionInv, PipelineTypeInv
<1>2. /\ writer' = [writer EXCEPT !.pc = "failed"] /\ ingress' = Seal(ingress)
      /\ failures' = [failures EXCEPT !.writer = TRUE] /\ UNCHANGED <<hub, loop, main>>
  BY DEF WriterFails, GoTo
<1>3. Sealing(ingress, ingress') /\ ingress'.sealed
  BY <1>1, <1>2, SealSeals
<1>4. /\ writer' \in WriterStates /\ writer'.pc = "failed" /\ writer'.batch = writer.batch
      /\ writer'.watermark = writer.watermark
  BY <1>1, <1>2, GoToFacts DEF Places
<1>5. /\ failures' \in [producer : BOOLEAN, writer : BOOLEAN, first : BOOLEAN]
      /\ failures'.producer = failures.producer
  BY <1>1, <1>2 DEF PipelineTypeInv
<1>6. AdmissionInv' /\ LogInv' /\ CaptureInv'
  <2>1. store' \in [events : Seq(Nat \ {0}), clean : BOOLEAN]
    BY <1>1 DEF PipelineTypeInv
  <2>2. WriterExited'
    BY <1>4 DEF WriterExited
  <2>3. QED
    BY <2>1, <2>2, <1>2, <1>3, <1>4, <1>5, WriterFrame
<1>7. EndInv'
  <2>1. Quiet => Quiet'
    BY <1>2, <1>3 DEF Quiet, HubFree, Sealing, SameQueue
  <2>2. writer.pc \notin {"ok", "failed"}
    BY DEF WriterExited
  <2>3. QED
    BY <2>1, <2>2, <1>1, <1>2, <1>3, <1>4 DEF EndInv
<1>8. QED
  BY <1>6, <1>7 DEF PipelineInv

\* Every other step of the writer that leaves hub, queue and batch alone.
LEMMA WriterMoves ==
  ASSUME PipelineInv, ~ WriterExited, UNCHANGED <<hub, ingress, loop, failures, main, setup>>,
         quota' = quota, channel' \in ChannelStates, writer' \in WriterStates,
         store' \in [events : Seq(Nat \ {0}), clean : BOOLEAN], store'.events = store.events,
         writer'.batch = writer.batch, writer'.watermark = writer.watermark,
         writer.pc # "committed", writer'.pc # "committed",
         writer'.pc = "commit" => writer.batch # << >>
  PROVE  AdmissionInv' /\ LogInv' /\ CaptureInv'
<1>1. Sealing(ingress, ingress') /\ quota' \in QuotaStates
  BY SealSeals, LatchedQuota DEF PipelineInv, AdmissionInv, PipelineTypeInv
<1>2. /\ failures' \in [producer : BOOLEAN, writer : BOOLEAN, first : BOOLEAN]
      /\ failures'.producer = failures.producer
  BY DEF PipelineInv, AdmissionInv, PipelineTypeInv
<1>3. QED
  BY <1>1, <1>2, WriterFrame

\* The failure signals.
LEMMA WPollStep ==
  ASSUME PipelineInv, WPoll, UNCHANGED setup
  PROVE  PipelineInv'
<1>1. /\ EndInv /\ PipelineTypeInv /\ writer \in WriterStates /\ quota \in QuotaStates
      /\ channel \in ChannelStates /\ writer.pc = "poll" /\ ~ WriterExited
      /\ store \in [events : Seq(Nat \ {0}), clean : BOOLEAN]
      /\ UNCHANGED <<quota, store, channel>>
  BY LatchedQuota DEF PipelineInv, AdmissionInv, PipelineTypeInv, WPoll, At, WriterExited
<1>2. CASE WriterFails(ingress)
  BY <1>1, <1>2, WriterFailsStep
<1>3. CASE GoTo("command") /\ UNCHANGED <<hub, ingress, loop, failures, main>>
  <2>1. /\ writer' \in WriterStates /\ writer'.pc = "command" /\ writer'.intent = writer.intent
        /\ writer'.batch = writer.batch /\ writer'.watermark = writer.watermark
    BY <1>1, <1>3, GoToFacts DEF GoTo, Places
  <2>2. AdmissionInv' /\ LogInv' /\ CaptureInv'
    BY <1>1, <1>3, <2>1, WriterMoves
  <2>3. EndInv'
    BY <1>1, <1>3, <2>1 DEF EndInv, Quiet, HubFree
  <2>4. QED
    BY <2>2, <2>3 DEF PipelineInv
<1>4. QED
  BY <1>2, <1>3 DEF WPoll

\* A command is received, or the deadline of the new intent has passed.
LEMMA WCommandStep ==
  ASSUME PipelineInv, WCommand, UNCHANGED setup
  PROVE  PipelineInv'
<1>1. /\ EndInv /\ PipelineTypeInv /\ writer \in WriterStates /\ quota \in QuotaStates
      /\ channel \in ChannelStates /\ writer.pc = "command" /\ ~ WriterExited
      /\ store \in [events : Seq(Nat \ {0}), clean : BOOLEAN]
      /\ UNCHANGED <<quota, store>>
  BY LatchedQuota DEF PipelineInv, AdmissionInv, PipelineTypeInv, WCommand, At, WriterExited
<1>2. /\ channel' \in ChannelStates /\ channel'.reply = channel.reply
      /\ channel'.command \in {"none", channel.command}
  BY <1>1 DEF WCommand, ChannelStates
<1>3. CASE WriterFails(ingress)
  BY <1>1, <1>2, <1>3, WriterFailsStep
<1>4. CASE /\ writer' = [writer EXCEPT !.pc = "dequeue", !.intent = ReceivedIntent]
           /\ UNCHANGED <<hub, ingress, loop, failures, main>>
  <2>1. /\ ReceivedIntent \in {"none", "finalize", "abort"}
        /\ ReceivedIntent = "finalize" => writer.intent = "finalize" \/ channel.command = "finalize"
    BY <1>1 DEF ReceivedIntent, WriterStates, ChannelStates
  <2>2. /\ writer' \in WriterStates /\ writer'.pc = "dequeue" /\ writer'.intent = ReceivedIntent
        /\ writer'.batch = writer.batch /\ writer'.watermark = writer.watermark
    BY <1>1, <1>4, <2>1 DEF WriterStates, Places
  <2>3. AdmissionInv' /\ LogInv' /\ CaptureInv'
    BY <1>1, <1>2, <1>4, <2>2, WriterMoves
  <2>4. EndInv'
    BY <1>1, <1>2, <1>4, <2>1, <2>2 DEF EndInv, Quiet, HubFree
  <2>5. QED
    BY <2>3, <2>4 DEF PipelineInv
<1>5. QED
  BY <1>3, <1>4 DEF WCommand

\* A batch that is due goes to its commit.
LEMMA WFlushStep ==
  ASSUME PipelineInv, WFlush, UNCHANGED setup
  PROVE  PipelineInv'
<1>1. /\ EndInv /\ writer \in WriterStates /\ channel \in ChannelStates
      /\ writer.pc = "flush" /\ ~ WriterExited
      /\ store \in [events : Seq(Nat \ {0}), clean : BOOLEAN]
      /\ UNCHANGED <<hub, ingress, quota, loop, store, channel, failures, main>>
  BY DEF PipelineInv, AdmissionInv, PipelineTypeInv, WFlush, At, WriterExited
<1>2. /\ writer' \in WriterStates /\ writer'.pc \in {"commit", "status"}
      /\ (writer'.pc = "commit" => writer.batch # << >>)
      /\ writer'.intent = writer.intent
      /\ writer'.batch = writer.batch /\ writer'.watermark = writer.watermark
  BY <1>1 DEF WFlush, GoTo, WriterStates, Places
<1>3. AdmissionInv' /\ LogInv' /\ CaptureInv'
  BY <1>1, <1>2, WriterMoves
<1>4. EndInv'
  BY <1>1, <1>2 DEF EndInv, Quiet, HubFree
<1>5. QED
  BY <1>3, <1>4 DEF PipelineInv

\* What LogInv says of a writer at work: its batch is the part of the queue
\* that is in flight, and the rest of the queue waits.
LEMMA BatchFacts ==
  ASSUME PipelineInv, ~ WriterExited
  PROVE  LET q == ingress.outstanding
             k == Len(writer.batch)
         IN  /\ k \in 0 .. Len(q) /\ InFlightAt(q) = 1 .. k
             /\ QueuedAt(ingress) = k + 1 .. Len(q)
             /\ \A n \in 1 .. k : /\ q[n].phase = "inflight"
                                  /\ writer.batch[n].sequence = q[n].sequence
                                  /\ writer.batch[n].bytes = q[n].bytes
             /\ \A n \in 1 .. Len(q) : q[n].sequence = ingress.committed + n
             /\ writer.watermark = ingress.committed
             /\ hub.next = ingress.committed + Len(q) + 1
<1> DEFINE q == ingress.outstanding
           k == Len(writer.batch)
<1>1. PipelineTypeInv /\ StoreAndQueueAreOneLog
  BY DEF PipelineInv, AdmissionInv, LogInv
<1>2. /\ Len(q) \in Nat /\ k \in Nat /\ DOMAIN q = 1 .. Len(q)
      /\ DOMAIN writer.batch = 1 .. k /\ \A n \in 1 .. Len(q) : q[n] \in Tracked
  BY <1>1, QueueFacts
<1>3. /\ InFlightAt(q) = 1 .. k /\ writer.watermark = ingress.committed
      /\ \A n \in 1 .. k : writer.batch[n] = [sequence |-> q[n].sequence, bytes |-> q[n].bytes]
      /\ \A n \in 1 .. Len(q) : q[n].sequence = ingress.committed + n
      /\ hub.next = ingress.committed + Len(q) + 1
  BY <1>1, <1>2 DEF StoreAndQueueAreOneLog
<1>4. \A n \in 1 .. k : n \in 1 .. Len(q) /\ q[n].phase = "inflight"
  BY <1>2, <1>3 DEF InFlightAt
<1>5. k \in 0 .. Len(q)
  <2>1. CASE k = 0
    BY <2>1, <1>2
  <2>2. CASE k # 0
    <3>1. k \in 1 .. k
      BY <2>2, <1>2
    <3>2. QED
      BY <3>1, <1>2, <1>4
  <2>3. QED
    BY <2>1, <2>2
<1>6. QueuedAt(ingress) = k + 1 .. Len(q)
  <2>1. \A n \in 1 .. Len(q) : q[n].phase = "queued" <=> n \notin 1 .. k
    BY <1>2, <1>3 DEF InFlightAt, Tracked
  <2>2. QueuedAt(ingress) = {n \in 1 .. Len(q) : n \notin 1 .. k}
    BY <2>1, <1>2 DEF QueuedAt
  <2>3. {n \in 1 .. Len(q) : n \notin 1 .. k} = k + 1 .. Len(q)
    BY <1>2, <1>5
  <2>4. QED
    BY <2>2, <2>3
<1>7. \A n \in 1 .. k : /\ writer.batch[n].sequence = q[n].sequence
                        /\ writer.batch[n].bytes = q[n].bytes
  <2> HIDE DEF q, k
  <2> TAKE n \in 1 .. k
  <2>1. writer.batch[n] = [sequence |-> q[n].sequence, bytes |-> q[n].bytes]
    BY <1>3
  <2>2. QED
    BY <2>1
<1>8. QED
  BY <1>3, <1>4, <1>5, <1>6, <1>7

\* try_dequeue takes the event behind the batch.
LEMMA DequeueBooks ==
  ASSUME PipelineInv, ~ WriterExited, QueuedAt(ingress) # {}
  PROVE  LET q == ingress.outstanding
             k == Len(writer.batch) + 1
             j == Dequeue(ingress)
         IN  /\ FirstQueued(ingress) = k /\ k \in 1 .. Len(q)
             /\ j \in IngressStates /\ SameReserve(ingress, j) /\ SameCapture(ingress, j)
             /\ SameGate(ingress, j) /\ j.committed = ingress.committed
             /\ j.outstandingBytes = ingress.outstandingBytes
             /\ j.outstanding \in Seq(Tracked) /\ Len(j.outstanding) = Len(q)
             /\ \A n \in 1 .. Len(q) : /\ j.outstanding[n].sequence = q[n].sequence
                                       /\ j.outstanding[n].bytes = q[n].bytes
                                       /\ n # k => j.outstanding[n].phase = q[n].phase
             /\ j.outstanding[k].phase = "inflight"
<1> DEFINE q == ingress.outstanding
           k == Len(writer.batch) + 1
           r == [q EXCEPT ![k] = [q[k] EXCEPT !.phase = "inflight"]]
<1>1. PipelineTypeInv /\ ingress \in IngressStates
  BY DEF PipelineInv, AdmissionInv, PipelineTypeInv
<1>2. /\ q \in Seq(Tracked) /\ Len(q) \in Nat /\ Len(writer.batch) \in Nat
      /\ DOMAIN q = 1 .. Len(q) /\ \A n \in 1 .. Len(q) : q[n] \in Tracked
  BY <1>1, QueueFacts
<1>3. QueuedAt(ingress) = k .. Len(q)
  BY BatchFacts
<1>4. k \in QueuedAt(ingress) /\ k \in 1 .. Len(q)
  BY <1>2, <1>3
<1>5. FirstQueued(ingress) = k
  <2>1. \A m \in QueuedAt(ingress) : k <= m
    BY <1>2, <1>3
  <2>2. \A n \in QueuedAt(ingress) : (\A m \in QueuedAt(ingress) : n <= m) => n = k
    BY <2>1, <1>2, <1>3, <1>4
  <2>3. QED
    BY <2>1, <2>2, <1>4, Zenon DEF FirstQueued
<1>6. Dequeue(ingress) = [ingress EXCEPT !.outstanding = r]
  BY <1>1, <1>5 DEF Dequeue, IngressStates
<1>7. [q[k] EXCEPT !.phase = "inflight"] \in Tracked
  BY <1>2, <1>4 DEF Tracked
<1>8. r \in Seq(Tracked) /\ Len(r) = Len(q)
  BY <1>2, <1>4, <1>7, ExceptSeq
<1>9. /\ \A n \in 1 .. Len(q) : n # k => r[n] = q[n]
      /\ r[k] = [q[k] EXCEPT !.phase = "inflight"]
  BY <1>2, <1>4
<1>10. /\ r[k].phase = "inflight" /\ r[k].sequence = q[k].sequence /\ r[k].bytes = q[k].bytes
  BY <1>2, <1>4, <1>9 DEF Tracked
<1>11. \A n \in 1 .. Len(q) : /\ r[n].sequence = q[n].sequence
                              /\ r[n].bytes = q[n].bytes
                              /\ n # k => r[n].phase = q[n].phase
  BY <1>9, <1>10
<1> HIDE DEF r
<1> DEFINE j == [ingress EXCEPT !.outstanding = r]
<1>12. /\ j \in IngressStates /\ SameReserve(ingress, j) /\ SameCapture(ingress, j)
       /\ SameGate(ingress, j) /\ j.committed = ingress.committed
       /\ j.outstandingBytes = ingress.outstandingBytes /\ j.outstanding = r
  BY <1>1, <1>8 DEF IngressStates, SameReserve, SameCapture, SameGate
<1> HIDE DEF j
<1>13. Dequeue(ingress) = j
  BY <1>6 DEF j
<1>14. QED
  BY <1>4, <1>5, <1>8, <1>10, <1>11, <1>12, <1>13

\* The writer takes an event into its batch, or finds the queue empty.
LEMMA WDequeueStep ==
  ASSUME PipelineInv, WDequeue, UNCHANGED setup
  PROVE  PipelineInv'
<1>1. /\ AdmissionInv /\ LogInv /\ CaptureInv /\ EndInv /\ PipelineTypeInv
      /\ writer \in WriterStates /\ channel \in ChannelStates
      /\ writer.pc = "dequeue" /\ ~ WriterExited
      /\ store \in [events : Seq(Nat \ {0}), clean : BOOLEAN]
      /\ UNCHANGED <<hub, quota, loop, store, channel, failures, main>>
  BY DEF PipelineInv, AdmissionInv, PipelineTypeInv, WDequeue, At, WriterExited
<1>2. CASE QueuedAt(ingress) = {}
  <2>1. GoTo("flush") /\ UNCHANGED ingress
    BY <1>2 DEF WDequeue
  <2>2. /\ writer' \in WriterStates /\ writer'.pc = "flush" /\ writer'.intent = writer.intent
        /\ writer'.batch = writer.batch /\ writer'.watermark = writer.watermark
    BY <1>1, <2>1, GoToFacts DEF GoTo, Places
  <2>3. AdmissionInv' /\ LogInv' /\ CaptureInv'
    BY <1>1, <2>1, <2>2, WriterMoves
  <2>4. EndInv'
    BY <1>1, <2>1, <2>2 DEF EndInv, Quiet, HubFree
  <2>5. QED
    BY <2>3, <2>4 DEF PipelineInv
<1>3. CASE QueuedAt(ingress) # {}
  <2> DEFINE q == ingress.outstanding
             b == writer.batch
             k == Len(b) + 1
             e == [sequence |-> q[k].sequence, bytes |-> q[k].bytes]
  <2>1. /\ FirstQueued(ingress) = k /\ k \in 1 .. Len(q)
        /\ Dequeue(ingress) \in IngressStates
        /\ SameReserve(ingress, Dequeue(ingress)) /\ SameCapture(ingress, Dequeue(ingress))
        /\ SameGate(ingress, Dequeue(ingress)) /\ Dequeue(ingress).committed = ingress.committed
        /\ Dequeue(ingress).outstandingBytes = ingress.outstandingBytes
        /\ Dequeue(ingress).outstanding \in Seq(Tracked)
        /\ Len(Dequeue(ingress).outstanding) = Len(q)
        /\ \A n \in 1 .. Len(q) : /\ Dequeue(ingress).outstanding[n].sequence = q[n].sequence
                                  /\ Dequeue(ingress).outstanding[n].bytes = q[n].bytes
                                  /\ n # k => Dequeue(ingress).outstanding[n].phase = q[n].phase
        /\ Dequeue(ingress).outstanding[k].phase = "inflight"
    BY <1>1, <1>3, DequeueBooks
  <2>2. /\ ingress' = Dequeue(ingress)
        /\ \/ writer' = [writer EXCEPT !.batch = Append(b, e), !.pc = "commit", !.after = "dequeue"]
           \/ writer' = [writer EXCEPT !.batch = Append(b, e)]
    BY <1>3, <2>1 DEF WDequeue
  <2>3. /\ q \in Seq(Tracked) /\ Sized(q) /\ Len(q) \in Nat /\ DOMAIN q = 1 .. Len(q)
        /\ b \in Seq(Batched) /\ Len(b) \in Nat /\ \A n \in 1 .. Len(q) : q[n] \in Tracked
    BY <1>1, QueueFacts
  <2>4. e \in Batched /\ e.sequence = q[k].sequence /\ e.bytes = q[k].bytes
    BY <2>1, <2>3 DEF Batched, Tracked
  <2> HIDE DEF e
  <2>5. /\ Append(b, e) \in Seq(Batched) /\ Len(Append(b, e)) = k /\ Append(b, e)[k] = e
        /\ \A n \in 1 .. Len(b) : Append(b, e)[n] = b[n]
    BY <2>3, <2>4, AppendProperties
  <2>6. Append(b, e) # << >> /\ DOMAIN Append(b, e) = 1 .. k
    <3>1. \A s \in Seq(Batched) : DOMAIN s = 1 .. Len(s) /\ (Len(s) # 0 => s # << >>)
      OBVIOUS
    <3>2. k # 0
      BY <2>3
    <3> HIDE DEF k, b
    <3>3. QED
      BY <3>1, <3>2, <2>5
  <2>7. /\ writer' \in WriterStates /\ writer'.pc \in {"dequeue", "commit"}
        /\ writer'.intent = writer.intent
        /\ writer'.batch = Append(b, e) /\ writer'.watermark = writer.watermark
    <3> DEFINE c == Append(b, e)
    <3>1. c \in Seq(Batched)
      BY <2>5
    <3>2. \/ writer' = [writer EXCEPT !.batch = c, !.pc = "commit", !.after = "dequeue"]
          \/ writer' = [writer EXCEPT !.batch = c]
      BY <2>2
    <3> HIDE DEF c
    <3>3. /\ writer' \in WriterStates /\ writer'.pc \in {"dequeue", "commit"}
          /\ writer'.intent = writer.intent
          /\ writer'.batch = c /\ writer'.watermark = writer.watermark
      BY <1>1, <3>1, <3>2 DEF WriterStates, Places
    <3>4. QED
      BY <3>3 DEF c
  <2>8. AdmissionInv'
    <3>1. PipelineTypeInv'
      BY <1>1, <2>1, <2>2, <2>7 DEF PipelineTypeInv
    <3>2. TotalBytes(ingress'.outstanding) = TotalBytes(q)
      BY <2>1, <2>2, <2>3, TotalOfSame
    <3>3. QED
      BY <1>1, <2>1, <2>2, <3>1, <3>2
         DEF AdmissionInv, SameReserve, SameGate, HubFree, PendingEvents, PendingBytes
  <2>9. LogInv'
    <3> DEFINE r == ingress'.outstanding
    <3>1. /\ Len(b) \in 0 .. Len(q) /\ InFlightAt(q) = 1 .. Len(b)
          /\ \A n \in 1 .. Len(b) : b[n].sequence = q[n].sequence /\ b[n].bytes = q[n].bytes
          /\ \A n \in 1 .. Len(q) : q[n].sequence = ingress.committed + n
          /\ writer.watermark = ingress.committed /\ hub.next = ingress.committed + Len(q) + 1
      BY <1>1, BatchFacts
    <3>2. /\ r \in Seq(Tracked) /\ Len(r) = Len(q) /\ DOMAIN r = 1 .. Len(q)
          /\ ingress'.committed = ingress.committed
          /\ \A n \in 1 .. Len(q) : /\ r[n].sequence = q[n].sequence /\ r[n].bytes = q[n].bytes
                                    /\ n # k => r[n].phase = q[n].phase
          /\ r[k].phase = "inflight"
      BY <2>1, <2>2
    <3> HIDE DEF r
    <3>3. InFlightAt(r) = 1 .. k
      <4>1. \A n \in 1 .. Len(q) : n \in InFlightAt(r) <=> n = k \/ n \in 1 .. Len(b)
        BY <3>1, <3>2, <2>3 DEF InFlightAt
      <4>2. InFlightAt(r) \subseteq 1 .. Len(q)
        BY <3>2 DEF InFlightAt
      <4>3. \A n : n \in 1 .. k <=> n \in 1 .. Len(q) /\ (n = k \/ n \in 1 .. Len(b))
        BY <2>1, <2>3
      <4>4. QED
        BY <4>1, <4>2, <4>3
    <3>4. \A n \in 1 .. k : Append(b, e)[n] = [sequence |-> r[n].sequence, bytes |-> r[n].bytes]
      <4> SUFFICES ASSUME NEW n \in 1 .. k
                   PROVE  Append(b, e)[n] = [sequence |-> r[n].sequence, bytes |-> r[n].bytes]
        OBVIOUS
      <4>1. n \in 1 .. Len(q) /\ Append(b, e)[n] \in Batched
        BY <2>1, <2>3, <2>5
      <4>2. Append(b, e)[n].sequence = r[n].sequence /\ Append(b, e)[n].bytes = r[n].bytes
        <5>1. CASE n = k
          BY <5>1, <4>1, <2>4, <2>5, <3>2
        <5>2. CASE n # k
          <6>1. n \in 1 .. Len(b)
            BY <5>2, <2>3
          <6>2. QED
            BY <6>1, <4>1, <2>5, <3>1, <3>2
        <5>3. QED
          BY <5>1, <5>2
      <4>3. QED
        BY <4>1, <4>2 DEF Batched
    <3>5. \A n \in DOMAIN r : r[n].sequence = ingress'.committed + n
      BY <3>1, <3>2
    <3>6. hub'.next = ingress'.committed + Len(r) + 1 /\ writer'.watermark = ingress'.committed
      BY <1>1, <2>7, <3>1, <3>2
    <3>7. /\ \A n \in DOMAIN store.events : store.events[n] = n
          /\ Len(store.events) \in Nat /\ ingress.committed \in Nat
          /\ ~ (Len(store.events) > ingress.committed)
          /\ Len(store.events) = ingress.committed
      <4>1. Len(store.events) \in Nat /\ ingress.committed \in Nat
        BY <1>1, QueueFacts
      <4>2. ~ (Len(store.events) > ingress.committed)
        BY <1>1 DEF LogInv, At
      <4>3. QED
        BY <4>1, <4>2, <1>1 DEF LogInv, StoreAndQueueAreOneLog
    <3>8. StoreAndQueueAreOneLog'
      <4>1. \E m \in 0 .. Len(r) : InFlightAt(r) = 1 .. m
        BY <3>2, <3>3, <2>1, <2>3
      <4>2. DOMAIN writer'.batch = 1 .. k
        BY <2>6, <2>7
      <4>3. store' = store /\ writer'.batch = Append(b, e)
        BY <1>1, <2>7
      <4>4. /\ InFlightAt(r) = DOMAIN writer'.batch
            /\ \A n \in InFlightAt(r) :
                 writer'.batch[n] = [sequence |-> r[n].sequence, bytes |-> r[n].bytes]
        BY <3>3, <3>4, <4>2, <4>3
      <4>5. /\ \A n \in DOMAIN store'.events : store'.events[n] = n
            /\ ~ (Len(store'.events) > ingress'.committed)
            /\ Len(store'.events) = ingress'.committed + 0
        BY <3>2, <3>7, <4>3
      <4>6. QED
        BY <3>5, <3>6, <4>1, <4>4, <4>5 DEF StoreAndQueueAreOneLog, r
    <3>9. QED
      BY <1>1, <2>6, <2>7, <3>2, <3>7, <3>8 DEF LogInv, At
  <2>10. CaptureInv'
    BY <1>1, <2>1, <2>2, CaptureFrame
  <2>11. EndInv'
    <3>1. ~ store.clean /\ ingress'.sealed = ingress.sealed
      BY <1>1, <2>1, <2>2 DEF EndInv, SameGate
    <3>2. QED
      BY <1>1, <2>7, <3>1 DEF EndInv
  <2>12. QED
    BY <2>8, <2>9, <2>10, <2>11 DEF PipelineInv
<1>4. QED
  BY <1>2, <1>3

\* The numbers of a batch, as the transaction stores them behind the others.
LEMMA StoredBatch ==
  ASSUME PipelineInv, At("commit")
  PROVE  LET numbers == [n \in DOMAIN writer.batch |-> writer.batch[n].sequence]
             s == store.events \o numbers
         IN  /\ s \in Seq(Nat \ {0}) /\ Len(s) = ingress.committed + Len(writer.batch)
             /\ \A n \in DOMAIN s : s[n] = n
             /\ Len(store.events) = ingress.committed
             /\ Len(writer.batch) > 0 /\ Len(s) <= hub.next - 1
<1> DEFINE b == writer.batch
           numbers == [n \in DOMAIN b |-> b[n].sequence]
           c == ingress.committed
           s == store.events \o numbers
<1>1. PipelineTypeInv /\ LogInv /\ ~ WriterExited
  BY DEF PipelineInv, AdmissionInv, At, WriterExited
<1>2. /\ b \in Seq(Batched) /\ Len(b) \in Nat /\ DOMAIN b = 1 .. Len(b) /\ c \in Nat
      /\ store.events \in Seq(Nat \ {0}) /\ Len(store.events) \in Nat
      /\ DOMAIN store.events = 1 .. Len(store.events) /\ Len(ingress.outstanding) \in Nat
  BY <1>1, QueueFacts
<1>3. /\ Len(b) \in 0 .. Len(ingress.outstanding) /\ hub.next = c + Len(ingress.outstanding) + 1
      /\ \A n \in 1 .. Len(b) : b[n].sequence = c + n
  <2>1. /\ Len(b) \in 0 .. Len(ingress.outstanding) /\ hub.next = c + Len(ingress.outstanding) + 1
        /\ \A n \in 1 .. Len(b) : b[n].sequence = ingress.outstanding[n].sequence
        /\ \A n \in 1 .. Len(ingress.outstanding) : ingress.outstanding[n].sequence = c + n
    BY <1>1, BatchFacts
  <2>2. \A n \in 1 .. Len(b) : n \in 1 .. Len(ingress.outstanding)
    BY <2>1, <1>2
  <2>3. QED
    BY <2>1, <2>2
<1>4. Len(store.events) = c /\ \A n \in DOMAIN store.events : store.events[n] = n
  <2>1. ~ (Len(store.events) > c)
    BY <1>1 DEF LogInv, At
  <2>2. Len(store.events) = c + 0
    BY <2>1, <1>1 DEF LogInv, StoreAndQueueAreOneLog
  <2>3. QED
    BY <2>2, <1>1, <1>2 DEF LogInv, StoreAndQueueAreOneLog
<1>5. Len(b) > 0
  BY <1>1, <1>2 DEF LogInv
<1> HIDE DEF b, c
<1>6. numbers \in Seq(Nat \ {0}) /\ Len(numbers) = Len(b) /\ \A n \in 1 .. Len(b) : numbers[n] = c + n
  <2>1. numbers = [n \in 1 .. Len(b) |-> c + n]
    BY <1>2, <1>3
  <2>2. \A n \in 1 .. Len(b) : c + n \in Nat \ {0}
    BY <1>2
  <2> DEFINE l == Len(b)
             S == Nat \ {0}
  <2> HIDE DEF l, S, numbers
  <2>3. l \in Nat /\ numbers = [n \in 1 .. l |-> c + n] /\ \A n \in 1 .. l : c + n \in S
    BY <2>1, <2>2, <1>2 DEF l, S
  <2>4. numbers \in Seq(S) /\ Len(numbers) = l
    BY <2>3, IsASeq
  <2>5. QED
    BY <2>3, <2>4 DEF l, S
<1> HIDE DEF numbers
<1>7. /\ s \in Seq(Nat \ {0}) /\ Len(s) = c + Len(b)
      /\ \A n \in 1 .. c + Len(b) : s[n] = IF n <= c THEN store.events[n] ELSE numbers[n - c]
  <2> DEFINE u == store.events
             S == Nat \ {0}
  <2>1. u \in Seq(S) /\ Len(u) = c /\ numbers \in Seq(S) /\ Len(numbers) = Len(b)
    BY <1>2, <1>4, <1>6
  <2> HIDE DEF u, S
  <2>2. /\ u \o numbers \in Seq(S) /\ Len(u \o numbers) = Len(u) + Len(numbers)
        /\ \A n \in 1 .. Len(u) + Len(numbers) :
             (u \o numbers)[n] = IF n <= Len(u) THEN u[n] ELSE numbers[n - Len(u)]
    BY <2>1, ConcatProperties
  <2>3. QED
    BY <2>1, <2>2 DEF u, S
<1> HIDE DEF s
<1>8. DOMAIN s = 1 .. c + Len(b)
  BY <1>7
<1>9. \A n \in DOMAIN s : s[n] = n
  <2> SUFFICES ASSUME NEW n \in 1 .. c + Len(b)
               PROVE  s[n] = n
    BY <1>8
  <2>1. CASE n <= c
    <3>1. n \in DOMAIN store.events
      BY <2>1, <1>2, <1>4
    <3>2. QED
      BY <3>1, <2>1, <1>4, <1>7
  <2>2. CASE ~ (n <= c)
    <3>1. n - c \in 1 .. Len(b)
      BY <2>2, <1>2
    <3>2. numbers[n - c] = c + (n - c)
      BY <3>1, <1>6
    <3>3. QED
      BY <3>2, <2>2, <1>2, <1>7
  <2>3. QED
    BY <2>1, <2>2
<1>10. Len(s) <= hub.next - 1
  BY <1>2, <1>3, <1>7
<1>11. QED
  BY <1>4, <1>5, <1>7, <1>9, <1>10 DEF b, c, numbers, s

\* commit_batch up to the end of the transaction.
LEMMA WCommitStep ==
  ASSUME PipelineInv, WCommit, UNCHANGED setup
  PROVE  PipelineInv'
<1>1. /\ AdmissionInv /\ LogInv /\ CaptureInv /\ EndInv /\ PipelineTypeInv
      /\ writer \in WriterStates /\ channel \in ChannelStates /\ quota \in QuotaStates
      /\ writer.pc = "commit" /\ ~ WriterExited /\ channel' = channel
  BY LatchedQuota DEF PipelineInv, AdmissionInv, PipelineTypeInv, WCommit, At, WriterExited
<1>2. CASE quota' = LatchQuota(quota) /\ WriterFails(ingress) /\ UNCHANGED store
  BY <1>1, <1>2, LatchedQuota, WriterFailsStep
<1>3. CASE WriterFails(ingress) /\ UNCHANGED <<quota, store>>
  BY <1>1, <1>3, WriterFailsStep
<1>4. CASE /\ store' = [store EXCEPT !.events =
                         @ \o [n \in DOMAIN writer.batch |-> writer.batch[n].sequence]]
           /\ GoTo("committed") /\ UNCHANGED <<hub, ingress, quota, loop, failures, main>>
  <2> DEFINE s == store.events \o [n \in DOMAIN writer.batch |-> writer.batch[n].sequence]
  <2>1. /\ s \in Seq(Nat \ {0}) /\ Len(s) = ingress.committed + Len(writer.batch)
        /\ \A n \in DOMAIN s : s[n] = n
        /\ Len(writer.batch) > 0
    BY <1>1, StoredBatch DEF At
  <2> HIDE DEF s
  <2>2. /\ store' \in [events : Seq(Nat \ {0}), clean : BOOLEAN] /\ store'.events = s
        /\ store'.clean = store.clean
    BY <1>1, <1>4, <2>1 DEF PipelineTypeInv, s
  <2>3. /\ writer' \in WriterStates /\ writer'.pc = "committed" /\ writer'.intent = writer.intent
        /\ writer'.batch = writer.batch /\ writer'.watermark = writer.watermark
    BY <1>1, <1>4, GoToFacts DEF GoTo, Places
  <2>4. AdmissionInv'
    <3>1. PipelineTypeInv'
      BY <1>1, <1>4, <2>2, <2>3 DEF PipelineTypeInv
    <3>2. QED
      BY <1>1, <1>4, <3>1, AdmissionFrame DEF AdmissionInv, SameQueue, SameReserve
  <2>5. LogInv'
    <3>1. Len(writer.batch) \in Nat /\ ingress.committed \in Nat
      BY <1>1, QueueFacts
    <3>2. Len(store'.events) > ingress.committed /\ Len(store'.events) = ingress.committed + Len(writer.batch)
      BY <2>1, <2>2, <3>1
    <3>3. StoreAndQueueAreOneLog'
      <4>1. \A n \in DOMAIN store'.events : store'.events[n] = n
        BY <2>1, <2>2
      <4>2. QED
        BY <1>1, <1>4, <2>3, <3>2, <4>1 DEF LogInv, StoreAndQueueAreOneLog
    <3>4. QED
      BY <1>1, <1>4, <2>3, <3>2, <3>3 DEF LogInv, At
  <2>6. CaptureInv'
    BY <1>1, <1>4, CaptureFrame DEF SameCapture
  <2>7. EndInv'
    BY <1>1, <1>4, <2>2, <2>3 DEF EndInv
  <2>8. QED
    BY <2>4, <2>5, <2>6, <2>7 DEF PipelineInv
<1>5. QED
  BY <1>2, <1>3, <1>4 DEF WCommit

\* mark_committed takes the batch from the queue; it never finds it invalid.
LEMMA MarkBooks ==
  ASSUME PipelineInv, At("committed")
  PROVE  LET q == ingress.outstanding
             k == Len(writer.batch)
             j == MarkCommitted(ingress, Notification)
         IN  /\ k \in 1 .. Len(q) /\ Notification.committed = ingress.committed + k
             /\ j \in IngressStates /\ SameReserve(ingress, j) /\ SameCapture(ingress, j)
             /\ SameGate(ingress, j) /\ j.committed = ingress.committed + k
             /\ j.outstanding \in Seq(Tracked) /\ Len(j.outstanding) = Len(q) - k
             /\ j.outstandingBytes = TotalBytes(j.outstanding)
             /\ j.outstandingBytes <= ingress.outstandingBytes
             /\ \A n \in 1 .. Len(q) - k : j.outstanding[n] = q[n + k]
<1> DEFINE q == ingress.outstanding
           b == writer.batch
           k == Len(b)
           c == ingress.committed
           note == Notification
           rest == SubSeq(q, k + 1, Len(q))
<1>1. AdmissionInv /\ PipelineTypeInv /\ LogInv /\ ingress \in IngressStates /\ ~ WriterExited
  BY DEF PipelineInv, AdmissionInv, PipelineTypeInv, At, WriterExited
<1>2. /\ q \in Seq(Tracked) /\ Sized(q) /\ Len(q) \in Nat /\ c \in Nat /\ b \in Seq(Batched)
      /\ Sized(b) /\ k \in Nat /\ \A n \in 1 .. Len(q) : q[n] \in Tracked
  BY <1>1, QueueFacts
<1>3. /\ k \in 0 .. Len(q) /\ writer.watermark = c
      /\ \A n \in 1 .. k : /\ q[n].phase = "inflight"
                           /\ b[n].sequence = q[n].sequence /\ b[n].bytes = q[n].bytes
      /\ \A n \in 1 .. Len(q) : q[n].sequence = c + n
  BY <1>1, BatchFacts
<1>4. k \in 1 .. Len(q) /\ k \in 1 .. k
  BY <1>1, <1>2, <1>3 DEF LogInv
<1>5. /\ note.previous = c /\ note.committed = b[k].sequence /\ note.events = k
      /\ note.bytes = TotalBytes(b)
  BY <1>3 DEF Notification
<1>6. note.committed = c + k
  BY <1>3, <1>4, <1>5
<1> HIDE DEF note, b, k, c
<1> DEFINE first == SubSeq(q, 1, k)
<1>7. Len(first) = k /\ \A n \in 1 .. k : first[n] = q[n]
  BY <1>2, <1>4
<1>8. TotalBytes(first) = TotalBytes(b)
  BY <1>2, <1>3, <1>7, TotalOfSame DEF k
<1>9. ValidCommit(ingress, note)
  <2>1. note.events <= Len(q) /\ note.bytes = TotalBytes(SubSeq(q, 1, note.events))
    BY <1>2, <1>4, <1>5, <1>8
  <2>2. \A n \in 1 .. note.events : q[n].phase = "inflight" /\ q[n].sequence = c + n
    BY <1>2, <1>3, <1>4, <1>5
  <2>3. QED
    BY <1>5, <1>6, <2>1, <2>2 DEF ValidCommit, c
<1>10. TotalBytes(rest) = TotalBytes(q) - TotalBytes(b) /\ TotalBytes(b) \in Nat
  BY <1>2, <1>3, <1>8, TotalOfSplit, TotalIsNat
<1>11. /\ rest \in Seq(Tracked) /\ Len(rest) = Len(q) - k
       /\ \A n \in 1 .. Len(q) - k : rest[n] = q[n + k]
  <2>1. \A n \in k + 1 .. Len(q) : q[n] \in Tracked
    BY <1>2, <1>4
  <2> DEFINE i == k + 1
             l == Len(q)
  <2>2. i \in Int /\ l \in Int
    BY <1>2
  <2>3. /\ l - i + 1 = Len(q) - k /\ (i <= l \/ Len(q) - k = 0)
        /\ \A n \in 1 .. Len(q) - k : i + n - 1 = n + k
    <3>1. l \in Nat /\ Len(q) = l /\ k \in 1 .. l
      BY <1>2, <1>4
    <3> HIDE DEF l
    <3>2. QED
      BY <3>1
  <2> HIDE DEF i, l
  <2>4. /\ SubSeq(q, i, l) \in Seq(Tracked)
        /\ Len(SubSeq(q, i, l)) = IF i <= l THEN l - i + 1 ELSE 0
        /\ \A n \in 1 .. l - i + 1 : SubSeq(q, i, l)[n] = q[i + n - 1]
    <3>1. \A n \in i .. l : q[n] \in Tracked
      BY <2>1 DEF i, l
    <3>2. QED
      BY <2>2, <3>1, SubSeqProperties
  <2>5. /\ SubSeq(q, i, l) \in Seq(Tracked)
        /\ Len(SubSeq(q, i, l)) = Len(q) - k
        /\ \A n \in 1 .. Len(q) - k : SubSeq(q, i, l)[n] = q[n + k]
    BY <2>2, <2>3, <2>4
  <2>6. QED
    BY <2>5 DEF i, l
<1>12. Sized(rest)
  <2>1. \A s \in Seq(Tracked) : Sized(s)
    <3> TAKE s \in Seq(Tracked)
    <3>1. Len(s) \in Nat /\ \A n \in 1 .. Len(s) : s[n] \in Tracked
      OBVIOUS
    <3>2. QED
      BY <3>1, BudgetAssumption DEF Sized, Tracked
  <2>2. QED
    BY <2>1, <1>11
<1>13. ingress.outstandingBytes = TotalBytes(q)
  BY <1>1 DEF AdmissionInv
<1> HIDE DEF rest, first
<1>14. MarkCommitted(ingress, note) =
         [ingress EXCEPT !.outstanding = rest, !.outstandingBytes = TotalBytes(rest), !.committed = c + k]
  BY <1>5, <1>6, <1>9, <1>10, <1>13 DEF MarkCommitted, rest
<1>15. TotalBytes(rest) \in Nat /\ c + k \in Nat /\ TotalBytes(rest) <= ingress.outstandingBytes
  <2>1. TotalBytes(rest) \in Nat /\ TotalBytes(q) \in Nat
    BY <1>2, <1>12, TotalIsNat
  <2>2. QED
    BY <2>1, <1>2, <1>10, <1>13
<1> DEFINE t == TotalBytes(rest)
           d == c + k
           j == [ingress EXCEPT !.outstanding = rest, !.outstandingBytes = t, !.committed = d]
<1> HIDE DEF t, d
<1>16. /\ j \in IngressStates /\ SameReserve(ingress, j) /\ SameCapture(ingress, j)
       /\ SameGate(ingress, j) /\ j.committed = d /\ j.outstanding = rest /\ j.outstandingBytes = t
  <2>1. t \in Nat /\ d \in Nat
    BY <1>15 DEF t, d
  <2>2. QED
    BY <1>1, <1>11, <2>1 DEF IngressStates, SameReserve, SameCapture, SameGate
<1>17. MarkCommitted(ingress, note) = j
  BY <1>14 DEF t, d
<1> HIDE DEF j
<1>18. QED
  BY <1>4, <1>6, <1>11, <1>15, <1>16, <1>17 DEF note, b, k, c, t, d

\* The rest of commit_batch.
LEMMA WCommittedStep ==
  ASSUME PipelineInv, WCommitted, UNCHANGED setup
  PROVE  PipelineInv'
<1>1. /\ AdmissionInv /\ LogInv /\ CaptureInv /\ EndInv /\ PipelineTypeInv
      /\ writer \in WriterStates /\ channel \in ChannelStates /\ quota \in QuotaStates
      /\ ingress \in IngressStates
      /\ At("committed") /\ writer.pc = "committed" /\ ~ WriterExited /\ UNCHANGED <<store, channel>>
  BY LatchedQuota DEF PipelineInv, AdmissionInv, PipelineTypeInv, WCommitted, At, WriterExited
<1>2. CASE WriterFails(ingress) /\ UNCHANGED quota
  BY <1>1, <1>2, WriterFailsStep
<1> DEFINE q == ingress.outstanding
           k == Len(writer.batch)
           j == MarkCommitted(ingress, Notification)
<1>3. /\ k \in 1 .. Len(q) /\ Notification.committed = ingress.committed + k
      /\ j \in IngressStates /\ SameReserve(ingress, j) /\ SameCapture(ingress, j)
      /\ SameGate(ingress, j) /\ j.committed = ingress.committed + k
      /\ j.outstanding \in Seq(Tracked) /\ Len(j.outstanding) = Len(q) - k
      /\ j.outstandingBytes = TotalBytes(j.outstanding)
      /\ j.outstandingBytes <= ingress.outstandingBytes
      /\ \A n \in 1 .. Len(q) - k : j.outstanding[n] = q[n + k]
  BY <1>1, MarkBooks
<1>4. /\ Len(q) \in Nat /\ DOMAIN q = 1 .. Len(q) /\ k \in Nat /\ ingress.committed \in Nat
      /\ Len(store.events) \in Nat /\ j.outstandingBytes \in Nat /\ ingress.outstandingBytes \in Nat
      /\ ingress.reservedEvents \in Nat /\ ingress.reservedBytes \in Nat
  BY <1>1, <1>3, QueueFacts DEF IngressStates
<1>5. /\ QueuedAt(ingress) = k + 1 .. Len(q)
      /\ \A n \in 1 .. Len(q) : q[n].sequence = ingress.committed + n
      /\ hub.next = ingress.committed + Len(q) + 1
  BY <1>1, BatchFacts
<1>6. Len(store.events) = ingress.committed + k /\ \A n \in DOMAIN store.events : store.events[n] = n
  <2>1. Len(store.events) > ingress.committed
    BY <1>1 DEF LogInv
  <2>2. QED
    BY <2>1, <1>1 DEF LogInv, StoreAndQueueAreOneLog
<1>7. ~ store.clean
  BY <1>1 DEF EndInv
<1> HIDE DEF j
<1>8. CASE /\ SameQueue(j, ingress') /\ SameReserve(j, ingress') /\ SameCapture(j, ingress')
           /\ ingress' \in IngressStates /\ ingress'.failure = j.failure
           /\ (ingress.sealed => ingress'.sealed) /\ (writer'.pc = "failed" => ingress'.sealed)
           /\ quota' \in QuotaStates /\ UNCHANGED <<hub, loop, main>>
           /\ failures' \in [producer : BOOLEAN, writer : BOOLEAN, first : BOOLEAN]
           /\ failures'.producer = failures.producer
           /\ writer' \in WriterStates /\ writer'.intent = writer.intent
           /\ \/ writer'.pc = "failed" /\ writer'.batch = writer.batch
              \/ /\ writer'.pc \in {"dequeue", "status"} /\ writer'.batch = << >>
                 /\ writer'.watermark = ingress.committed + k
  <2> DEFINE r == ingress'.outstanding
  <2>1. /\ r \in Seq(Tracked) /\ Len(r) = Len(q) - k /\ DOMAIN r = 1 .. Len(q) - k
        /\ \A n \in 1 .. Len(q) - k : r[n] = q[n + k]
        /\ ingress'.committed = ingress.committed + k
        /\ ingress'.outstandingBytes = TotalBytes(r)
        /\ ingress'.outstandingBytes <= ingress.outstandingBytes /\ ingress'.outstandingBytes \in Nat
        /\ ingress'.reservedEvents = ingress.reservedEvents
        /\ ingress'.reservedBytes = ingress.reservedBytes
        /\ ingress'.failure # "accounting" /\ SameCapture(ingress, ingress')
    <3>1. r = j.outstanding
      BY <1>8 DEF SameQueue
    <3>2. r \in Seq(Tracked) /\ Len(r) = Len(q) - k /\ \A n \in 1 .. Len(q) - k : r[n] = q[n + k]
      BY <3>1, <1>3
    <3>3. DOMAIN r = 1 .. Len(q) - k
      <4>1. DOMAIN r = 1 .. Len(r)
        BY <3>2, LenProperties
      <4>2. QED
        BY <4>1, <3>2
    <3>4. ingress'.failure # "accounting"
      BY <1>1, <1>3, <1>8 DEF AdmissionInv, SameGate
    <3>5. /\ ingress'.reservedEvents = ingress.reservedEvents
          /\ ingress'.reservedBytes = ingress.reservedBytes /\ SameCapture(ingress, ingress')
      BY <1>3, <1>8 DEF SameReserve, SameCapture
    <3>6. /\ ingress'.committed = ingress.committed + k
          /\ ingress'.outstandingBytes = TotalBytes(r)
          /\ ingress'.outstandingBytes <= ingress.outstandingBytes /\ ingress'.outstandingBytes \in Nat
      BY <1>3, <1>4, <1>8 DEF SameQueue
    <3>7. QED
      BY <3>2, <3>3, <3>4, <3>5, <3>6
  <2>2. AdmissionInv'
    <3>1. PipelineTypeInv'
      BY <1>1, <1>8 DEF PipelineTypeInv, QuotaStates
    <3>2. PendingEvents(ingress)' <= MaxEvents /\ PendingBytes(ingress)' <= MaxBytes
      <4>1. /\ ingress.reservedEvents + Len(q) <= MaxEvents
            /\ ingress.reservedBytes + ingress.outstandingBytes <= MaxBytes
        BY <1>1 DEF AdmissionInv, PendingEvents, PendingBytes
      <4>2. Len(r) <= Len(q) /\ Len(r) \in Nat
        <5> DEFINE m == Len(r)
                   l == Len(q)
        <5>1. l \in Nat /\ k \in 1 .. l /\ m = l - k
          BY <2>1, <1>3, <1>4
        <5> HIDE DEF m, l, k
        <5>2. m <= l /\ m \in Nat
          BY <5>1
        <5>3. QED
          BY <5>2 DEF m, l
      <4>3. /\ ingress'.reservedEvents + Len(r) <= MaxEvents
            /\ ingress'.reservedBytes + ingress'.outstandingBytes <= MaxBytes
        <5> DEFINE m == Len(r)
                   l == Len(q)
                   e == ingress.reservedEvents
                   s == ingress.reservedBytes
                   o == ingress.outstandingBytes
                   p == ingress'.outstandingBytes
        <5>1. /\ l \in Nat /\ m \in Nat /\ e \in Nat /\ s \in Nat /\ o \in Nat /\ p \in Nat
              /\ m <= l /\ p <= o /\ e + l <= MaxEvents /\ s + o <= MaxBytes
              /\ MaxEvents \in Nat /\ MaxBytes \in Nat
          BY <4>1, <4>2, <2>1, <1>4, BudgetAssumption
        <5> HIDE DEF m, l, e, s, o, p
        <5>2. e + m <= MaxEvents /\ s + p <= MaxBytes
          BY <5>1
        <5>3. QED
          BY <5>2, <2>1 DEF m, e, s, p
      <4>4. QED
        BY <4>3 DEF PendingEvents, PendingBytes
    <3>3. QED
      BY <1>1, <1>8, <2>1, <3>1, <3>2 DEF AdmissionInv, HubFree
  <2>3. LogInv'
    <3> HIDE DEF r, q
    <3>1. InFlightAt(r) = {}
      <4>1. \A n \in 1 .. Len(q) - k : n + k \in k + 1 .. Len(q)
        BY <1>3, <1>4
      <4>2. \A n \in k + 1 .. Len(q) : q[n].phase = "queued"
        BY <1>5 DEF QueuedAt, q
      <4>3. QED
        BY <4>1, <4>2, <2>1 DEF InFlightAt
    <3>2. \A n \in DOMAIN r : r[n].sequence = ingress'.committed + n
      <4> SUFFICES ASSUME NEW n \in 1 .. Len(q) - k
                   PROVE  r[n].sequence = (ingress.committed + k) + n
        BY <2>1
      <4>1. n + k \in 1 .. Len(q)
        BY <1>3, <1>4
      <4>2. r[n].sequence = ingress.committed + (n + k)
        BY <4>1, <2>1, <1>5
      <4>3. QED
        BY <4>2, <1>4
    <3>3. hub'.next = ingress'.committed + Len(r) + 1
      <4> DEFINE l == Len(q)
                 c == ingress.committed
      <4>1. l \in Nat /\ c \in Nat /\ k \in Nat
        BY <1>4
      <4>2. hub'.next = c + l + 1 /\ ingress'.committed = c + k /\ Len(r) = l - k
        BY <1>5, <1>8, <2>1 DEF q
      <4> HIDE DEF l, c, k
      <4>3. c + l + 1 = (c + k) + (l - k) + 1
        BY <4>1
      <4>4. QED
        BY <4>2, <4>3
    <3>4. Len(store'.events) = ingress'.committed /\ ingress'.committed \in Nat
      BY <1>1, <1>4, <1>6, <2>1
    <3>5. \E m \in 0 .. Len(r) : InFlightAt(r) = 1 .. m
      <4>1. 0 \in 0 .. Len(r) /\ 1 .. 0 = {}
        BY <2>1, <1>3, <1>4
      <4>2. QED
        BY <4>1, <3>1
    <3>6. ~ WriterExited' => /\ writer'.watermark = ingress'.committed
                            /\ DOMAIN writer'.batch = {}
      BY <1>8, <2>1 DEF WriterExited
    <3>7. StoreAndQueueAreOneLog'
      <4>1. \A n \in DOMAIN store'.events : store'.events[n] = n
        BY <1>1, <1>6
      <4>2. ~ (Len(store'.events) > ingress'.committed)
        BY <3>4
      <4>3. Len(store'.events) = ingress'.committed + 0
        BY <3>4
      <4>4. QED
        BY <3>1, <3>2, <3>3, <3>5, <3>6, <4>1, <4>2, <4>3 DEF StoreAndQueueAreOneLog, r
    <3>8. QED
      BY <1>8, <3>4, <3>7 DEF LogInv, At, WriterExited
  <2>4. CaptureInv'
    BY <1>1, <1>8, <2>1, CaptureFrame
  <2>5. EndInv'
    BY <1>1, <1>7, <1>8 DEF EndInv
  <2>6. QED
    BY <2>2, <2>3, <2>4, <2>5 DEF PipelineInv
<1>9. CASE quota' = LatchQuota(quota) /\ WriterFails(j)
  <2>1. /\ writer' = [writer EXCEPT !.pc = "failed"] /\ ingress' = Seal(j)
        /\ failures' = [failures EXCEPT !.writer = TRUE] /\ UNCHANGED <<hub, loop, main>>
    BY <1>9 DEF WriterFails, GoTo
  <2>2. /\ writer' \in WriterStates /\ writer'.pc = "failed" /\ writer'.intent = writer.intent
        /\ writer'.batch = writer.batch
    BY <1>1, <2>1, GoToFacts DEF Places
  <2>3. /\ SameQueue(j, ingress') /\ SameReserve(j, ingress') /\ SameCapture(j, ingress')
        /\ ingress' \in IngressStates /\ ingress'.sealed
    BY <1>3, <2>1, SealSeals DEF Sealing
  <2>4. ingress'.failure = j.failure
    BY <1>3, <2>1 DEF Seal, IngressStates
  <2>5. /\ failures' \in [producer : BOOLEAN, writer : BOOLEAN, first : BOOLEAN]
        /\ failures'.producer = failures.producer
    BY <1>1, <2>1 DEF PipelineTypeInv
  <2>6. quota' \in QuotaStates
    BY <1>1, <1>9, LatchedQuota
  <2>7. QED
    BY <1>8, <2>1, <2>2, <2>3, <2>4, <2>5, <2>6
<1>10. CASE /\ ingress' = j
            /\ writer' = [writer EXCEPT !.pc = writer.after, !.batch = << >>,
                                        !.watermark = Notification.committed]
            /\ UNCHANGED <<hub, quota, loop, failures, main>>
  <2>1. Notification.committed \in Nat /\ Notification.committed = ingress.committed + k
    BY <1>3, <1>4
  <2>2. /\ writer' \in WriterStates /\ writer'.pc \in {"dequeue", "status"}
        /\ writer'.intent = writer.intent /\ writer'.batch = << >>
        /\ writer'.watermark = ingress.committed + k
    <3> DEFINE w == Notification.committed
    <3> HIDE DEF w
    <3>1. /\ w \in Nat
          /\ writer' = [writer EXCEPT !.pc = writer.after, !.batch = << >>, !.watermark = w]
      BY <1>10, <2>1 DEF w
    <3>2. writer.after \in {"dequeue", "status"} /\ << >> \in Seq(Batched)
      BY <1>1, EmptySeq DEF WriterStates
    <3>3. \A a \in {"dequeue", "status"}, b \in Seq(Batched) :
             [writer EXCEPT !.pc = a, !.batch = b, !.watermark = w] \in WriterStates
      BY <1>1, <3>1 DEF WriterStates, Places
    <3>4. /\ writer'.pc = writer.after /\ writer'.intent = writer.intent
          /\ writer'.batch = << >> /\ writer'.watermark = w
      BY <1>1, <3>1 DEF WriterStates
    <3>5. QED
      BY <3>1, <3>2, <3>3, <3>4, <2>1 DEF w
  <2>3. /\ SameQueue(j, ingress') /\ SameReserve(j, ingress') /\ SameCapture(j, ingress')
        /\ ingress' \in IngressStates /\ ingress'.failure = j.failure
        /\ ingress'.sealed = ingress.sealed
    BY <1>3, <1>10 DEF SameQueue, SameReserve, SameCapture, SameGate
  <2>4. /\ failures' \in [producer : BOOLEAN, writer : BOOLEAN, first : BOOLEAN]
        /\ failures'.producer = failures.producer
    BY <1>1, <1>10 DEF PipelineTypeInv
  <2>5. QED
    BY <1>1, <1>8, <1>10, <2>2, <2>3, <2>4
<1>11. QED
  BY <1>2, <1>9, <1>10 DEF WCommitted, j

\* What is left before the end of the loop: is there an intent, and is all stored?
LEMMA WStatusStep ==
  ASSUME PipelineInv, WStatus, UNCHANGED setup
  PROVE  PipelineInv'
<1>1. /\ AdmissionInv /\ EndInv /\ PipelineTypeInv /\ writer \in WriterStates /\ quota \in QuotaStates
      /\ channel \in ChannelStates /\ writer.pc = "status" /\ ~ WriterExited
      /\ store \in [events : Seq(Nat \ {0}), clean : BOOLEAN]
      /\ UNCHANGED <<quota, store, channel>>
  BY LatchedQuota DEF PipelineInv, AdmissionInv, PipelineTypeInv, WStatus, At, WriterExited
<1>2. CASE WriterFails(ingress)
  BY <1>1, <1>2, WriterFailsStep
<1>3. CASE /\ GoTo(CASE ~ ReadyToClose -> "poll"
                     [] ReadyToClose /\ writer.intent = "finalize" -> "finalize"
                     [] ReadyToClose /\ writer.intent = "abort" -> "closing")
           /\ UNCHANGED <<hub, ingress, loop, failures, main>>
  <2>1. PICK p \in {"poll", "finalize", "closing"} :
               /\ GoTo(p)
               /\ p = "finalize" => ReadyToClose /\ writer.intent = "finalize"
    <3>1. CASE ~ ReadyToClose
      BY <1>3, <3>1
    <3>2. CASE ReadyToClose
      <4>1. writer.intent \in {"finalize", "abort"}
        BY <1>1, <3>2 DEF ReadyToClose, WriterStates
      <4>2. QED
        BY <1>3, <3>2, <4>1
    <3>3. QED
      BY <3>1, <3>2
  <2>2. /\ writer' \in WriterStates /\ writer'.pc = p /\ writer'.intent = writer.intent
        /\ writer'.batch = writer.batch /\ writer'.watermark = writer.watermark
    BY <1>1, <2>1, GoToFacts DEF GoTo, Places
  <2>3. AdmissionInv' /\ LogInv' /\ CaptureInv'
    BY <1>1, <1>3, <2>1, <2>2, WriterMoves
  <2>4. p = "finalize" => Quiet' /\ writer'.batch = << >>
    <3> SUFFICES ASSUME p = "finalize"
                 PROVE  Quiet' /\ writer'.batch = << >>
      OBVIOUS
    <3>1. PendingEvents(ingress) = 0 /\ writer.batch = << >> /\ ingress.sealed
      BY <1>1, <2>1 DEF ReadyToClose, EndInv
    <3>2. ingress.reservedEvents \in Nat /\ ingress.outstanding \in Seq(Tracked)
      BY <1>1 DEF PipelineTypeInv, IngressStates
    <3>3. ingress.reservedEvents = 0 /\ ingress.outstanding = << >>
      BY <3>1, <3>2 DEF PendingEvents
    <3>4. HubFree
      BY <3>3, <1>1 DEF AdmissionInv
    <3>5. QED
      BY <3>1, <3>3, <3>4, <1>3, <2>2 DEF Quiet, HubFree
  <2>5. EndInv'
    BY <1>1, <1>3, <2>1, <2>2, <2>4 DEF EndInv
  <2>6. QED
    BY <2>3, <2>5 DEF PipelineInv
<1>4. QED
  BY <1>2, <1>3 DEF WStatus

\* Everything that the end of the writer's loop has in common.
LEMMA AtTheEnd ==
  ASSUME PipelineInv, writer.pc \in {"finalize", "beforeCommit", "finalCommit", "finalized",
                                     "waitClose", "closing"}
  PROVE  /\ EndInv /\ PipelineTypeInv /\ writer \in WriterStates /\ quota \in QuotaStates
         /\ LatchQuota(quota) \in QuotaStates /\ channel \in ChannelStates /\ ~ WriterExited
         /\ store \in [events : Seq(Nat \ {0}), clean : BOOLEAN]
BY LatchedQuota DEF PipelineInv, AdmissionInv, PipelineTypeInv, WriterExited

\* A finalization that fails answers with an error; nothing was answered before.
LEMMA FinalizeFailsStep ==
  ASSUME PipelineInv, FinalizeFails, UNCHANGED <<store, setup>>, quota' \in QuotaStates,
         writer.pc \in {"finalize", "beforeCommit", "finalCommit", "finalized"}
  PROVE  PipelineInv'
<1>1. channel.reply # "ok"
  BY AtTheEnd DEF EndInv
<1>2. channel' \in ChannelStates /\ channel'.reply = "err"
  BY AtTheEnd DEF FinalizeFails, ChannelStates
<1>3. QED
  BY <1>1, <1>2, AtTheEnd, WriterFailsStep DEF FinalizeFails

\* A step from one place of the end to the next.
LEMMA EndMoves ==
  ASSUME PipelineInv, UNCHANGED <<hub, ingress, quota, loop, failures, main, setup>>,
         writer.pc \in {"finalize", "beforeCommit", "finalCommit", "finalized",
                        "waitClose", "closing"},
         NEW p \in {"beforeCommit", "finalCommit", "finalized", "waitClose", "closing", "ok"},
         GoTo(p), channel' \in ChannelStates,
         store' \in [events : Seq(Nat \ {0}), clean : BOOLEAN], store'.events = store.events
  PROVE  /\ AdmissionInv' /\ LogInv' /\ CaptureInv' /\ (Quiet => Quiet')
         /\ writer'.pc = p /\ writer'.intent = writer.intent /\ writer'.batch = writer.batch
<1>1. /\ writer' \in WriterStates /\ writer'.pc = p /\ writer'.intent = writer.intent
      /\ writer'.batch = writer.batch /\ writer'.watermark = writer.watermark
  BY AtTheEnd, GoToFacts DEF GoTo, Places
<1>2. AdmissionInv' /\ LogInv' /\ CaptureInv'
  BY <1>1, AtTheEnd, WriterMoves
<1>3. Quiet => Quiet'
  BY DEF Quiet, HubFree
<1>4. QED
  BY <1>1, <1>2, <1>3

\* The first check of shutdown_abandoned.
LEMMA WFinalizeStep ==
  ASSUME PipelineInv, WFinalize, UNCHANGED setup
  PROVE  PipelineInv'
<1>1. writer.pc = "finalize" /\ UNCHANGED <<quota, store>>
  BY DEF WFinalize, At
<1>2. CASE FinalizeFails
  BY <1>1, <1>2, AtTheEnd, FinalizeFailsStep
<1>3. CASE GoTo("beforeCommit") /\ UNCHANGED <<hub, ingress, loop, channel, failures, main>>
  <2>1. /\ AdmissionInv' /\ LogInv' /\ CaptureInv' /\ (Quiet => Quiet')
        /\ writer'.pc = "beforeCommit" /\ writer'.intent = writer.intent
        /\ writer'.batch = writer.batch
    BY <1>1, <1>3, AtTheEnd, EndMoves
  <2>2. EndInv'
    BY <1>1, <1>3, <2>1, AtTheEnd DEF EndInv
  <2>3. QED
    BY <2>1, <2>2 DEF PipelineInv
<1>4. QED
  BY <1>2, <1>3 DEF WFinalize

\* The check at the end of the transaction (CancellationHook).
LEMMA WBeforeCommitStep ==
  ASSUME PipelineInv, WBeforeCommit, UNCHANGED setup
  PROVE  PipelineInv'
<1>1. writer.pc = "beforeCommit" /\ UNCHANGED <<quota, store>>
  BY DEF WBeforeCommit, At
<1>2. CASE FinalizeFails
  BY <1>1, <1>2, AtTheEnd, FinalizeFailsStep
<1>3. CASE GoTo("finalCommit") /\ UNCHANGED <<hub, ingress, loop, channel, failures, main>>
  <2>1. /\ AdmissionInv' /\ LogInv' /\ CaptureInv' /\ (Quiet => Quiet')
        /\ writer'.pc = "finalCommit" /\ writer'.intent = writer.intent
        /\ writer'.batch = writer.batch
    BY <1>1, <1>3, AtTheEnd, EndMoves
  <2>2. EndInv'
    BY <1>1, <1>3, <2>1, AtTheEnd DEF EndInv
  <2>3. QED
    BY <2>1, <2>2 DEF PipelineInv
<1>4. QED
  BY <1>2, <1>3 DEF WBeforeCommit

\* The transaction that marks the archive clean.
LEMMA WFinalCommitStep ==
  ASSUME PipelineInv, WFinalCommit, UNCHANGED setup
  PROVE  PipelineInv'
<1>1. writer.pc = "finalCommit" /\ UNCHANGED quota
  BY DEF WFinalCommit, At
<1>2. CASE FinalizeFails /\ UNCHANGED store
  BY <1>1, <1>2, AtTheEnd, FinalizeFailsStep
<1>3. CASE /\ store' = [store EXCEPT !.clean = TRUE] /\ GoTo("finalized")
           /\ UNCHANGED <<hub, ingress, loop, channel, failures, main>>
  <2>1. /\ store' \in [events : Seq(Nat \ {0}), clean : BOOLEAN]
        /\ store'.events = store.events /\ store'.clean = TRUE
    BY <1>1, <1>3, AtTheEnd
  <2>2. /\ AdmissionInv' /\ LogInv' /\ CaptureInv' /\ (Quiet => Quiet')
        /\ writer'.pc = "finalized" /\ writer'.intent = writer.intent
        /\ writer'.batch = writer.batch
    BY <1>1, <1>3, <2>1, AtTheEnd, EndMoves
  <2>3. EndInv'
    BY <1>1, <1>3, <2>1, <2>2, AtTheEnd DEF EndInv
  <2>4. QED
    BY <2>2, <2>3 DEF PipelineInv
<1>4. QED
  BY <1>2, <1>3 DEF WFinalCommit

\* The last measurement of the quota, and the reply.
LEMMA WFinalizedStep ==
  ASSUME PipelineInv, WFinalized, UNCHANGED setup
  PROVE  PipelineInv'
<1>1. writer.pc = "finalized" /\ UNCHANGED store
  BY DEF WFinalized, At
<1>2. CASE FinalizeFails /\ (quota' = quota \/ quota' = LatchQuota(quota))
  BY <1>1, <1>2, AtTheEnd, FinalizeFailsStep
<1>3. CASE WriterFails(ingress) /\ UNCHANGED <<quota, channel>>
  BY <1>1, <1>3, AtTheEnd, WriterFailsStep
<1>4. CASE /\ channel' = [channel EXCEPT !.reply = "ok"] /\ GoTo("waitClose")
           /\ UNCHANGED <<hub, ingress, quota, loop, failures, main>>
  <2>1. /\ channel' \in ChannelStates /\ channel'.command = channel.command
        /\ channel'.reply = "ok"
    BY <1>1, <1>4, AtTheEnd DEF ChannelStates
  <2>2. /\ AdmissionInv' /\ LogInv' /\ CaptureInv' /\ (Quiet => Quiet')
        /\ writer'.pc = "waitClose" /\ writer'.intent = writer.intent
        /\ writer'.batch = writer.batch
    BY <1>1, <1>4, <2>1, AtTheEnd, EndMoves
  <2>3. EndInv'
    BY <1>1, <1>4, <2>1, <2>2, AtTheEnd DEF EndInv
  <2>4. QED
    BY <2>2, <2>3 DEF PipelineInv
<1>5. QED
  BY <1>2, <1>3, <1>4 DEF WFinalized

\* The wait for Close.
LEMMA WWaitCloseStep ==
  ASSUME PipelineInv, WWaitClose, UNCHANGED setup
  PROVE  PipelineInv'
<1>1. /\ writer.pc = "waitClose" /\ GoTo("closing")
      /\ channel' = [channel EXCEPT !.command = "none"]
      /\ UNCHANGED <<hub, ingress, quota, loop, store, failures, main>>
  BY DEF WWaitClose, At
<1>2. /\ channel' \in ChannelStates /\ channel'.command = "none"
      /\ channel'.reply = channel.reply
  BY <1>1, AtTheEnd DEF ChannelStates
<1>3. /\ AdmissionInv' /\ LogInv' /\ CaptureInv' /\ (Quiet => Quiet')
      /\ writer'.pc = "closing" /\ writer'.intent = writer.intent
      /\ writer'.batch = writer.batch
  BY <1>1, <1>2, AtTheEnd, EndMoves
<1>4. EndInv'
  BY <1>1, <1>2, <1>3, AtTheEnd DEF EndInv
<1>5. QED
  BY <1>3, <1>4 DEF PipelineInv

\* The checkpoint, and the end of the thread.
LEMMA WCloseStep ==
  ASSUME PipelineInv, WClose, UNCHANGED setup
  PROVE  PipelineInv'
<1>1. writer.pc = "closing" /\ UNCHANGED <<store, channel>>
  BY DEF WClose, At
<1>2. CASE WriterFails(ingress) /\ (quota' = quota \/ quota' = LatchQuota(quota))
  BY <1>1, <1>2, AtTheEnd, WriterFailsStep
<1>3. CASE GoTo("ok") /\ UNCHANGED <<hub, ingress, quota, loop, failures, main>>
  <2>1. /\ AdmissionInv' /\ LogInv' /\ CaptureInv' /\ (Quiet => Quiet')
        /\ writer'.pc = "ok" /\ writer'.intent = writer.intent
        /\ writer'.batch = writer.batch
    BY <1>1, <1>3, AtTheEnd, EndMoves
  <2>2. EndInv'
    BY <1>1, <1>3, <2>1, AtTheEnd DEF EndInv
  <2>3. QED
    BY <2>1, <2>2 DEF PipelineInv
<1>4. QED
  BY <1>2, <1>3 DEF WClose

\* A step of the writer keeps the invariant.
LEMMA WriterStepKeepsInv ==
  ASSUME PipelineInv, WriterStep
  PROVE  PipelineInv'
BY WPollStep, WCommandStep, WDequeueStep, WFlushStep, WCommitStep, WCommittedStep, WStatusStep,
   WFinalizeStep, WBeforeCommitStep, WFinalCommitStep, WFinalizedStep, WWaitCloseStep, WCloseStep
   DEF WriterStep

-----------------------------------------------------------------------------
(* The main thread.                                                        *)

\* The main thread leaves hub, loop, writer and archive alone.
LEMMA MainFrame ==
  ASSUME PipelineInv, UNCHANGED <<hub, quota, loop, writer, store, setup>>,
         Sealing(ingress, ingress'), channel' \in ChannelStates, main' \in MainStates,
         failures' \in [producer : BOOLEAN, writer : BOOLEAN, first : BOOLEAN],
         failures'.producer = failures.producer
  PROVE  /\ AdmissionInv' /\ LogInv' /\ CaptureInv'
         /\ (Quiet => Quiet') /\ (ingress.sealed => ingress'.sealed)
<1>1. AdmissionInv /\ LogInv /\ CaptureInv /\ PipelineTypeInv /\ ingress.failure # "accounting"
  BY DEF PipelineInv, AdmissionInv
<1>2. PipelineTypeInv'
  BY <1>1 DEF PipelineTypeInv, Sealing
<1>3. AdmissionInv'
  BY <1>1, <1>2, AdmissionFrame DEF Sealing
<1>4. LogInv'
  <2>1. WriterExited' <=> WriterExited
    BY DEF WriterExited
  <2>2. writer.pc \in {"commit", "committed"} => writer.batch # << >>
    BY <1>1 DEF LogInv, At
  <2>3. QED
    BY <2>1, <2>2, <1>1, LogFrame DEF Sealing
<1>5. CaptureInv'
  BY <1>1, CaptureFrame DEF Sealing
<1>6. (Quiet => Quiet') /\ (ingress.sealed => ingress'.sealed)
  BY DEF Quiet, HubFree, Sealing, SameQueue
<1>7. QED
  BY <1>3, <1>4, <1>5, <1>6

\* What the types say of the parts a main thread step writes.
LEMMA MainTypes ==
  ASSUME PipelineInv
  PROVE  /\ EndInv /\ ingress \in IngressStates /\ main \in MainStates
         /\ channel \in ChannelStates /\ Sealing(ingress, ingress)
         /\ Sealing(ingress, Seal(ingress)) /\ Seal(ingress).sealed
         /\ failures \in [producer : BOOLEAN, writer : BOOLEAN, first : BOOLEAN]
<1>1. /\ EndInv /\ ingress \in IngressStates /\ main \in MainStates /\ channel \in ChannelStates
      /\ failures \in [producer : BOOLEAN, writer : BOOLEAN, first : BOOLEAN]
      /\ ingress.failure # "accounting"
  BY DEF PipelineInv, AdmissionInv, PipelineTypeInv
<1>2. QED
  BY <1>1, SealSeals

\* try_core_failure seals the ingress or leaves it as it is.
LEMMA ProbeFacts ==
  ASSUME PipelineInv, Probe
  PROVE  /\ Sealing(ingress, ingress') /\ failures'.producer = failures.producer
         /\ failures' \in [producer : BOOLEAN, writer : BOOLEAN, first : BOOLEAN]
<1>1. CoreFailure \in BOOLEAN
  BY MainTypes DEF CoreFailure
<1>2. Sealing(ingress, ingress')
  BY <1>1, MainTypes DEF Probe
<1>3. \A c \in BOOLEAN : [failures EXCEPT !.first = c, !.writer = @ /\ failures.first]
                            \in [producer : BOOLEAN, writer : BOOLEAN, first : BOOLEAN]
  BY MainTypes
<1>4. failures'.producer = failures.producer
  BY MainTypes DEF Probe
<1>5. QED
  BY <1>1, <1>2, <1>3, <1>4 DEF Probe

\* The polls of supervise.
LEMMA MPollStep ==
  ASSUME PipelineInv, MPoll, UNCHANGED setup
  PROVE  PipelineInv'
<1>1. /\ main' \in MainStates /\ main'.pc = "settling" /\ main'.failed = TRUE
      /\ main'.abandoned = main.abandoned
  BY MainTypes DEF MPoll, MainStates
<1>2. /\ AdmissionInv' /\ LogInv' /\ CaptureInv'
      /\ (Quiet => Quiet') /\ (ingress.sealed => ingress'.sealed)
  BY <1>1, MainTypes, ProbeFacts, MainFrame DEF MPoll
<1>3. EndInv'
  BY <1>1, <1>2, MainTypes DEF EndInv, MPoll
<1>4. QED
  BY <1>2, <1>3 DEF PipelineInv

\* The operation has returned.
LEMMA MOperationReturnedStep ==
  ASSUME PipelineInv, MOperationReturned, UNCHANGED setup
  PROVE  PipelineInv'
<1>1. /\ Sealing(ingress, ingress') /\ failures'.producer = failures.producer
      /\ failures' \in [producer : BOOLEAN, writer : BOOLEAN, first : BOOLEAN]
  BY MainTypes, ProbeFacts DEF MOperationReturned
<1>2. /\ main' \in MainStates /\ main'.pc = "ended" /\ main'.abandoned = main.abandoned
      /\ main.pc \in {"running", "settling"}
      /\ (main.failed /\ main.pc = "settling" => main'.failed)
  <2>1. CoreFailure \in BOOLEAN
    BY MainTypes DEF CoreFailure
  <2>2. QED
    BY <2>1, MainTypes DEF MOperationReturned, MainStates
<1>3. /\ AdmissionInv' /\ LogInv' /\ CaptureInv'
      /\ (Quiet => Quiet') /\ (ingress.sealed => ingress'.sealed)
  BY <1>1, <1>2, MainTypes, MainFrame DEF MOperationReturned
<1>4. EndInv'
  BY <1>2, <1>3, MainTypes DEF EndInv, MOperationReturned
<1>5. QED
  BY <1>3, <1>4 DEF PipelineInv

\* shutdown_ordered.
LEMMA MShutdownStep ==
  ASSUME PipelineInv, MShutdown, UNCHANGED setup
  PROVE  PipelineInv'
<1>1. /\ main' \in MainStates /\ main'.abandoned = main.abandoned
      /\ \/ main'.pc = "aborting" /\ main'.failed = TRUE
         \/ main'.pc = "finalizing" /\ main'.failed = main.failed /\ loop.runClosed
  BY MainTypes DEF MShutdown, MainStates
<1>2. Sealing(ingress, ingress') /\ ingress'.sealed
  BY MainTypes DEF MShutdown
<1>3. /\ AdmissionInv' /\ LogInv' /\ CaptureInv'
      /\ (Quiet => Quiet') /\ (ingress.sealed => ingress'.sealed)
  BY <1>1, <1>2, MainTypes, MainFrame DEF MShutdown
<1>4. EndInv'
  BY <1>1, <1>2, <1>3, MainTypes DEF EndInv, MShutdown
<1>5. QED
  BY <1>3, <1>4 DEF PipelineInv

\* The finalization is sent.
LEMMA MFinalizeStep ==
  ASSUME PipelineInv, MFinalize, UNCHANGED setup
  PROVE  PipelineInv'
<1>1. /\ channel' \in ChannelStates /\ channel'.reply = channel.reply
      /\ channel'.command \in {channel.command, "finalize"}
  BY MainTypes DEF MFinalize, DropSender, ChannelStates
<1>2. /\ main' \in MainStates /\ main.pc = "finalizing"
      /\ \/ main'.pc = "released" /\ main'.failed = TRUE
         \/ /\ main'.pc = "awaiting" /\ main'.failed = main.failed
            /\ main'.abandoned = main.abandoned
  BY MainTypes DEF MFinalize, Abandon, MainStates
<1>3. /\ AdmissionInv' /\ LogInv' /\ CaptureInv'
      /\ (Quiet => Quiet') /\ (ingress.sealed => ingress'.sealed)
  BY <1>1, <1>2, MainTypes, MainFrame DEF MFinalize
<1>4. EndInv'
  BY <1>1, <1>2, <1>3, MainTypes DEF EndInv, MFinalize
<1>5. QED
  BY <1>3, <1>4 DEF PipelineInv

\* The writer has replied.
LEMMA MReplyStep ==
  ASSUME PipelineInv, MReply, UNCHANGED setup
  PROVE  PipelineInv'
<1>1. /\ main' \in MainStates /\ main.pc = "awaiting" /\ main'.pc = "closing"
      /\ main'.abandoned = main.abandoned /\ (main.failed => main'.failed)
      /\ (main'.failed \/ channel.reply = "ok")
  <2>1. channel.reply \in {"ok", "err"}
    BY MainTypes DEF MReply, ChannelStates
  <2>2. QED
    BY <2>1, MainTypes DEF MReply, MainStates
<1>2. /\ AdmissionInv' /\ LogInv' /\ CaptureInv'
      /\ (Quiet => Quiet') /\ (ingress.sealed => ingress'.sealed)
  BY <1>1, MainTypes, MainFrame DEF MReply
<1>3. EndInv'
  BY <1>1, <1>2, MainTypes DEF EndInv, MReply
<1>4. QED
  BY <1>2, <1>3 DEF PipelineInv

\* The guard gives up waiting for a reply.
LEMMA MNoReplyStep ==
  ASSUME PipelineInv, MNoReply, UNCHANGED setup
  PROVE  PipelineInv'
<1>1. channel' \in ChannelStates /\ channel'.reply = channel.reply
      /\ channel'.command = channel.command
  BY MainTypes DEF MNoReply, DropSender, ChannelStates
<1>2. main' \in MainStates /\ main.pc = "awaiting" /\ main'.pc = "released" /\ main'.failed = TRUE
  BY MainTypes DEF MNoReply, Abandon, MainStates
<1>3. /\ AdmissionInv' /\ LogInv' /\ CaptureInv'
      /\ (Quiet => Quiet') /\ (ingress.sealed => ingress'.sealed)
  BY <1>1, <1>2, MainTypes, MainFrame DEF MNoReply
<1>4. EndInv'
  BY <1>1, <1>2, <1>3, MainTypes DEF EndInv, MNoReply
<1>5. QED
  BY <1>3, <1>4 DEF PipelineInv

\* The services are closed and the writer is told to stop.
LEMMA MCloseServicesStep ==
  ASSUME PipelineInv, MCloseServices, UNCHANGED setup
  PROVE  PipelineInv'
<1>1. /\ channel' \in ChannelStates /\ channel'.reply = channel.reply
      /\ channel'.command \in {channel.command, "abort", "close"}
  BY MainTypes DEF MCloseServices, DropSender, ChannelStates
<1>2. /\ main' \in MainStates /\ main.pc \in {"aborting", "closing", "released"}
      /\ \/ main'.pc = "exit" /\ main'.failed = TRUE
         \/ /\ main.pc = "released" /\ main'.pc = "exit" /\ (main.failed => main'.failed)
            /\ main'.abandoned = main.abandoned
         \/ /\ main.pc # "released" /\ main'.pc = "joining" /\ (main.failed => main'.failed)
            /\ main'.abandoned = main.abandoned
  <2>1. main.pc \in {"aborting", "closing", "released"} /\ main \in MainStates
    BY MainTypes DEF MCloseServices
  <2>2. PICK failed \in BOOLEAN, d \in {"running", main.deadline} :
          \/ /\ main.pc = "released"
             /\ main' = [main EXCEPT !.pc = "exit", !.failed = @ \/ failed]
          \/ main' = [main EXCEPT !.pc = "exit", !.failed = TRUE, !.abandoned = TRUE]
          \/ /\ main.pc # "released"
             /\ main' = [main EXCEPT !.pc = "joining", !.failed = @ \/ failed, !.deadline = d]
    BY DEF MCloseServices
  <2>3. d \in {"unset", "running", "passed"}
    BY <2>1 DEF MainStates
  <2>4. QED
    BY <2>1, <2>2, <2>3 DEF MainStates
<1>3. /\ AdmissionInv' /\ LogInv' /\ CaptureInv'
      /\ (Quiet => Quiet') /\ (ingress.sealed => ingress'.sealed)
  BY <1>1, <1>2, MainTypes, MainFrame DEF MCloseServices
<1>4. EndInv'
  BY <1>1, <1>2, <1>3, MainTypes DEF EndInv, MCloseServices
<1>5. QED
  BY <1>3, <1>4 DEF PipelineInv

\* The writer is joined, or given up.
LEMMA MJoinStep ==
  ASSUME PipelineInv, MJoin, UNCHANGED setup
  PROVE  PipelineInv'
<1>1. /\ main' \in MainStates /\ main.pc = "joining" /\ main'.pc = "exit"
      /\ \/ main'.failed = TRUE
         \/ /\ writer.pc = "ok" /\ (main.failed => main'.failed)
            /\ main'.abandoned = main.abandoned
  BY MainTypes DEF MJoin, WriterExited, At, MainStates
<1>2. /\ AdmissionInv' /\ LogInv' /\ CaptureInv'
      /\ (Quiet => Quiet') /\ (ingress.sealed => ingress'.sealed)
  BY <1>1, MainTypes, MainFrame DEF MJoin
<1>3. EndInv'
  BY <1>1, <1>2, MainTypes DEF EndInv, MJoin
<1>4. QED
  BY <1>2, <1>3 DEF PipelineInv

\* Time passes.
LEMMA MDeadlineStep ==
  ASSUME PipelineInv, MDeadline
  PROVE  PipelineInv'
<1>1. /\ main' \in MainStates /\ main'.pc = main.pc /\ main'.failed = main.failed
      /\ main'.abandoned = main.abandoned
  BY MainTypes DEF MDeadline, MainStates
<1>2. /\ AdmissionInv' /\ LogInv' /\ CaptureInv'
      /\ (Quiet => Quiet') /\ (ingress.sealed => ingress'.sealed)
  BY <1>1, MainTypes, MainFrame DEF MDeadline
<1>3. EndInv'
  BY <1>1, <1>2, MainTypes DEF EndInv, MDeadline
<1>4. QED
  BY <1>2, <1>3 DEF PipelineInv

-----------------------------------------------------------------------------
(* The invariant.                                                          *)

\* A pipeline that has just started.
LEMMA InitHasInv == Init => PipelineInv
<1> SUFFICES ASSUME Init
             PROVE  PipelineInv
  OBVIOUS
<1>1. /\ setup \in Setups /\ setup.last \in 0 .. MaxSequence /\ setup.cues \in Nat
      /\ MaxSequence \in Nat /\ MaxEvents \in Nat /\ MaxBytes \in Nat
  BY PipelineAssumption, BudgetAssumption DEF Init
<1>2. NewIngress \in IngressStates
  BY EmptySeq DEF NewIngress, IngressStates
<1>3. PipelineTypeInv
  <2>1. hub \in [next : 1 .. MaxSequence + 1, admission : Admissions]
    <3>1. hub = [next |-> 1, admission |-> NoAdmission]
      BY DEF Init
    <3>2. 1 \in 1 .. MaxSequence + 1 /\ NoAdmission \in Admissions
      BY <1>1 DEF Admissions
    <3>3. QED
      BY <3>1, <3>2
  <2>2. loop \in LoopStates(setup.cues)
    <3>1. loop = [pc |-> "idle", begun |-> 0, captured |-> FALSE, gap |-> 0,
                  suppressed |-> 0, reported |-> 0, runClosed |-> FALSE]
      BY DEF Init
    <3>2. 0 \in 0 .. setup.cues
      BY <1>1
    <3>3. QED
      BY <3>1, <3>2 DEF LoopStates
  <2>3. writer \in WriterStates /\ store \in [events : Seq(Nat \ {0}), clean : BOOLEAN]
    BY EmptySeq DEF Init, WriterStates, Places
  <2>4. /\ quota \in [failed : BOOLEAN, signal : BOOLEAN] /\ channel \in ChannelStates
        /\ failures \in [producer : BOOLEAN, writer : BOOLEAN, first : BOOLEAN]
        /\ main \in MainStates
    BY DEF Init, ChannelStates, MainStates
  <2>5. QED
    BY <1>2, <2>1, <2>2, <2>3, <2>4 DEF Init, PipelineTypeInv
<1>4. /\ ingress.outstanding = << >> /\ ingress.outstandingBytes = 0 /\ ingress.committed = 0
      /\ ingress.reservedBytes = 0 /\ ingress.reservedEvents = 0 /\ ingress.failure # "accounting"
      /\ ingress.suppressed = 0
  BY DEF Init, NewIngress
<1>5. AdmissionInv
  <2>1. HubFree /\ hub.next = 1 /\ hub.admission.by # "loop" /\ hub.admission.bytes = 0
    BY DEF Init, HubFree, NoAdmission
  <2>2. PendingEvents(ingress) = 0 /\ PendingBytes(ingress) = 0
    BY <1>4 DEF PendingEvents, PendingBytes
  <2>3. QED
    BY <1>1, <1>3, <1>4, <2>1, <2>2, TotalOfNone DEF AdmissionInv
<1>6. LogInv
  <2>1. /\ store.events = << >> /\ writer.batch = << >> /\ writer.watermark = 0
        /\ writer.pc = "poll" /\ hub.next = 1
    BY DEF Init
  <2>2. Len(<< >>) = 0 /\ DOMAIN << >> = {} /\ 1 .. 0 = {} /\ 0 \in 0 .. 0
    OBVIOUS
  <2>3. InFlightAt(ingress.outstanding) = {}
    BY <1>4, <2>2 DEF InFlightAt
  <2>4. StoreAndQueueAreOneLog
    <3>1. \E k \in 0 .. Len(ingress.outstanding) : InFlightAt(ingress.outstanding) = 1 .. k
      <4>1. 0 \in 0 .. Len(ingress.outstanding) /\ InFlightAt(ingress.outstanding) = 1 .. 0
        BY <1>4, <2>2, <2>3
      <4>2. QED
        BY <4>1
    <3>2. DOMAIN ingress.outstanding = {} /\ DOMAIN writer.batch = {} /\ DOMAIN store.events = {}
      BY <1>4, <2>1, <2>2
    <3>3. /\ hub.next = ingress.committed + Len(ingress.outstanding) + 1
          /\ ~ (Len(store.events) > ingress.committed)
          /\ Len(store.events) = ingress.committed + 0 /\ writer.watermark = ingress.committed
      BY <1>4, <2>1, <2>2
    <3>4. QED
      BY <2>3, <3>1, <3>2, <3>3 DEF StoreAndQueueAreOneLog
  <2>5. QED
    BY <1>4, <2>1, <2>2, <2>4 DEF LogInv, At
<1>7. CaptureInv
  <2>1. /\ loop.pc = "idle" /\ loop.begun = 0 /\ loop.gap = 0 /\ loop.suppressed = 0
        /\ loop.reported = 0 /\ loop.runClosed = FALSE
    BY DEF Init
  <2>2. QED
    BY <1>4, <2>1 DEF CaptureInv, Ending, NoCueIsLost
<1>8. EndInv
  BY DEF Init, EndInv
<1>9. QED
  BY <1>5, <1>6, <1>7, <1>8 DEF PipelineInv

\* Every step keeps it.
LEMMA NextKeepsInv ==
  ASSUME PipelineInv, [Next]_vars
  PROVE  PipelineInv'
<1>1. CASE ProducerStep
  BY <1>1, ProducerStepKeepsInv
<1>2. CASE WriterStep
  BY <1>2, WriterStepKeepsInv
<1>3. CASE MainStep
  BY <1>3, MPollStep, MOperationReturnedStep, MShutdownStep, MFinalizeStep, MReplyStep,
     MNoReplyStep, MCloseServicesStep, MJoinStep DEF MainStep
<1>4. CASE MDeadline
  BY <1>4, MDeadlineStep
<1>5. CASE UNCHANGED vars
  <2>1. AdmissionInv' /\ LogInv' /\ CaptureInv' /\ (Quiet => Quiet')
    BY <1>5, MainTypes, MainFrame DEF vars
  <2>2. EndInv'
    BY <1>5, <2>1, MainTypes DEF vars, EndInv
  <2>3. QED
    BY <2>1, <2>2 DEF PipelineInv
<1>6. QED
  BY <1>1, <1>2, <1>3, <1>4, <1>5 DEF Next, Done

\* The inductive invariant of the pipeline: hub, ingress, writer, archive and
\* main thread fit together after any interleaving and any fault.
THEOREM PipelineInvariant == Spec => []PipelineInv
<1>1. PipelineInv /\ [Next]_vars => PipelineInv'
  BY NextKeepsInv
<1>2. QED
  BY <1>1, InitHasInv, PTL DEF Spec

\* For every budget and batch size: the ingress never exceeds its budget, its
\* counters are exact, mark_committed and commit never latch an accounting
\* failure, and hub, queue, batch and archive are one log.
THEOREM AccountingIsAlwaysExact == Spec => []AccountingIsExact
<1>1. PipelineInv => AccountingIsExact
  <2> SUFFICES ASSUME PipelineInv
               PROVE  AccountingIsExact
    OBVIOUS
  <2>1. failures.producer \/ loop.suppressed = loop.reported + loop.gap + ingress.suppressed
    BY DEF PipelineInv, CaptureInv, NoCueIsLost
  <2>2. QED
    BY <2>1 DEF PipelineInv, AdmissionInv, LogInv, AccountingIsExact
<1>2. QED
  BY <1>1, PipelineInvariant, PTL

\* A quiet pipeline whose batch is empty has stored everything.
LEMMA QuietIsStored ==
  ASSUME PipelineInv, Quiet, writer.batch = << >>
  PROVE  Len(store.events) = hub.next - 1
<1>1. /\ PipelineTypeInv /\ StoreAndQueueAreOneLog /\ ingress.outstanding = << >>
  BY DEF PipelineInv, AdmissionInv, LogInv, Quiet
<1>2. ingress.committed \in Nat /\ hub.next \in Nat
  BY <1>1 DEF PipelineTypeInv, IngressStates
<1>3. Len(store.events) = ingress.committed + 0 /\ hub.next = ingress.committed + 0 + 1
  BY <1>1 DEF StoreAndQueueAreOneLog
<1>4. QED
  BY <1>2, <1>3

\* Whatever fails and whoever gives up first, exit code 0 is only reached with
\* a clean archive that holds every accepted event and every gap.
THEOREM SuccessAlwaysMeansComplete == Spec => []SuccessMeansComplete
<1>1. PipelineInv => SuccessMeansComplete
  <2> SUFFICES ASSUME PipelineInv, main.pc = "exit", ~ main.failed
               PROVE  /\ store.clean /\ Len(store.events) = hub.next - 1
                      /\ loop.runClosed /\ loop.reported = loop.suppressed
                      /\ writer.pc = "ok" /\ ~ main.abandoned
    BY DEF SuccessMeansComplete
  <2>1. /\ store.clean /\ Quiet /\ writer.batch = << >> /\ loop.runClosed
        /\ writer.pc = "ok" /\ ~ main.abandoned
    BY DEF PipelineInv, EndInv
  <2>2. Len(store.events) = hub.next - 1
    BY <2>1, QuietIsStored
  <2>3. ingress.suppressed = 0 /\ loop.gap = 0 /\ NoCueIsLost
    BY <2>1 DEF PipelineInv, CaptureInv, Ending
  <2>4. loop.reported \in Nat
    BY PipelineAssumption DEF PipelineInv, AdmissionInv, PipelineTypeInv, LoopStates
  <2>5. loop.reported = loop.suppressed
    BY <2>3, <2>4 DEF NoCueIsLost
  <2>6. QED
    BY <2>1, <2>2, <2>5
<1>2. QED
  BY <1>1, PipelineInvariant, PTL

\* A guard that gives up leaves the archive unclean for good, unless the writer
\* had already passed the last check of shutdown_abandoned.
THEOREM AbandonedRunsStayUnclean == Spec => AbandonedRunStaysUnclean
<1> DEFINE A == main.abandoned /\ ~ At("finalCommit") /\ ~ store.clean
<1>1. PipelineInv /\ A /\ [Next]_vars => A'
  <2> SUFFICES ASSUME PipelineInv, A, [Next]_vars
               PROVE  A'
    OBVIOUS
  <2>1. /\ main \in MainStates /\ writer \in WriterStates
        /\ store \in [events : Seq(Nat \ {0}), clean : BOOLEAN]
    BY DEF PipelineInv, AdmissionInv, PipelineTypeInv
  <2>2. CASE ProducerStep
    BY <2>2 DEF ProducerStep, AdmitOther, AdmitCueEvent, AdmitLoopEvent, BeginAdmission,
                CommitAdmission, RejectAdmission, BeginCue, FinishRun, At
  <2>3. CASE WriterStep
    <3>1. main' = main
      BY <2>3 DEF WriterStep, WPoll, WCommand, WDequeue, WFlush, WCommit, WCommitted, WStatus,
                  WFinalize, WBeforeCommit, WFinalCommit, WFinalized, WWaitClose, WClose,
                  WriterFails, FinalizeFails
    <3>2. CASE WPoll \/ WCommand \/ WDequeue \/ WFlush
      BY <3>1, <3>2, <2>1 DEF WPoll, WCommand, WDequeue, WFlush, WriterFails, GoTo, At, WriterStates
    <3>3. CASE WCommit \/ WCommitted
      BY <3>1, <3>3, <2>1 DEF WCommit, WCommitted, WriterFails, GoTo, At, WriterStates
    <3>4. CASE WStatus
      BY <3>1, <3>4, <2>1 DEF WStatus, WriterFails, GoTo, At, WriterStates, ReadyToClose
    <3>5. CASE WFinalize \/ WBeforeCommit \/ WFinalCommit
      BY <3>1, <3>5, <2>1 DEF WFinalize, WBeforeCommit, WFinalCommit, FinalizeFails, WriterFails,
                              GoTo, At, WriterStates
    <3>6. CASE WFinalized \/ WWaitClose \/ WClose
      BY <3>1, <3>6, <2>1 DEF WFinalized, WWaitClose, WClose, FinalizeFails, WriterFails,
                              GoTo, At, WriterStates
    <3>7. QED
      BY <2>3, <3>2, <3>3, <3>4, <3>5, <3>6 DEF WriterStep
  <2>4. CASE MainStep \/ MDeadline
    <3>1. UNCHANGED <<writer, store>>
      BY <2>4 DEF MainStep, MPoll, MOperationReturned, MShutdown, MFinalize, MReply, MNoReply,
                  MCloseServices, MJoin, MDeadline
    <3>2. main'.abandoned
      BY <2>1, <2>4 DEF MainStep, MPoll, MOperationReturned, MShutdown, MFinalize, MReply,
                  MNoReply, MCloseServices, MJoin, MDeadline, Abandon, MainStates
    <3>3. QED
      BY <3>1, <3>2 DEF At
  <2>5. CASE UNCHANGED vars
    BY <2>5 DEF vars, At
  <2>6. QED
    BY <2>2, <2>3, <2>4, <2>5 DEF Next, Done
<1>2. A => ~ store.clean
  OBVIOUS
<1> HIDE DEF A
<1>3. Spec => [](A => []~ store.clean)
  BY <1>1, <1>2, PipelineInvariant, PTL DEF Spec
<1>4. QED
  BY <1>3 DEF AbandonedRunStaysUnclean, A

-----------------------------------------------------------------------------
(* The archive is a durable log.                                           *)

\* A step that neither numbers nor stores an event, and does not mark the
\* archive, is no step of the log.
LEMMA LogStutters ==
  ASSUME hub'.next = hub.next, store' = store
  PROVE  UNCHANGED Log!logVars
BY DEF Log!logVars

\* Every step of the pipeline is a step of the log, or none.
LEMMA PipelineStepIsLogStep ==
  ASSUME PipelineInv, [Next]_vars
  PROVE  [Log!LogAccept \/ Log!LogStore \/ Log!LogFinalize]_(Log!logVars)
<1>1. /\ hub \in [next : 1 .. MaxSequence + 1, admission : Admissions]
      /\ store \in [events : Seq(Nat \ {0}), clean : BOOLEAN]
      /\ hub.next \in Nat /\ MaxSequence \in Nat
  BY PipelineAssumption DEF PipelineInv, AdmissionInv, PipelineTypeInv
<1>2. CASE CommitAdmission
  <2>1. ~ store.clean
    BY <1>2 DEF PipelineInv, EndInv, Quiet, CommitAdmission
  <2>2. hub.next <= MaxSequence
    <3>1. hub.next <= setup.last /\ setup \in Setups
      BY <1>2 DEF PipelineInv, AdmissionInv, CommitAdmission
    <3>2. setup.last \in 0 .. MaxSequence
      BY <3>1, PipelineAssumption
    <3>3. QED
      BY <3>1, <3>2, <1>1
  <2>3. hub'.next = hub.next + 1 /\ store' = store
    BY <1>2 DEF CommitAdmission
  <2>4. hub.next - 1 < MaxSequence /\ hub'.next - 1 = (hub.next - 1) + 1
    <3> DEFINE x == hub.next
               y == hub'.next
    <3>1. x \in Nat /\ MaxSequence \in Nat /\ x <= MaxSequence /\ y = x + 1
      BY <1>1, <2>2, <2>3
    <3> HIDE DEF x, y
    <3>2. x - 1 < MaxSequence /\ y - 1 = (x - 1) + 1
      BY <3>1
    <3>3. QED
      BY <3>2 DEF x, y
  <2>5. QED
    BY <2>1, <2>3, <2>4 DEF Log!LogAccept
<1>3. CASE ProducerStep /\ ~ CommitAdmission
  BY <1>1, <1>3, LogStutters DEF ProducerStep, AdmitOther, AdmitCueEvent, AdmitLoopEvent,
     BeginAdmission, Refused, RejectAdmission, BeginCue, FinishRun
<1>4. CASE WCommit
  <2>1. CASE WriterFails(ingress) /\ UNCHANGED store
    BY <2>1, LogStutters DEF WriterFails
  <2>2. CASE /\ store' = [store EXCEPT !.events =
                            @ \o [n \in DOMAIN writer.batch |-> writer.batch[n].sequence]]
             /\ hub' = hub
    <3> DEFINE s == store.events \o [n \in DOMAIN writer.batch |-> writer.batch[n].sequence]
    <3>1. /\ Len(s) = ingress.committed + Len(writer.batch) /\ Len(s) <= hub.next - 1
          /\ Len(store.events) = ingress.committed /\ Len(writer.batch) > 0
      BY <1>4, StoredBatch DEF WCommit
    <3>2. store'.events = s /\ store'.clean = store.clean
      BY <1>1, <2>2
    <3> HIDE DEF s
    <3>3. ~ store.clean
      BY <1>4 DEF PipelineInv, EndInv, WCommit, At
    <3>4. ingress.committed \in Nat /\ Len(writer.batch) \in Nat
      BY QueueFacts DEF PipelineInv, AdmissionInv
    <3>5. Len(s) \in Len(store.events) + 1 .. hub.next - 1
      BY <3>1, <3>4, <1>1
    <3>6. QED
      BY <2>2, <3>2, <3>3, <3>5 DEF Log!LogStore
  <2>3. QED
    BY <1>4, <2>1, <2>2 DEF WCommit
<1>5. CASE WFinalCommit
  <2>1. CASE WriterFails(ingress) /\ UNCHANGED store
    BY <2>1, LogStutters DEF WriterFails
  <2>2. CASE store' = [store EXCEPT !.clean = TRUE] /\ hub' = hub
    <3>1. Quiet /\ writer.batch = << >>
      BY <1>5 DEF PipelineInv, EndInv, WFinalCommit, At
    <3>2. Len(store.events) = hub.next - 1
      BY <3>1, QuietIsStored
    <3>3. store'.events = store.events /\ store'.clean = TRUE
      BY <1>1, <2>2
    <3>4. QED
      BY <2>2, <3>2, <3>3 DEF Log!LogFinalize
  <2>3. QED
    BY <1>5, <2>1, <2>2 DEF WFinalCommit, FinalizeFails
<1>6. CASE WriterStep /\ ~ WCommit /\ ~ WFinalCommit
  BY <1>6, LogStutters DEF WriterStep, WPoll, WCommand, WDequeue, WFlush, WCommitted, WStatus,
     WFinalize, WBeforeCommit, WFinalized, WWaitClose, WClose, WriterFails, FinalizeFails
<1>7. CASE MainStep \/ MDeadline
  BY <1>7, LogStutters DEF MainStep, MPoll, MOperationReturned, MShutdown, MFinalize, MReply,
     MNoReply, MCloseServices, MJoin, MDeadline
<1>8. CASE UNCHANGED vars
  BY <1>8, LogStutters DEF vars
<1>9. QED
  BY <1>2, <1>3, <1>4, <1>5, <1>6, <1>7, <1>8 DEF Next, Done

\* The pipeline implements DurableLog: the archive always holds a prefix of the
\* events accepted, and one marked clean_shutdown holds them all, for good.
THEOREM PipelineImplementsDurableLog == Spec => ArchiveIsDurableLog
<1>1. Init => Log!LogInit
  <2> SUFFICES ASSUME Init
               PROVE  Log!LogInit
    OBVIOUS
  <2>1. hub.next = 1
    BY DEF Init
  <2>2. store.events = << >> /\ store.clean = FALSE
    BY DEF Init
  <2>3. QED
    BY <2>1, <2>2 DEF Log!LogInit
<1>2. PipelineInv /\ [Next]_vars => [Log!LogAccept \/ Log!LogStore \/ Log!LogFinalize]_(Log!logVars)
  BY PipelineStepIsLogStep
<1>3. QED
  BY <1>1, <1>2, PipelineInvariant, PTL DEF Spec, ArchiveIsDurableLog, Log!LogSpec
=============================================================================
