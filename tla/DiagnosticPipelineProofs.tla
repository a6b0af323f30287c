---------------------- MODULE DiagnosticPipelineProofs ----------------------
(***************************************************************************)
(* Proofs about DiagnosticPipeline, for every budget, batch size, length   *)
(* of a Run and set of faults.                                             *)
(*                                                                         *)
(* PipelineInv is the inductive invariant.  AdmissionInv ties the ingress  *)
(* to the admission that holds the hub's lock, LogInv ties the queue to    *)
(* the writer's batch and the archive, CaptureInv follows the suppressed   *)
(* Cues, and EndInv follows the end of the Run through main thread,        *)
(* channels and writer.  Here: sums, the operators of the ingress, and the *)
(* steps of the producers; DiagnosticWriterProofs has the rest.            *)
(***************************************************************************)
EXTENDS DiagnosticPipeline, SequenceTheorems, WellFoundedInduction, TLAPS

\* Nothing is accepted any more, and nothing accepted is left to store.
Quiet == ingress.sealed /\ HubFree /\ ingress.outstanding = << >>

AdmissionInv ==
  /\ setup \in Setups
  /\ PipelineTypeInv
  /\ hub.next <= setup.last + 1
  /\ ~ HubFree => hub.next <= setup.last
  /\ hub.admission.by = "loop" => loop.pc # "closed"
  /\ ingress.failure # "accounting"
  /\ ingress.outstandingBytes = TotalBytes(ingress.outstanding)
  /\ ingress.reservedBytes = hub.admission.bytes
  /\ ingress.reservedEvents = IF HubFree THEN 0 ELSE 1
  /\ PendingEvents(ingress) <= MaxEvents /\ PendingBytes(ingress) <= MaxBytes

LogInv ==
  /\ StoreAndQueueAreOneLog
  /\ At("commit") \/ At("committed") => writer.batch # << >>
  /\ ~ WriterExited => (Len(store.events) > ingress.committed <=> At("committed"))

\* Every suppressed Cue is in a gap that was reported, in the one under way, or
\* still counted by the ingress.
NoCueIsLost == loop.suppressed = loop.reported + loop.gap + ingress.suppressed

Ending == loop.pc \in {"finalGap", "terminal"} \/ loop.runClosed

CaptureInv ==
  /\ ~ ingress.paused => ingress.suppressed = 0
  /\ loop.reported + loop.gap + ingress.suppressed <= loop.suppressed
  /\ loop.suppressed <= loop.begun
  /\ loop.pc = "idle" /\ ~ failures.producer => loop.gap = 0
  /\ ~ failures.producer \/ Ending => NoCueIsLost
  /\ Ending => ingress.suppressed = 0
  /\ loop.pc = "terminal" \/ loop.runClosed => loop.gap = 0
  /\ loop.runClosed => loop.pc = "closed"

EndInv ==
  /\ main.pc \notin {"running", "settling", "ended"} => ingress.sealed
  /\ channel.command = "finalize" \/ writer.intent = "finalize" => ingress.sealed
  /\ store.clean \/ writer.pc \in {"finalize", "beforeCommit", "finalCommit"} =>
       Quiet /\ writer.batch = << >>
  /\ writer.pc \in {"finalized", "waitClose"} => store.clean
  /\ store.clean => writer.pc \in {"finalized", "waitClose", "closing", "ok", "failed"}
  /\ channel.reply = "ok" => store.clean /\ writer.pc # "finalized"
  /\ main.abandoned \/ main.pc \in {"aborting", "released"} => main.failed
  /\ main.abandoned => main.pc \in {"released", "exit"}
  /\ main.pc \in {"finalizing", "awaiting", "closing", "joining", "exit"} /\ ~ main.failed =>
       loop.runClosed
  /\ main.pc \in {"closing", "joining", "exit"} /\ ~ main.failed => channel.reply = "ok"
  /\ main.pc = "exit" /\ ~ main.failed => writer.pc = "ok"

PipelineInv == AdmissionInv /\ LogInv /\ CaptureInv /\ EndInv

-----------------------------------------------------------------------------
(* Sums over sequences.  The induction over their length is the principle  *)
(* of the least number, applied to the set of counterexamples.             *)

\* A non-empty set of natural numbers has a least element.
LEMMA LeastNumber ==
  ASSUME NEW T \in SUBSET Nat, T # {}
  PROVE  \E m \in T : \A k \in T : m <= k
<1> DEFINE R == OpToRel(<, Nat)
<1>1. IsWellFoundedOn(R, Nat)
  BY NatLessThanWellFounded
<1>2. \A x \in T, y \in T : y < x => <<y, x>> \in R
  BY SMT DEF OpToRel
<1> HIDE DEF R
<1>3. \E x \in T : \A y \in T : ~(<<y, x>> \in R)
  BY <1>1, WFMin, Zenon
<1>4. PICK m \in T : \A k \in T : ~(k < m)
  BY <1>2, <1>3, Zenon
<1>5. \A k \in T : m <= k
  BY <1>4
<1>6. QED
  BY <1>5

\* A sequence of things that have a length in bytes.
Sized(s) == Len(s) \in Nat /\ \A n \in 1 .. Len(s) : s[n].bytes \in Nat

\* f[n] is the sum of the first n lengths of s, for n up to m.
SumsTo(f, s, m) == f[0] = 0 /\ \A n \in 1 .. m : f[n] = f[n - 1] + s[n].bytes

\* The partial sums exist.
LEMMA SumsExist ==
  ASSUME NEW s, Sized(s)
  PROVE  \E f \in [0 .. Len(s) -> Nat] : SumsTo(f, s, Len(s))
<1> DEFINE Has(m) == \E f \in [0 .. m -> Nat] : SumsTo(f, s, m)
           T == {m \in 0 .. Len(s) : ~ Has(m)}
<1>1. Has(0)
  <2> DEFINE f == [n \in 0 .. 0 |-> 0]
  <2>1. f \in [0 .. 0 -> Nat] /\ SumsTo(f, s, 0)
    BY DEF SumsTo
  <2>2. QED
    BY <2>1
<1>2. ASSUME NEW m \in 0 .. Len(s), m > 0, Has(m - 1)
      PROVE  Has(m)
  <2>1. PICK f \in [0 .. m - 1 -> Nat] : SumsTo(f, s, m - 1)
    BY <1>2
  <2> DEFINE g == [n \in 0 .. m |-> IF n = m THEN f[m - 1] + s[m].bytes ELSE f[n]]
  <2>2. s[m].bytes \in Nat /\ m \in Nat /\ m - 1 \in 0 .. m - 1
    BY <1>2 DEF Sized
  <2>3. g \in [0 .. m -> Nat]
    BY <2>1, <2>2
  <2>4. g[0] = 0
    BY <1>2, <2>1, <2>2 DEF SumsTo
  <2>5. ASSUME NEW n \in 1 .. m
        PROVE  g[n] = g[n - 1] + s[n].bytes
    <3>1. CASE n = m
      BY <3>1, <2>2
    <3>2. CASE n # m
      <4>1. n \in 1 .. m - 1
        BY <3>2, <2>2
      <4>2. g[n] = f[n] /\ g[n - 1] = f[n - 1]
        BY <4>1, <2>2
      <4>3. QED
        BY <4>1, <4>2, <2>1 DEF SumsTo
    <3>3. QED
      BY <3>1, <3>2
  <2>6. SumsTo(g, s, m)
    BY <2>4, <2>5 DEF SumsTo
  <2> HIDE DEF g
  <2>7. QED
    BY <2>3, <2>6
<1> HIDE DEF Has
<1>3. T = {}
  <2> SUFFICES ASSUME T # {}
               PROVE  FALSE
    OBVIOUS
  <2>1. T \in SUBSET Nat
    BY DEF Sized
  <2>2. PICK m \in T : \A k \in T : m <= k
    BY <2>1, LeastNumber
  <2>3. m > 0 /\ m - 1 \in 0 .. Len(s) /\ m - 1 \notin T
    BY <1>1, <2>1, <2>2 DEF Sized
  <2>4. QED
    BY <1>2, <2>2, <2>3
<1>4. Has(Len(s))
  BY <1>3 DEF Sized
<1>5. QED
  BY <1>4 DEF Has

\* TotalBytes is the last of any partial sums, and a natural number.
LEMMA TotalIsSum ==
  ASSUME NEW s, Sized(s), NEW f \in [0 .. Len(s) -> Int], SumsTo(f, s, Len(s))
  PROVE  TotalBytes(s) = f[Len(s)]
<1> DEFINE Is(g) == g = [n \in 0 .. Len(s) |-> IF n = 0 THEN 0 ELSE g[n - 1] + s[n].bytes]
           sum == CHOOSE g : Is(g)
<1>1. Is(f)
  <2>1. \A n \in 0 .. Len(s) : f[n] = IF n = 0 THEN 0 ELSE f[n - 1] + s[n].bytes
    BY DEF SumsTo, Sized
  <2>2. QED
    BY <2>1
<1>2. Is(sum)
  BY <1>1, Zenon
<1>3. TotalBytes(s) = sum[Len(s)]
  BY DEF TotalBytes
<1>4. sum[0] = 0 /\ \A n \in 1 .. Len(s) : sum[n] = sum[n - 1] + s[n].bytes
  BY <1>2 DEF Sized
<1> HIDE DEF sum
<1> DEFINE T == {n \in 0 .. Len(s) : sum[n] # f[n]}
<1>5. T = {}
  <2> SUFFICES ASSUME T # {}
               PROVE  FALSE
    OBVIOUS
  <2>1. T \in SUBSET Nat
    BY DEF Sized
  <2>2. PICK m \in T : \A k \in T : m <= k
    BY <2>1, LeastNumber
  <2>3. m \in 1 .. Len(s) /\ m - 1 \in 0 .. Len(s) /\ m - 1 \notin T
    BY <1>4, <2>1, <2>2 DEF Sized, SumsTo
  <2>4. sum[m] = sum[m - 1] + s[m].bytes /\ f[m] = f[m - 1] + s[m].bytes
    BY <1>4, <2>3 DEF SumsTo
  <2>5. QED
    BY <2>2, <2>3, <2>4
<1>6. QED
  BY <1>3, <1>5 DEF Sized

\* A total of lengths is a natural number.
LEMMA TotalIsNat ==
  ASSUME NEW s, Sized(s)
  PROVE  TotalBytes(s) \in Nat
<1>1. PICK f \in [0 .. Len(s) -> Nat] : SumsTo(f, s, Len(s))
  BY SumsExist
<1>2. f \in [0 .. Len(s) -> Int]
  OBVIOUS
<1>3. QED
  BY <1>1, <1>2, TotalIsSum DEF Sized

\* It depends on the lengths alone.
LEMMA TotalOfSame ==
  ASSUME NEW s, NEW t, Sized(s), Len(t) = Len(s),
         \A n \in 1 .. Len(s) : t[n].bytes = s[n].bytes
  PROVE  TotalBytes(t) = TotalBytes(s)
<1>1. PICK f \in [0 .. Len(s) -> Nat] : SumsTo(f, s, Len(s))
  BY SumsExist
<1>2. f \in [0 .. Len(s) -> Int]
  OBVIOUS
<1>3. Sized(t)
  BY DEF Sized
<1>4. SumsTo(f, t, Len(t))
  BY <1>1 DEF SumsTo
<1>5. TotalBytes(s) = f[Len(s)]
  BY <1>1, <1>2, TotalIsSum
<1>6. TotalBytes(t) = f[Len(s)]
  BY <1>2, <1>3, <1>4, TotalIsSum
<1>7. QED
  BY <1>5, <1>6

\* The empty sequence has none.
LEMMA TotalOfNone == TotalBytes(<< >>) = 0
<1> DEFINE f == [n \in 0 .. 0 |-> 0]
<1>1. Len(<< >>) = 0
  OBVIOUS
<1>2. Sized(<< >>) /\ f \in [0 .. 0 -> Int] /\ SumsTo(f, << >>, 0) /\ f[0] = 0
  BY <1>1 DEF Sized, SumsTo
<1> HIDE DEF f
<1>3. TotalBytes(<< >>) = f[Len(<< >>)]
  BY <1>1, <1>2, TotalIsSum
<1>4. QED
  BY <1>1, <1>2, <1>3

\* An element more adds its length.
LEMMA TotalOfAppend ==
  ASSUME NEW S, NEW s \in Seq(S), NEW e \in S, Sized(s), e.bytes \in Nat
  PROVE  TotalBytes(Append(s, e)) = TotalBytes(s) + e.bytes
<1>1. PICK f \in [0 .. Len(s) -> Nat] : SumsTo(f, s, Len(s))
  BY SumsExist
<1> DEFINE t == Append(s, e)
           l == Len(s) + 1
           g == [n \in 0 .. l |-> IF n = l THEN f[Len(s)] + e.bytes ELSE f[n]]
<1>2. Len(t) = l /\ t[l] = e /\ \A n \in 1 .. Len(s) : t[n] = s[n]
  BY AppendProperties
<1>3. Len(s) \in Nat /\ Len(s) \in 0 .. Len(s)
  OBVIOUS
<1>4. f[Len(s)] \in Nat
  BY <1>1, <1>3
<1>5. g \in [0 .. l -> Int] /\ g[l] = f[Len(s)] + e.bytes /\ \A n \in 0 .. Len(s) : g[n] = f[n]
  BY <1>1, <1>3, <1>4
<1>6. Sized(t)
  BY <1>2, <1>3 DEF Sized
<1> HIDE DEF t, g
<1>7. ASSUME NEW n \in 1 .. l
      PROVE  g[n] = g[n - 1] + t[n].bytes
  <2>1. CASE n = l
    BY <2>1, <1>2, <1>3, <1>5
  <2>2. CASE n \in 1 .. Len(s)
    <3>1. g[n] = f[n] /\ g[n - 1] = f[n - 1] /\ t[n] = s[n]
      BY <2>2, <1>2, <1>3, <1>5
    <3>2. QED
      BY <3>1, <2>2, <1>1 DEF SumsTo
  <2>3. n = l \/ n \in 1 .. Len(s)
    <3> DEFINE m == Len(s)
    <3>1. m \in Nat /\ n \in 1 .. m + 1
      BY <1>3
    <3> HIDE DEF m
    <3>2. n = m + 1 \/ n \in 1 .. m
      BY <3>1
    <3>3. QED
      BY <3>2 DEF m
  <2>4. QED
    BY <2>1, <2>2, <2>3
<1>8. SumsTo(g, t, l)
  BY <1>1, <1>3, <1>5, <1>7 DEF SumsTo
<1>9. TotalBytes(t) = g[l]
  BY <1>2, <1>5, <1>6, <1>8, TotalIsSum
<1>10. TotalBytes(s) = f[Len(s)]
  <2>1. f \in [0 .. Len(s) -> Int]
    OBVIOUS
  <2>2. QED
    BY <2>1, <1>1, TotalIsSum
<1>11. QED
  BY <1>5, <1>9, <1>10 DEF t

\* A prefix and the rest have the total between them.
LEMMA TotalOfSplit ==
  ASSUME NEW S, NEW s \in Seq(S), Sized(s), NEW k \in 0 .. Len(s)
  PROVE  TotalBytes(SubSeq(s, k + 1, Len(s))) = TotalBytes(s) - TotalBytes(SubSeq(s, 1, k))
<1>1. PICK f \in [0 .. Len(s) -> Nat] : SumsTo(f, s, Len(s))
  BY SumsExist
<1> DEFINE a == SubSeq(s, 1, k)
           b == SubSeq(s, k + 1, Len(s))
           m == Len(s) - k
           g == [n \in 0 .. k |-> f[n]]
           h == [n \in 0 .. m |-> f[n + k] - f[k]]
<1>2. Len(s) \in Nat /\ k \in Nat /\ m \in Nat /\ m + k = Len(s)
  OBVIOUS
<1>3. Len(a) = k /\ \A n \in 1 .. k : a[n] = s[n]
  BY <1>2
<1>4. Len(b) = m /\ \A n \in 1 .. m : b[n] = s[n + k]
  <2> DEFINE i == k + 1
             j == Len(s)
  <2>1. i \in Int /\ j \in Int /\ \A n \in i .. j : s[n] \in S
    BY <1>2
  <2>2. /\ j - i + 1 = m
        /\ i <= j \/ m = 0
        /\ \A n \in 1 .. m : i + n - 1 = n + k
    <3>1. j \in Nat /\ m + k = j
      BY <1>2
    <3> HIDE DEF m, j
    <3>2. j - i + 1 = m /\ (i <= j \/ m = 0)
      BY <3>1, <1>2
    <3>3. \A n \in 1 .. m : i + n - 1 = n + k
      BY <1>2
    <3>4. QED
      BY <3>2, <3>3
  <2> HIDE DEF i, j
  <2>3. /\ Len(SubSeq(s, i, j)) = IF i <= j THEN j - i + 1 ELSE 0
        /\ \A n \in 1 .. j - i + 1 : SubSeq(s, i, j)[n] = s[i + n - 1]
    BY <2>1, SubSeqProperties
  <2>4. /\ Len(SubSeq(s, i, j)) = m
        /\ \A n \in 1 .. m : SubSeq(s, i, j)[n] = s[n + k]
    <3> HIDE DEF m
    <3>1. QED
      BY <2>1, <2>2, <2>3, <1>2
  <2>5. QED
    BY <2>4 DEF i, j
<1>5. g \in [0 .. k -> Int] /\ \A n \in 0 .. k : g[n] = f[n]
  BY <1>1, <1>2
<1>6. h \in [0 .. m -> Int] /\ \A n \in 0 .. m : h[n] = f[n + k] - f[k]
  <2>1. \A n \in 0 .. m : n + k \in 0 .. Len(s)
    BY <1>2
  <2>2. f[k] \in Nat /\ \A n \in 0 .. m : f[n + k] \in Nat
    BY <2>1, <1>2
  <2>3. QED
    BY <2>2
<1>7. Sized(a) /\ Sized(b)
  <2>1. \A n \in 1 .. k : n \in 1 .. Len(s)
    BY <1>2
  <2>2. \A n \in 1 .. m : n + k \in 1 .. Len(s)
    BY <1>2
  <2> HIDE DEF a, b, m
  <2>3. QED
    BY <2>1, <2>2, <1>2, <1>3, <1>4 DEF Sized
<1> HIDE DEF a, b, m, g, h
<1>8. SumsTo(g, a, k)
  <2>1. \A n \in 1 .. k : g[n] = f[n] /\ g[n - 1] = f[n - 1] /\ n \in 1 .. Len(s) /\ a[n] = s[n]
    BY <1>2, <1>3, <1>5
  <2>2. QED
    BY <2>1, <1>1, <1>2, <1>5 DEF SumsTo
<1>9. SumsTo(h, b, m)
  <2>1. h[0] = 0
    <3>1. f[0 + k] \in Int /\ 0 + k = k /\ 0 \in 0 .. m
      BY <1>1, <1>2
    <3>2. QED
      BY <3>1, <1>6
  <2>2. ASSUME NEW n \in 1 .. m
        PROVE  h[n] = h[n - 1] + b[n].bytes
    <3>1. n + k \in 1 .. Len(s) /\ n \in 0 .. m /\ n - 1 \in 0 .. m /\ (n - 1) + k = (n + k) - 1
      BY <1>2
    <3>2. f[n + k] = f[(n + k) - 1] + s[n + k].bytes
      BY <3>1, <1>1 DEF SumsTo
    <3>3. h[n] = f[n + k] - f[k] /\ h[n - 1] = f[(n + k) - 1] - f[k] /\ b[n] = s[n + k]
      BY <3>1, <1>4, <1>6
    <3>4. f[(n + k) - 1] \in Nat /\ f[k] \in Nat /\ s[n + k].bytes \in Nat
      BY <3>1, <1>2 DEF Sized
    <3>5. QED
      BY <3>2, <3>3, <3>4
  <2>3. QED
    BY <2>1, <2>2 DEF SumsTo
<1>10. TotalBytes(a) = f[k]
  BY <1>2, <1>3, <1>5, <1>7, <1>8, TotalIsSum
<1>11. TotalBytes(b) = f[Len(s)] - f[k]
  <2>1. TotalBytes(b) = h[m]
    BY <1>4, <1>6, <1>7, <1>9, TotalIsSum
  <2>2. h[m] = f[m + k] - f[k]
    BY <1>2, <1>6
  <2>3. QED
    BY <2>1, <2>2, <1>2
<1>12. TotalBytes(s) = f[Len(s)]
  <2>1. f \in [0 .. Len(s) -> Int]
    OBVIOUS
  <2>2. QED
    BY <2>1, <1>1, TotalIsSum
<1>13. QED
  BY <1>10, <1>11, <1>12 DEF a, b

-----------------------------------------------------------------------------
(* What the operations of the ingress change.                              *)

SameQueue(i, j) ==
  /\ j.outstanding = i.outstanding
  /\ j.outstandingBytes = i.outstandingBytes
  /\ j.committed = i.committed

SameReserve(i, j) == j.reservedEvents = i.reservedEvents /\ j.reservedBytes = i.reservedBytes

SameCapture(i, j) == j.paused = i.paused /\ j.suppressed = i.suppressed

SameGate(i, j) == j.sealed = i.sealed /\ j.failure = i.failure

\* j is i, but for the seal and the failure behind it.
Sealing(i, j) ==
  /\ j \in IngressStates
  /\ SameQueue(i, j) /\ SameReserve(i, j) /\ SameCapture(i, j)
  /\ i.sealed => j.sealed
  /\ i.failure # "accounting" => j.failure # "accounting"

\* seal_normal_ingress seals and does nothing else.
LEMMA SealSeals ==
  ASSUME NEW i \in IngressStates
  PROVE  Sealing(i, i) /\ Sealing(i, Seal(i)) /\ Seal(i).sealed
BY DEF IngressStates, Seal, Sealing, SameQueue, SameReserve, SameCapture

\* So does latch_failure, but for the failure.
LEMMA LatchSeals ==
  ASSUME NEW i \in IngressStates
  PROVE  Sealing(i, LatchIngress(i, "budget"))
BY DEF IngressStates, IngressFailures, LatchIngress, Seal, Sealing, SameQueue, SameReserve, SameCapture

\* reserve takes one event and its bytes from the budget.
LEMMA ReserveBooks ==
  ASSUME NEW i \in IngressStates, NEW class, NEW bytes \in Sizes
  PROVE  LET j == Reserve(i, class, bytes)
         IN  /\ j \in IngressStates
             /\ SameQueue(i, j) /\ SameGate(i, j)
             /\ j.reservedEvents = i.reservedEvents + 1
             /\ j.reservedBytes = i.reservedBytes + bytes
             /\ j.suppressed = i.suppressed /\ (i.paused => j.paused)
<1> DEFINE b == i.paused \/ (class = "cue" /\ AtPause(PendingEvents(i) + 1, PendingBytes(i) + bytes))
<1>1. b \in BOOLEAN /\ (i.paused => b) /\ bytes \in Nat
  BY BudgetAssumption
<1>2. Reserve(i, class, bytes) =
        [i EXCEPT !.reservedEvents = @ + 1, !.reservedBytes = @ + bytes, !.paused = b]
  BY DEF Reserve
<1> HIDE DEF b
<1> DEFINE j == [i EXCEPT !.reservedEvents = @ + 1, !.reservedBytes = @ + bytes, !.paused = b]
<1>3. j \in IngressStates
  <2>1. \A m \in Nat, n \in Nat : [i EXCEPT !.reservedEvents = m, !.reservedBytes = n, !.paused = b]
                                 \in IngressStates
    BY <1>1 DEF IngressStates
  <2>2. i.reservedEvents + 1 \in Nat /\ i.reservedBytes + bytes \in Nat
    BY <1>1 DEF IngressStates
  <2>3. QED
    BY <2>1, <2>2
<1>4. /\ SameQueue(i, j) /\ SameGate(i, j)
      /\ j.reservedEvents = i.reservedEvents + 1
      /\ j.reservedBytes = i.reservedBytes + bytes
      /\ j.suppressed = i.suppressed /\ j.paused = b
  BY DEF IngressStates, SameQueue, SameGate
<1> HIDE DEF j
<1>5. QED
  BY <1>1, <1>2, <1>3, <1>4 DEF j

\* A reservation that is dropped gives back exactly what it took.
LEMMA ReleaseBooks ==
  ASSUME NEW i \in IngressStates, NEW bytes,
         i.reservedEvents = 1, i.reservedBytes = bytes
  PROVE  LET j == Release(i, bytes)
         IN  /\ j \in IngressStates
             /\ SameQueue(i, j) /\ SameGate(i, j) /\ SameCapture(i, j)
             /\ j.reservedEvents = 0 /\ j.reservedBytes = 0
<1>1. i.reservedEvents \in Nat /\ i.reservedBytes \in Nat
  BY DEF IngressStates
<1>2. Release(i, bytes) = [i EXCEPT !.reservedEvents = 0, !.reservedBytes = 0]
  <2>1. SaturatingSub(i.reservedEvents, 1) = 0 /\ SaturatingSub(i.reservedBytes, bytes) = 0
    BY <1>1 DEF SaturatingSub
  <2>2. QED
    BY <2>1 DEF Release
<1> DEFINE j == [i EXCEPT !.reservedEvents = 0, !.reservedBytes = 0]
<1>3. j \in IngressStates
  BY DEF IngressStates
<1>4. /\ SameQueue(i, j) /\ SameGate(i, j) /\ SameCapture(i, j)
      /\ j.reservedEvents = 0 /\ j.reservedBytes = 0
  BY DEF IngressStates, SameQueue, SameGate, SameCapture
<1> HIDE DEF j
<1>5. QED
  BY <1>2, <1>3, <1>4 DEF j

\* IngressReservation::commit of the number that is expected.
LEMMA AcceptBooks ==
  ASSUME NEW i \in IngressStates, NEW bytes \in Sizes, NEW sequence \in Nat \ {0},
         i.reservedEvents = 1, i.reservedBytes = bytes, sequence = NextExpected(i)
  PROVE  LET j == Accept(i, sequence, bytes)
             e == [sequence |-> sequence, bytes |-> bytes, phase |-> "queued"]
         IN  /\ j \in IngressStates
             /\ e \in Tracked /\ j.outstanding = Append(i.outstanding, e)
             /\ j.outstandingBytes = i.outstandingBytes + bytes
             /\ j.committed = i.committed
             /\ SameGate(i, j) /\ SameCapture(i, j)
             /\ j.reservedEvents = 0 /\ j.reservedBytes = 0
<1> DEFINE e == [sequence |-> sequence, bytes |-> bytes, phase |-> "queued"]
           r == Release(i, bytes)
<1>1. e \in Tracked /\ bytes \in Nat
  BY BudgetAssumption DEF Tracked
<1>2. /\ r \in IngressStates
      /\ SameQueue(i, r) /\ SameGate(i, r) /\ SameCapture(i, r)
      /\ r.reservedEvents = 0 /\ r.reservedBytes = 0
  BY ReleaseBooks
<1>3. Accept(i, sequence, bytes) = [r EXCEPT !.outstanding = Append(@, e), !.outstandingBytes = @ + bytes]
  BY DEF Accept
<1> HIDE DEF e, r
<1> DEFINE j == [r EXCEPT !.outstanding = Append(@, e), !.outstandingBytes = @ + bytes]
<1>4. r.outstanding \in Seq(Tracked) /\ Append(r.outstanding, e) \in Seq(Tracked)
  BY <1>1, <1>2 DEF IngressStates
<1>5. j \in IngressStates
  <2>1. \A q \in Seq(Tracked), n \in Nat : [r EXCEPT !.outstanding = q, !.outstandingBytes = n]
                                          \in IngressStates
    BY <1>2 DEF IngressStates
  <2>2. r.outstandingBytes + bytes \in Nat
    BY <1>1, <1>2 DEF IngressStates
  <2>3. QED
    BY <2>1, <2>2, <1>4
<1>6. /\ j.outstanding = Append(r.outstanding, e)
      /\ j.outstandingBytes = r.outstandingBytes + bytes
      /\ j.committed = r.committed
      /\ SameGate(r, j) /\ SameCapture(r, j)
      /\ j.reservedEvents = r.reservedEvents /\ j.reservedBytes = r.reservedBytes
  BY <1>2 DEF IngressStates, SameGate, SameCapture
<1> HIDE DEF j
<1>7. /\ j \in IngressStates
      /\ e \in Tracked /\ j.outstanding = Append(i.outstanding, e)
      /\ j.outstandingBytes = i.outstandingBytes + bytes
      /\ j.committed = i.committed
      /\ SameGate(i, j) /\ SameCapture(i, j)
      /\ j.reservedEvents = 0 /\ j.reservedBytes = 0
  BY <1>1, <1>2, <1>5, <1>6 DEF SameQueue, SameGate, SameCapture
<1>8. QED
  BY <1>3, <1>7 DEF j, e

\* begin_cue_capture and finish_cue_capture only touch the capture.
LEMMA CaptureBooks ==
  ASSUME NEW i \in IngressStates
  PROVE  LET j == BeginCueCapture(i)
         IN  /\ j \in IngressStates
             /\ SameQueue(i, j) /\ SameReserve(i, j) /\ SameGate(i, j)
             /\ FinishCueCapture(i) \in IngressStates
             /\ SameQueue(i, FinishCueCapture(i)) /\ SameReserve(i, FinishCueCapture(i))
             /\ SameGate(i, FinishCueCapture(i))
             /\ FinishCueCapture(i).suppressed = 0
<1>1. BeginCueCapture(i) \in
        {i, [i EXCEPT !.paused = FALSE, !.suppressed = 0],
         [i EXCEPT !.paused = TRUE, !.suppressed = @ + 1], [i EXCEPT !.paused = TRUE, !.suppressed = 1]}
  BY DEF BeginCueCapture
<1>2. FinishCueCapture(i) = [i EXCEPT !.paused = FALSE, !.suppressed = 0]
  BY DEF FinishCueCapture
<1>3. ASSUME NEW p \in BOOLEAN, NEW n \in Nat
      PROVE  LET j == [i EXCEPT !.paused = p, !.suppressed = n]
             IN  /\ j \in IngressStates
                 /\ SameQueue(i, j) /\ SameReserve(i, j) /\ SameGate(i, j) /\ j.suppressed = n
  BY DEF IngressStates, SameQueue, SameReserve, SameGate
<1>4. SameQueue(i, i) /\ SameReserve(i, i) /\ SameGate(i, i) /\ i.suppressed \in Nat
  BY DEF IngressStates, SameQueue, SameReserve, SameGate
<1>5. /\ BeginCueCapture(i) \in IngressStates
      /\ SameQueue(i, BeginCueCapture(i)) /\ SameReserve(i, BeginCueCapture(i))
      /\ SameGate(i, BeginCueCapture(i))
  <2>1. CASE BeginCueCapture(i) = i
    BY <2>1, <1>4
  <2>2. CASE BeginCueCapture(i) # i
    <3>1. PICK p \in BOOLEAN, n \in {0, 1, i.suppressed + 1} :
            BeginCueCapture(i) = [i EXCEPT !.paused = p, !.suppressed = n]
      BY <2>2, <1>1
    <3>2. n \in Nat
      BY <1>4
    <3>3. QED
      BY <3>1, <3>2, <1>3
  <2>3. QED
    BY <2>1, <2>2
<1>6. QED
  BY <1>2, <1>3, <1>5

-----------------------------------------------------------------------------
(* What a step that leaves a part of the state alone cannot disturb.       *)

\* An admission depends on hub, queue and reservation.
LEMMA AdmissionFrame ==
  ASSUME AdmissionInv, PipelineTypeInv', UNCHANGED <<hub, setup>>,
         SameQueue(ingress, ingress'), SameReserve(ingress, ingress'),
         ingress'.failure # "accounting",
         loop'.pc = "closed" => loop.pc = "closed" \/ hub.admission.by # "loop"
  PROVE  AdmissionInv'
BY DEF AdmissionInv, SameQueue, SameReserve, HubFree, PendingEvents, PendingBytes

\* The log depends on what queue, batch and archive hold, and on the writer's
\* place where it has a batch to commit.
LEMMA LogFrame ==
  ASSUME LogInv, SameQueue(ingress, ingress'),
         hub'.next = hub.next, store'.events = store.events,
         writer'.batch = writer.batch, writer'.watermark = writer.watermark,
         WriterExited' \/ ~ WriterExited,
         ~ WriterExited' => (writer'.pc = "committed" <=> writer.pc = "committed"),
         writer'.pc \in {"commit", "committed"} => writer.batch # << >>
  PROVE  LogInv'
<1>1. StoreAndQueueAreOneLog'
  BY DEF LogInv, StoreAndQueueAreOneLog, SameQueue
<1>2. QED
  BY <1>1 DEF LogInv, At, SameQueue

\* The capture of Cues depends on the loop and on the ingress.
LEMMA CaptureFrame ==
  ASSUME CaptureInv, loop' = loop, SameCapture(ingress, ingress'),
         failures.producer => failures'.producer
  PROVE  CaptureInv'
BY DEF CaptureInv, Ending, NoCueIsLost, SameCapture

\* The end of the Run depends on the producers only through the ingress, the
\* hub and the end of the Run span.
LEMMA EndFrame ==
  ASSUME EndInv, UNCHANGED <<writer, store, channel, main>>,
         ingress.sealed => ingress'.sealed, Quiet => Quiet',
         loop.runClosed => loop'.runClosed
  PROVE  EndInv'
BY DEF EndInv

-----------------------------------------------------------------------------
(* The producers.                                                          *)

\* A refused event is latched, and the loop goes on without it.
LEMMA RefusedStep ==
  ASSUME PipelineInv, NEW by \in {"loop", "other"}, Refused(by),
         by = "loop" => loop.pc # "closed", hub.admission.by = "loop" => by = "loop",
         ingress' \in IngressStates, SameQueue(ingress, ingress'), SameCapture(ingress, ingress'),
         ingress.sealed => ingress'.sealed, ingress'.failure # "accounting",
         ingress'.reservedEvents = 0, ingress'.reservedBytes = 0,
         quota' \in [failed : BOOLEAN, signal : BOOLEAN],
         UNCHANGED <<writer, store, channel, main, setup>>
  PROVE  PipelineInv'
<1>1. AdmissionInv /\ LogInv /\ CaptureInv /\ EndInv /\ PipelineTypeInv
  BY DEF PipelineInv, AdmissionInv
<1>2. /\ hub'.next = hub.next /\ hub'.admission = NoAdmission
      /\ hub' \in [next : 1 .. MaxSequence + 1, admission : Admissions]
  BY <1>1 DEF Refused, PipelineTypeInv, Admissions
<1>3. /\ failures'.producer
      /\ failures' \in [producer : BOOLEAN, writer : BOOLEAN, first : BOOLEAN]
  BY <1>1 DEF Refused, PipelineTypeInv
<1>4. \/ loop' = loop
      \/ by = "loop" /\ \E pc \in {"idle", "closed"} : loop' = [loop EXCEPT !.pc = pc]
  <2>1. CASE by = "loop"
    <3>1. loop.pc \in {"gap", "idle", "finalGap", "terminal"}
      BY <2>1, <1>1 DEF PipelineTypeInv, LoopStates
    <3>2. QED
      BY <2>1, <3>1 DEF Refused, LoopRefused
  <2>2. CASE by # "loop"
    BY <2>2 DEF Refused
  <2>3. QED
    BY <2>1, <2>2
<1>5. loop' \in LoopStates(setup.cues)
  BY <1>1, <1>4 DEF PipelineTypeInv, LoopStates
<1>6. AdmissionInv'
  <2>1. PipelineTypeInv'
    BY <1>1, <1>2, <1>3, <1>5 DEF PipelineTypeInv
  <2>2. /\ hub'.admission.by = "nobody" /\ hub'.admission.bytes = 0 /\ HubFree'
        /\ hub'.next <= setup.last + 1
    BY <1>1, <1>2 DEF NoAdmission, HubFree, AdmissionInv
  <2>3. PendingEvents(ingress)' <= MaxEvents /\ PendingBytes(ingress)' <= MaxBytes
    BY <1>1, BudgetAssumption
       DEF AdmissionInv, PipelineTypeInv, IngressStates, PendingEvents, PendingBytes, SameQueue
  <2>4. QED
    BY <2>1, <2>2, <2>3, <1>1 DEF AdmissionInv, SameQueue
<1>7. LogInv'
  BY <1>1, <1>2, LogFrame DEF LogInv, WriterExited, At
<1>8. CaptureInv'
  <2>1. CASE loop' = loop
    BY <2>1, <1>1, <1>3, CaptureFrame
  <2>2. CASE by = "loop" /\ \E pc \in {"idle", "closed"} : loop' = [loop EXCEPT !.pc = pc]
    <3>1. ~ loop.runClosed
      BY <2>2, <1>1 DEF CaptureInv
    <3>2. /\ loop'.pc \in {"idle", "closed"} /\ ~ loop'.runClosed
          /\ loop'.reported = loop.reported /\ loop'.gap = loop.gap
          /\ loop'.suppressed = loop.suppressed /\ loop'.begun = loop.begun
      BY <2>2, <3>1, <1>1 DEF PipelineTypeInv, LoopStates
    <3>3. QED
      BY <3>2, <1>1, <1>3 DEF CaptureInv, Ending, SameCapture
  <2>3. QED
    BY <2>1, <2>2, <1>4
<1>9. EndInv'
  <2>1. Quiet => Quiet'
    BY <1>2 DEF Quiet, HubFree, SameQueue
  <2>2. loop.runClosed => loop'.runClosed
    BY <1>1, <1>4 DEF PipelineTypeInv, LoopStates
  <2>3. QED
    BY <2>1, <2>2, <1>1, EndFrame
<1>10. QED
  BY <1>6, <1>7, <1>8, <1>9 DEF PipelineInv

\* reserve: the admission holds the hub's lock with its part of the budget.
LEMMA ReserveStep ==
  ASSUME PipelineInv, NEW by \in {"loop", "other"}, NEW class \in {"normal", "cue"},
         NEW bytes \in setup.sizes, by = "loop" => loop.pc # "closed",
         HubFree, hub.next <= setup.last, ~ ingress.sealed, ~ OverBudget(ingress, bytes),
         ingress' = Reserve(ingress, class, bytes),
         hub' = [hub EXCEPT !.admission = [by |-> by, class |-> class, bytes |-> bytes]],
         UNCHANGED <<quota, loop, failures, writer, store, channel, main, setup>>
  PROVE  PipelineInv'
<1>1. AdmissionInv /\ LogInv /\ CaptureInv /\ EndInv /\ PipelineTypeInv
  BY DEF PipelineInv, AdmissionInv
<1>2. bytes \in Sizes /\ bytes \in Nat \ {0}
  BY <1>1, PipelineAssumption, BudgetAssumption DEF AdmissionInv
<1> DEFINE a == [by |-> by, class |-> class, bytes |-> bytes]
<1>3. a \in Admissions /\ a # NoAdmission /\ a.by = by /\ a.bytes = bytes
  BY <1>2 DEF Admissions, NoAdmission
<1>4. /\ hub'.next = hub.next /\ hub'.admission = a
      /\ hub' \in [next : 1 .. MaxSequence + 1, admission : Admissions]
  BY <1>1, <1>3 DEF PipelineTypeInv
<1> HIDE DEF a
<1>5. /\ ingress' \in IngressStates
      /\ SameQueue(ingress, ingress') /\ SameGate(ingress, ingress')
      /\ ingress'.reservedEvents = ingress.reservedEvents + 1
      /\ ingress'.reservedBytes = ingress.reservedBytes + bytes
      /\ ingress'.suppressed = ingress.suppressed /\ (ingress.paused => ingress'.paused)
  <2>1. ingress \in IngressStates
    BY <1>1 DEF PipelineTypeInv
  <2>2. QED
    BY <2>1, <1>2, ReserveBooks
<1>6. ingress.reservedEvents = 0 /\ ingress.reservedBytes = 0
  BY <1>1 DEF AdmissionInv, HubFree, NoAdmission
<1>7. AdmissionInv'
  <2>1. PipelineTypeInv'
    BY <1>1, <1>4, <1>5 DEF PipelineTypeInv
  <2>2. ~ HubFree'
    BY <1>3, <1>4 DEF HubFree
  <2>3. /\ ingress'.outstandingBytes = TotalBytes(ingress'.outstanding)
        /\ ingress'.failure # "accounting"
    BY <1>1, <1>5 DEF AdmissionInv, SameQueue, SameGate
  <2>4. ingress'.reservedBytes = bytes /\ ingress'.reservedEvents = 1
    BY <1>2, <1>5, <1>6
  <2>5. PendingEvents(ingress)' <= MaxEvents /\ PendingBytes(ingress)' <= MaxBytes
    <3>1. PendingEvents(ingress) + 1 <= MaxEvents /\ PendingBytes(ingress) + bytes <= MaxBytes
      <4>1. PendingEvents(ingress) \in Nat /\ PendingBytes(ingress) \in Nat
        BY <1>1 DEF PendingEvents, PendingBytes, PipelineTypeInv, IngressStates
      <4>2. QED
        BY <4>1, <1>2, BudgetAssumption DEF OverBudget
    <3>2. /\ ingress.reservedEvents \in Nat /\ ingress.reservedBytes \in Nat
          /\ Len(ingress.outstanding) \in Nat /\ ingress.outstandingBytes \in Nat
      BY <1>1 DEF PipelineTypeInv, IngressStates
    <3>3. /\ ingress'.reservedEvents + Len(ingress'.outstanding)
               = ingress.reservedEvents + Len(ingress.outstanding) + 1
          /\ ingress'.reservedBytes + ingress'.outstandingBytes
               = ingress.reservedBytes + ingress.outstandingBytes + bytes
      <4>1. /\ ingress'.outstanding = ingress.outstanding
            /\ ingress'.outstandingBytes = ingress.outstandingBytes
        BY <1>5 DEF SameQueue
      <4>2. /\ ingress'.reservedEvents = ingress.reservedEvents + 1
            /\ ingress'.reservedBytes = ingress.reservedBytes + bytes
        BY <1>5
      <4>3. QED
        BY <4>1, <4>2, <3>2, <1>2
    <3>4. QED
      BY <3>1, <3>3 DEF PendingEvents, PendingBytes
  <2>6. QED
    BY <2>1, <2>2, <2>3, <2>4, <2>5, <1>1, <1>3, <1>4 DEF AdmissionInv
<1>8. LogInv'
  BY <1>1, <1>4, <1>5, LogFrame DEF LogInv, WriterExited, At
<1>9. CaptureInv'
  BY <1>1, <1>5 DEF CaptureInv, Ending, NoCueIsLost, PipelineTypeInv, IngressStates
<1>10. EndInv'
  <2>1. ~ Quiet
    BY DEF Quiet
  <2>2. QED
    BY <2>1, <1>1, EndFrame
<1>11. QED
  BY <1>7, <1>8, <1>9, <1>10 DEF PipelineInv

\* admit_inner up to the reservation, for every producer.
LEMMA BeginAdmissionStep ==
  ASSUME PipelineInv, NEW by \in {"loop", "other"}, NEW class \in {"normal", "cue"},
         NEW bytes \in setup.sizes, by = "loop" => loop.pc # "closed",
         BeginAdmission(by, class, bytes), UNCHANGED setup
  PROVE  PipelineInv'
<1>1. AdmissionInv /\ PipelineTypeInv /\ ingress \in IngressStates
  BY DEF PipelineInv, AdmissionInv, PipelineTypeInv
<1>2. /\ HubFree /\ hub.admission.by # "loop"
      /\ ingress.reservedEvents = 0 /\ ingress.reservedBytes = 0
      /\ ingress.failure # "accounting"
      /\ UNCHANGED <<writer, store, channel, main>>
  BY <1>1 DEF BeginAdmission, AdmissionInv, HubFree, NoAdmission
<1>3. ASSUME Refused(by), Sealing(ingress, ingress'),
             quota' \in [failed : BOOLEAN, signal : BOOLEAN]
      PROVE  PipelineInv'
  BY <1>2, <1>3, RefusedStep DEF Sealing, SameReserve
<1>4. Sealing(ingress, ingress) /\ quota \in [failed : BOOLEAN, signal : BOOLEAN]
  BY <1>1, SealSeals DEF PipelineTypeInv
<1>5. CASE hub.next > setup.last /\ Refused(by) /\ UNCHANGED <<ingress, quota>>
  BY <1>3, <1>4, <1>5
<1>6. CASE /\ quota' = LatchQuota(quota) /\ ingress' = Seal(ingress) /\ Refused(by)
  <2>1. quota' \in [failed : BOOLEAN, signal : BOOLEAN]
    BY <1>4, <1>6 DEF LatchQuota
  <2>2. Sealing(ingress, ingress')
    BY <1>1, <1>6, SealSeals
  <2>3. QED
    BY <1>3, <1>6, <2>1, <2>2
<1>7. CASE ingress.sealed /\ Refused(by) /\ UNCHANGED <<ingress, quota>>
  BY <1>3, <1>4, <1>7
<1>8. CASE ingress' = LatchIngress(ingress, "budget") /\ Refused(by) /\ UNCHANGED quota
  <2>1. Sealing(ingress, ingress')
    BY <1>1, <1>8, LatchSeals
  <2>2. QED
    BY <1>3, <1>4, <1>8, <2>1
<1>9. CASE /\ hub.next <= setup.last
           /\ ~ ingress.sealed /\ ~ OverBudget(ingress, bytes)
           /\ ingress' = Reserve(ingress, class, bytes)
           /\ hub' = [hub EXCEPT !.admission = [by |-> by, class |-> class, bytes |-> bytes]]
           /\ UNCHANGED <<quota, loop, failures>>
  BY <1>2, <1>9, ReserveStep
<1>10. QED
  BY <1>5, <1>6, <1>7, <1>8, <1>9 DEF BeginAdmission

\* The validator refused the event.
LEMMA RejectAdmissionStep ==
  ASSUME PipelineInv, RejectAdmission, UNCHANGED setup
  PROVE  PipelineInv'
<1>1. AdmissionInv /\ PipelineTypeInv /\ ingress \in IngressStates
  BY DEF PipelineInv, AdmissionInv, PipelineTypeInv
<1>2. /\ ~ HubFree /\ ingress' = Release(ingress, hub.admission.bytes)
      /\ Refused(hub.admission.by)
      /\ UNCHANGED <<quota, writer, store, channel, main>>
  BY DEF RejectAdmission
<1>3. hub.admission.by \in {"loop", "other"} /\ (hub.admission.by = "loop" => loop.pc # "closed")
  BY <1>1, <1>2 DEF AdmissionInv, PipelineTypeInv, Admissions, HubFree
<1>4. /\ ingress.reservedEvents = 1 /\ ingress.reservedBytes = hub.admission.bytes
      /\ ingress.failure # "accounting"
  BY <1>1, <1>2 DEF AdmissionInv
<1>5. /\ ingress' \in IngressStates
      /\ SameQueue(ingress, ingress') /\ SameGate(ingress, ingress')
      /\ SameCapture(ingress, ingress')
      /\ ingress'.reservedEvents = 0 /\ ingress'.reservedBytes = 0
  BY <1>1, <1>2, <1>4, ReleaseBooks
<1>6. quota' \in [failed : BOOLEAN, signal : BOOLEAN]
  BY <1>1, <1>2 DEF PipelineTypeInv
<1>7. ingress'.failure # "accounting" /\ (ingress.sealed => ingress'.sealed)
  BY <1>4, <1>5 DEF SameGate
<1>8. QED
  BY <1>2, <1>3, <1>5, <1>6, <1>7, RefusedStep

\* The loop goes on after its event was accepted.
LEMMA LoopAcceptedFacts ==
  ASSUME AdmissionInv, CaptureInv, loop.pc # "closed", loop' = LoopAccepted,
         setup' = setup, failures' = failures, SameCapture(ingress, ingress')
  PROVE  loop' \in LoopStates(setup.cues) /\ CaptureInv' /\ ~ loop.runClosed
<1>1. /\ loop \in LoopStates(setup.cues) /\ setup.cues \in Nat
      /\ ingress.suppressed \in Nat /\ ingress.paused \in BOOLEAN
      /\ failures.producer \in BOOLEAN
  BY PipelineAssumption DEF AdmissionInv, PipelineTypeInv, IngressStates
<1> DEFINE sum == loop.reported + loop.gap
<1>2. sum \in 0 .. setup.cues /\ 0 \in 0 .. setup.cues /\ ~ loop.runClosed
  BY <1>1 DEF CaptureInv, LoopStates
<1>3. CASE loop.pc = "gap"
  <2>1. loop' = [loop EXCEPT !.pc = "idle", !.reported = sum, !.gap = 0]
    BY <1>3 DEF LoopAccepted
  <2>2. loop' \in LoopStates(setup.cues)
    <3> HIDE DEF sum
    <3>1. QED
      BY <2>1, <1>1, <1>2 DEF LoopStates
  <2>3. CaptureInv'
    BY <2>1, <1>1, <1>2 DEF LoopStates, CaptureInv, Ending, NoCueIsLost, SameCapture
  <2>4. QED
    BY <2>2, <2>3, <1>2
<1>4. CASE loop.pc = "finalGap"
  <2>1. loop' = [loop EXCEPT !.pc = "terminal", !.reported = sum, !.gap = 0]
    BY <1>4 DEF LoopAccepted
  <2>2. loop' \in LoopStates(setup.cues)
    <3> HIDE DEF sum
    <3>1. QED
      BY <2>1, <1>1, <1>2 DEF LoopStates
  <2>3. CaptureInv'
    BY <2>1, <1>1, <1>2, <1>4 DEF LoopStates, CaptureInv, Ending, NoCueIsLost, SameCapture
  <2>4. QED
    BY <2>2, <2>3, <1>2
<1>5. CASE loop.pc = "terminal"
  <2>1. loop' = [loop EXCEPT !.pc = "closed", !.runClosed = TRUE]
    BY <1>5 DEF LoopAccepted
  <2>2. loop' \in LoopStates(setup.cues)
    <3> HIDE DEF sum
    <3>1. QED
      BY <2>1, <1>1, <1>2 DEF LoopStates
  <2>3. CaptureInv'
    BY <2>1, <1>1, <1>2, <1>5 DEF LoopStates, CaptureInv, Ending, NoCueIsLost, SameCapture
  <2>4. QED
    BY <2>2, <2>3, <1>2
<1>6. CASE loop.pc = "idle"
  <2>1. loop' = loop
    BY <1>6 DEF LoopAccepted
  <2>2. QED
    BY <2>1, <1>1, <1>2, CaptureFrame
<1>7. QED
  BY <1>1, <1>3, <1>4, <1>5, <1>6 DEF LoopStates

\* What the type of the ingress says of its queue.
LEMMA QueueFacts ==
  ASSUME PipelineTypeInv
  PROVE  /\ ingress.outstanding \in Seq(Tracked) /\ Sized(ingress.outstanding)
         /\ Len(ingress.outstanding) \in Nat /\ ingress.committed \in Nat
         /\ DOMAIN ingress.outstanding = 1 .. Len(ingress.outstanding)
         /\ \A n \in 1 .. Len(ingress.outstanding) : ingress.outstanding[n] \in Tracked
         /\ writer.batch \in Seq(Batched) /\ Sized(writer.batch)
         /\ Len(writer.batch) \in Nat /\ writer.watermark \in Nat
         /\ DOMAIN writer.batch = 1 .. Len(writer.batch)
         /\ store.events \in Seq(Nat \ {0}) /\ Len(store.events) \in Nat
         /\ DOMAIN store.events = 1 .. Len(store.events)
<1>1. /\ ingress.outstanding \in Seq(Tracked) /\ ingress.committed \in Nat
      /\ writer.batch \in Seq(Batched) /\ writer.watermark \in Nat
      /\ store.events \in Seq(Nat \ {0})
  BY DEF PipelineTypeInv, IngressStates, WriterStates
<1>2. \A q \in Seq(Tracked) : Sized(q)
  <2> TAKE q \in Seq(Tracked)
  <2>1. Len(q) \in Nat /\ \A n \in 1 .. Len(q) : q[n] \in Tracked
    OBVIOUS
  <2>2. QED
    BY <2>1, BudgetAssumption DEF Sized, Tracked
<1>3. \A q \in Seq(Batched) : Sized(q)
  <2> TAKE q \in Seq(Batched)
  <2>1. Len(q) \in Nat /\ \A n \in 1 .. Len(q) : q[n] \in Batched
    OBVIOUS
  <2>2. QED
    BY <2>1, BudgetAssumption DEF Sized, Batched
<1>4. QED
  BY <1>1, <1>2, <1>3

\* The validator accepted the event: it is the next one of the log.
LEMMA CommitAdmissionStep ==
  ASSUME PipelineInv, CommitAdmission, UNCHANGED setup
  PROVE  PipelineInv'
<1>1. AdmissionInv /\ LogInv /\ CaptureInv /\ EndInv /\ PipelineTypeInv /\ ingress \in IngressStates
  BY DEF PipelineInv, AdmissionInv, PipelineTypeInv
<1> DEFINE q == ingress.outstanding
           bytes == hub.admission.bytes
           e == [sequence |-> hub.next, bytes |-> bytes, phase |-> "queued"]
<1>2. /\ ~ HubFree /\ ingress' = Accept(ingress, hub.next, bytes)
      /\ hub' = [next |-> hub.next + 1, admission |-> NoAdmission]
      /\ loop' = IF hub.admission.by = "loop" THEN LoopAccepted ELSE loop
      /\ UNCHANGED <<quota, writer, store, channel, failures, main>>
  BY DEF CommitAdmission
<1>3. /\ q \in Seq(Tracked) /\ Sized(q) /\ Len(q) \in Nat /\ ingress.committed \in Nat
      /\ DOMAIN q = 1 .. Len(q)
  BY <1>1, QueueFacts
<1>4. bytes \in Sizes /\ bytes \in Nat /\ hub.next \in Nat \ {0} /\ hub.next <= setup.last
  <2>1. hub.admission \in Admissions /\ hub.admission # NoAdmission /\ hub.next \in 1 .. MaxSequence + 1
    BY <1>1, <1>2 DEF PipelineTypeInv, HubFree
  <2>2. bytes \in Sizes
    BY <2>1 DEF Admissions
  <2>3. hub.next \in Nat \ {0} /\ hub.next <= setup.last
    BY <2>1, <1>1, <1>2, PipelineAssumption DEF AdmissionInv
  <2>4. QED
    BY <2>2, <2>3, BudgetAssumption
<1>5. hub.next = ingress.committed + Len(q) + 1
  BY <1>1 DEF LogInv, StoreAndQueueAreOneLog
<1>6. hub.next = NextExpected(ingress)
  <2>1. CASE q = << >>
    BY <2>1, <1>3, <1>5 DEF NextExpected
  <2>2. CASE q # << >>
    <3>1. Len(q) \in 1 .. Len(q)
      BY <2>2, <1>3
    <3>2. q[Len(q)].sequence = ingress.committed + Len(q)
      BY <3>1, <1>1, <1>3 DEF LogInv, StoreAndQueueAreOneLog
    <3>3. QED
      BY <3>2, <2>2, <1>3, <1>5 DEF NextExpected
  <2>3. QED
    BY <2>1, <2>2
<1>7. ingress.reservedEvents = 1 /\ ingress.reservedBytes = bytes
  BY <1>1, <1>2 DEF AdmissionInv
<1>8. /\ ingress' \in IngressStates
      /\ e \in Tracked /\ ingress'.outstanding = Append(q, e)
      /\ ingress'.outstandingBytes = ingress.outstandingBytes + bytes
      /\ ingress'.committed = ingress.committed
      /\ SameGate(ingress, ingress') /\ SameCapture(ingress, ingress')
      /\ ingress'.reservedEvents = 0 /\ ingress'.reservedBytes = 0
  BY <1>1, <1>2, <1>4, <1>6, <1>7, AcceptBooks
<1>9. /\ e.bytes = bytes /\ e.sequence = hub.next /\ e.phase = "queued"
      /\ Len(Append(q, e)) = Len(q) + 1 /\ Append(q, e)[Len(q) + 1] = e
      /\ DOMAIN Append(q, e) = 1 .. Len(q) + 1
      /\ \A n \in 1 .. Len(q) : Append(q, e)[n] = q[n]
  <2>1. e.bytes = bytes /\ e.sequence = hub.next /\ e.phase = "queued"
    OBVIOUS
  <2> HIDE DEF e, q
  <2>2. /\ Len(Append(q, e)) = Len(q) + 1 /\ Append(q, e)[Len(q) + 1] = e
        /\ Append(q, e) \in Seq(Tracked)
        /\ \A n \in 1 .. Len(q) : Append(q, e)[n] = q[n]
    BY <1>3, <1>8, AppendProperties
  <2>3. QED
    BY <2>1, <2>2
<1>10. TotalBytes(Append(q, e)) = TotalBytes(q) + bytes
  BY <1>3, <1>4, <1>8, <1>9, TotalOfAppend
<1> HIDE DEF e
<1>11. loop' \in LoopStates(setup.cues) /\ CaptureInv' /\ (loop.runClosed => loop'.runClosed)
  <2>1. CASE hub.admission.by = "loop"
    BY <2>1, <1>1, <1>2, <1>8, LoopAcceptedFacts DEF AdmissionInv
  <2>2. CASE hub.admission.by # "loop"
    <3>1. loop' = loop
      BY <2>2, <1>2
    <3>2. CaptureInv'
      BY <3>1, <1>1, <1>2, <1>8, CaptureFrame
    <3>3. QED
      BY <3>1, <3>2, <1>1 DEF PipelineTypeInv
  <2>3. QED
    BY <2>1, <2>2
<1>12. AdmissionInv'
  <2>1. /\ hub'.next = hub.next + 1 /\ HubFree' /\ hub'.admission.by = "nobody"
        /\ hub'.admission.bytes = 0
    BY <1>2 DEF HubFree, NoAdmission
  <2>2. setup.last \in 0 .. MaxSequence /\ MaxSequence \in Nat
    BY <1>1, PipelineAssumption DEF AdmissionInv
  <2>3. hub' \in [next : 1 .. MaxSequence + 1, admission : Admissions] /\ hub'.next <= setup.last + 1
    BY <2>2, <1>2, <1>4 DEF Admissions
  <2>4. PipelineTypeInv'
    BY <2>3, <1>1, <1>2, <1>8, <1>11 DEF PipelineTypeInv
  <2>5. PendingEvents(ingress)' <= MaxEvents /\ PendingBytes(ingress)' <= MaxBytes
    <3> DEFINE l == Len(q)
               o == ingress.outstandingBytes
    <3>1. l \in Nat /\ o \in Nat /\ bytes \in Nat
      BY <1>1, <1>3, <1>4 DEF IngressStates
    <3>2. PendingEvents(ingress) = 1 + l /\ PendingBytes(ingress) = bytes + o
      BY <1>7 DEF PendingEvents, PendingBytes
    <3>3. PendingEvents(ingress)' = 0 + (l + 1) /\ PendingBytes(ingress)' = 0 + (o + bytes)
      <4>1. Len(ingress'.outstanding) = l + 1
        BY <1>8, <1>9
      <4>2. QED
        BY <4>1, <1>8 DEF PendingEvents, PendingBytes
    <3>4. 0 + (l + 1) = 1 + l /\ 0 + (o + bytes) = bytes + o
      <4> HIDE DEF l, o, bytes
      <4>1. QED
        BY <3>1
    <3>5. QED
      BY <3>2, <3>3, <3>4, <1>1 DEF AdmissionInv
  <2>6. ingress'.outstandingBytes = TotalBytes(ingress'.outstanding) /\ ingress'.failure # "accounting"
    BY <1>1, <1>8, <1>10 DEF AdmissionInv, SameGate
  <2>7. QED
    BY <2>1, <2>3, <2>4, <2>5, <2>6, <1>1, <1>2, <1>8 DEF AdmissionInv
<1>13. LogInv'
  <2>1. InFlightAt(ingress'.outstanding) = InFlightAt(q)
    BY <1>3, <1>8, <1>9 DEF InFlightAt
  <2>2. \A n \in InFlightAt(q) : ingress'.outstanding[n] = q[n]
    BY <1>3, <1>8, <1>9 DEF InFlightAt
  <2>3. \A n \in DOMAIN ingress'.outstanding :
          ingress'.outstanding[n].sequence = ingress'.committed + n
    <3>1. \A n \in 1 .. Len(q) : q[n].sequence = ingress.committed + n
      BY <1>1, <1>3 DEF LogInv, StoreAndQueueAreOneLog
    <3>2. ASSUME NEW n \in 1 .. Len(q) + 1
          PROVE  Append(q, e)[n].sequence = ingress.committed + n
      <4>1. CASE n = Len(q) + 1
        BY <4>1, <1>3, <1>5, <1>9
      <4>2. CASE n # Len(q) + 1
        <5>1. n \in 1 .. Len(q)
          BY <4>2, <1>3
        <5>2. QED
          BY <5>1, <3>1, <1>9
      <4>3. QED
        BY <4>1, <4>2
    <3>3. QED
      BY <3>2, <1>8, <1>9
  <2>4. \E k \in 0 .. Len(ingress'.outstanding) : InFlightAt(ingress'.outstanding) = 1 .. k
    <3>1. PICK k \in 0 .. Len(q) : InFlightAt(q) = 1 .. k
      BY <1>1 DEF LogInv, StoreAndQueueAreOneLog
    <3>2. k \in 0 .. Len(ingress'.outstanding)
      BY <3>1, <1>3, <1>8, <1>9
    <3>3. QED
      BY <3>1, <3>2, <2>1
  <2>5. hub'.next = ingress'.committed + Len(ingress'.outstanding) + 1
    <3>1. hub'.next = hub.next + 1
      BY <1>2
    <3>2. Len(ingress'.outstanding) = Len(q) + 1
      BY <1>8, <1>9
    <3>3. ingress'.committed = ingress.committed
      BY <1>8
    <3> DEFINE l == Len(q)
               c == ingress.committed
    <3>4. l \in Nat /\ c \in Nat /\ hub'.next = c + l + 1 + 1
      BY <3>1, <1>3, <1>5
    <3>5. Len(ingress'.outstanding) = l + 1 /\ ingress'.committed = c
      BY <3>2, <3>3
    <3> HIDE DEF l, c
    <3>6. c + l + 1 + 1 = c + (l + 1) + 1
      BY <3>4
    <3>7. QED
      BY <3>4, <3>5, <3>6
  <2>6. StoreAndQueueAreOneLog'
    BY <2>1, <2>2, <2>3, <2>4, <2>5, <1>1, <1>2, <1>8
       DEF LogInv, StoreAndQueueAreOneLog, WriterExited
  <2>7. QED
    BY <2>6, <1>1, <1>2, <1>8 DEF LogInv, At, WriterExited
<1>14. EndInv'
  <2>1. ~ Quiet
    BY <1>2 DEF Quiet
  <2>2. QED
    BY <2>1, <1>1, <1>2, <1>8, <1>11, EndFrame DEF SameGate
<1>15. QED
  BY <1>11, <1>12, <1>13, <1>14 DEF PipelineInv

\* admission_started: the Cue is captured, suppressed, or the first after a gap.
LEMMA BeginCueStep ==
  ASSUME PipelineInv, BeginCue, UNCHANGED setup
  PROVE  PipelineInv'
<1>1. AdmissionInv /\ LogInv /\ CaptureInv /\ EndInv /\ PipelineTypeInv /\ ingress \in IngressStates
  BY DEF PipelineInv, AdmissionInv, PipelineTypeInv
<1>2. /\ loop.pc = "idle" /\ loop.begun < setup.cues /\ ingress' = BeginCueCapture(ingress)
      /\ UNCHANGED <<hub, quota, writer, store, channel, failures, main>>
  BY DEF BeginCue
<1>3. /\ ingress' \in IngressStates /\ SameQueue(ingress, ingress')
      /\ SameReserve(ingress, ingress') /\ SameGate(ingress, ingress')
  BY <1>1, <1>2, CaptureBooks
<1>4. /\ loop \in LoopStates(setup.cues) /\ setup.cues \in Nat /\ ~ loop.runClosed
      /\ ingress.suppressed \in Nat /\ ingress.paused \in BOOLEAN
      /\ ingress.sealed \in BOOLEAN /\ failures.producer \in BOOLEAN
  BY <1>1, <1>2, PipelineAssumption DEF AdmissionInv, PipelineTypeInv, IngressStates, CaptureInv
<1>5. loop' \in LoopStates(setup.cues) /\ loop'.pc # "closed" /\ CaptureInv'
  <2> DEFINE decision == CaptureDecision(ingress)
             begun == loop.begun + 1
             more == loop.suppressed + 1
  <2>5. /\ begun \in 0 .. setup.cues /\ more \in 0 .. setup.cues
        /\ ingress.suppressed \in 0 .. setup.cues
    BY <1>1, <1>2, <1>4 DEF CaptureInv, LoopStates
  <2>1. CASE decision = "suppress"
    <3>1. /\ loop' = [loop EXCEPT !.begun = begun, !.suppressed = more]
          /\ ingress' = [ingress EXCEPT !.paused = TRUE,
                                        !.suppressed = IF ingress.paused THEN @ + 1 ELSE 1]
      BY <2>1, <1>2, <1>4 DEF BeginCue, BeginCueCapture, LoopStates
    <3>2. ingress'.suppressed = ingress.suppressed + 1 /\ ingress'.paused
      BY <3>1, <1>1, <1>4 DEF CaptureInv, IngressStates
    <3>3. loop' \in LoopStates(setup.cues) /\ loop'.pc # "closed"
      <4> HIDE DEF begun, more
      <4>1. QED
        BY <2>5, <3>1, <1>2, <1>4 DEF LoopStates
    <3>4. CaptureInv'
      BY <3>1, <3>2, <1>1, <1>2, <1>4 DEF CaptureInv, LoopStates, Ending, NoCueIsLost
    <3>5. QED
      BY <3>3, <3>4
  <2>2. CASE decision = "capture"
    <3>1. loop' = [loop EXCEPT !.begun = begun, !.captured = TRUE]
      BY <2>2, <1>2, <1>4 DEF BeginCue, LoopStates
    <3>2. ingress' = ingress \/ (ingress.suppressed = 0 /\ ingress'.suppressed = 0)
      BY <2>2, <1>1, <1>2, <1>4 DEF BeginCueCapture, CaptureDecision, IngressStates
    <3>3. loop' \in LoopStates(setup.cues) /\ loop'.pc # "closed"
      <4> HIDE DEF begun, more
      <4>1. QED
        BY <2>5, <3>1, <1>2, <1>4 DEF LoopStates
    <3>4. ingress'.suppressed = ingress.suppressed /\ (~ ingress'.paused => ingress'.suppressed = 0)
      BY <3>2, <1>1 DEF CaptureInv
    <3>5. CaptureInv'
      BY <3>1, <3>4, <1>1, <1>2, <1>4 DEF CaptureInv, LoopStates, Ending, NoCueIsLost
    <3>6. QED
      BY <3>3, <3>5
  <2>3. CASE decision = "resume"
    <3>1. /\ loop' = [loop EXCEPT !.begun = begun, !.captured = TRUE, !.pc = "gap",
                                  !.gap = ingress.suppressed]
          /\ ingress' = [ingress EXCEPT !.paused = FALSE, !.suppressed = 0]
      BY <2>3, <1>1, <1>2, <1>4 DEF BeginCue, BeginCueCapture, CaptureDecision, LoopStates
    <3>2. ingress'.suppressed = 0
      BY <3>1, <1>1 DEF IngressStates
    <3>3. loop' \in LoopStates(setup.cues) /\ loop'.pc # "closed"
      <4> HIDE DEF begun, more
      <4>1. QED
        BY <2>5, <3>1, <1>2, <1>4 DEF LoopStates
    <3>4. CaptureInv'
      BY <3>1, <3>2, <1>1, <1>2, <1>4 DEF CaptureInv, LoopStates, Ending, NoCueIsLost
    <3>5. QED
      BY <3>3, <3>4
  <2>4. decision \in {"suppress", "capture", "resume"}
    BY <1>4 DEF CaptureDecision
  <2>6. QED
    BY <2>1, <2>2, <2>3, <2>4
<1>6. AdmissionInv'
  <2>1. PipelineTypeInv'
    BY <1>1, <1>2, <1>3, <1>5 DEF PipelineTypeInv
  <2>2. ingress'.failure # "accounting"
    BY <1>1, <1>3 DEF AdmissionInv, SameGate
  <2>3. QED
    BY <2>1, <2>2, <1>1, <1>2, <1>3, <1>5, AdmissionFrame
<1>7. LogInv'
  BY <1>1, <1>2, <1>3, LogFrame DEF LogInv, WriterExited, At
<1>8. EndInv'
  <2>1. Quiet => Quiet'
    BY <1>2, <1>3 DEF Quiet, HubFree, SameQueue, SameGate
  <2>2. QED
    BY <2>1, <1>1, <1>2, <1>3, <1>4, EndFrame DEF SameGate
<1>9. QED
  BY <1>5, <1>6, <1>7, <1>8 DEF PipelineInv

\* finish_run: the last gap and the end of the Run span are still to be emitted,
\* or a latched failure skips them.
LEMMA FinishRunStep ==
  ASSUME PipelineInv, FinishRun, UNCHANGED setup
  PROVE  PipelineInv'
<1>1. AdmissionInv /\ LogInv /\ CaptureInv /\ EndInv /\ PipelineTypeInv /\ ingress \in IngressStates
  BY DEF PipelineInv, AdmissionInv, PipelineTypeInv
<1>2. /\ loop.pc = "idle"
      /\ UNCHANGED <<hub, quota, writer, store, channel, failures, main>>
  BY DEF FinishRun
<1>3. /\ loop \in LoopStates(setup.cues) /\ setup.cues \in Nat /\ ~ loop.runClosed
      /\ ingress.suppressed \in Nat /\ failures.producer \in BOOLEAN
  BY <1>1, <1>2, PipelineAssumption DEF AdmissionInv, PipelineTypeInv, IngressStates, CaptureInv
<1>4. /\ ingress' \in IngressStates /\ SameQueue(ingress, ingress')
      /\ SameReserve(ingress, ingress') /\ SameGate(ingress, ingress')
      /\ loop' \in LoopStates(setup.cues) /\ CaptureInv'
      /\ (loop'.pc = "closed" => hub.admission.by # "loop")
  <2>1. CASE /\ failures.producer /\ hub.admission.by # "loop"
             /\ loop' = [loop EXCEPT !.pc = "closed"] /\ UNCHANGED ingress
    <3>1. loop' \in LoopStates(setup.cues)
      BY <2>1, <1>3 DEF LoopStates
    <3>2. CaptureInv'
      BY <2>1, <1>1, <1>2, <1>3 DEF CaptureInv, LoopStates, Ending, NoCueIsLost
    <3>3. QED
      BY <3>1, <3>2, <2>1, <1>1 DEF SameQueue, SameReserve, SameGate
  <2>2. CASE /\ ~ failures.producer /\ HubFree /\ ingress' = FinishCueCapture(ingress)
             /\ loop' = [loop EXCEPT !.pc = IF ingress.suppressed > 0 THEN "finalGap" ELSE "terminal",
                                     !.gap = ingress.suppressed]
    <3>1. /\ ingress' \in IngressStates /\ SameQueue(ingress, ingress')
          /\ SameReserve(ingress, ingress') /\ SameGate(ingress, ingress')
          /\ ingress'.suppressed = 0
      BY <2>2, <1>1, CaptureBooks
    <3>2. loop' \in LoopStates(setup.cues) /\ loop'.pc # "closed"
      <4>1. ingress.suppressed \in 0 .. setup.cues
        BY <1>1, <1>3 DEF CaptureInv, LoopStates
      <4>2. QED
        BY <4>1, <2>2, <1>2, <1>3 DEF LoopStates
    <3>3. CaptureInv'
      BY <3>1, <2>2, <1>1, <1>2, <1>3 DEF CaptureInv, LoopStates, Ending, NoCueIsLost
    <3>4. QED
      BY <3>1, <3>2, <3>3
  <2>3. QED
    BY <2>1, <2>2 DEF FinishRun
<1>5. AdmissionInv'
  <2>1. PipelineTypeInv'
    BY <1>1, <1>2, <1>4 DEF PipelineTypeInv
  <2>2. ingress'.failure # "accounting"
    BY <1>1, <1>4 DEF AdmissionInv, SameGate
  <2>3. QED
    BY <2>1, <2>2, <1>1, <1>2, <1>4, AdmissionFrame
<1>6. LogInv'
  BY <1>1, <1>2, <1>4, LogFrame DEF LogInv, WriterExited, At
<1>7. EndInv'
  <2>1. Quiet => Quiet'
    BY <1>2, <1>4 DEF Quiet, HubFree, SameQueue, SameGate
  <2>2. QED
    BY <2>1, <1>1, <1>2, <1>3, <1>4, EndFrame DEF SameGate
<1>8. QED
  BY <1>4, <1>5, <1>6, <1>7 DEF PipelineInv

\* A step of a producer keeps the invariant.
LEMMA ProducerStepKeepsInv ==
  ASSUME PipelineInv, ProducerStep
  PROVE  PipelineInv'
<1>1. CASE AdmitOther
  BY <1>1, BeginAdmissionStep DEF AdmitOther, ProducerStep
<1>2. CASE AdmitCueEvent
  BY <1>2, BeginAdmissionStep DEF AdmitCueEvent, ProducerStep
<1>3. CASE AdmitLoopEvent
  BY <1>3, BeginAdmissionStep DEF AdmitLoopEvent, ProducerStep
<1>4. QED
  BY <1>1, <1>2, <1>3, CommitAdmissionStep, RejectAdmissionStep, BeginCueStep, FinishRunStep
     DEF ProducerStep
=============================================================================
