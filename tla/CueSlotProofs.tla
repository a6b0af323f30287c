--------------------------- MODULE CueSlotProofs ---------------------------
(***************************************************************************)
(* The slot of an Actor: SlotInv is inductive, so an Actor runs one Cue at *)
(* a time and starts its Cues in the order they entered its mailbox.       *)
(***************************************************************************)
EXTENDS CueOrchestrationProofs

\* Mailbox::enqueue and claim_next_if_idle on a mailbox whose slot is free only when
\* nothing waits.
LEMMA EnqueueFacts ==
  ASSUME NEW m \in Mailboxes, NEW c \in Cues, m.running = None => m.queue = <<>>
  PROVE  LET e == Enqueue(m, c)
         IN  /\ e.alive = m.alive
             /\ m.running = None => e.running = c /\ e.queue = <<>>
             /\ m.running # None => e.running = m.running /\ e.queue = Append(m.queue, c)
<1>1. CASE m.running = None
  <2>1. m.queue \in Seq(Cues) /\ Len(m.queue) = 0
    BY <1>1 DEF Mailboxes
  <2>2. Head(Append(m.queue, c)) = c
    BY <2>1
  <2>3. Tail(Append(m.queue, c)) = <<>>
    <3>1. Tail(Append(m.queue, c)) \in Seq(Cues) /\ Len(Tail(Append(m.queue, c))) = 0
      BY <2>1
    <3>2. \A t \in Seq(Cues) : Len(t) = 0 => t = <<>>
      OBVIOUS
    <3>3. QED
      BY <3>1, <3>2
  <2>4. Enqueue(m, c) = [m EXCEPT !.queue = <<>>, !.running = c]
    BY Zenon, <1>1, <2>2, <2>3 DEF Enqueue
  <2>5. QED
    BY <1>1, <2>4, OrchestrationAssumption DEF Mailboxes
<1>2. CASE m.running # None
  BY <1>2 DEF Enqueue, Mailboxes
<1>3. QED
  BY <1>1, <1>2

\* Mailbox::terminal_transition, case by case.
LEMMA UnlinkFacts ==
  ASSUME NEW m \in Mailboxes, NEW c \in Cues
  PROVE  LET u == Unlink(m, c)
         IN  /\ u.alive = m.alive
             /\ Queued(m, c) => /\ u.running = m.running
                                /\ u.queue = Without(m.queue, Position(m.queue, c))
                                /\ NextOf(m, c) = None
             /\ ~Queued(m, c) /\ m.running = c /\ m.queue = <<>> =>
                  u.running = None /\ u.queue = <<>> /\ NextOf(m, c) = None
             /\ ~Queued(m, c) /\ m.running = c /\ m.queue # <<>> =>
                  u.running = Head(m.queue) /\ u.queue = Tail(m.queue)
                  /\ NextOf(m, c) = Head(m.queue)
             /\ ~Queued(m, c) /\ m.running # c => u = m /\ NextOf(m, c) = None
<1>1. CASE Queued(m, c)
  BY <1>1 DEF Unlink, NextOf, Mailboxes
<1>2. CASE ~Queued(m, c) /\ m.running = c /\ m.queue = <<>>
  BY <1>2 DEF Unlink, NextOf, Mailboxes
<1>3. CASE ~Queued(m, c) /\ m.running = c /\ m.queue # <<>>
  BY Zenon, <1>3 DEF Unlink, NextOf, Mailboxes
<1>4. CASE ~Queued(m, c) /\ m.running # c
  BY <1>4 DEF Unlink, NextOf, Mailboxes
<1>5. QED
  BY <1>1, <1>2, <1>3, <1>4

\* What the terminal transition leaves of an ordered mailbox: the operation is out of
\* it, the others keep their order, and the next one moves into the slot.
LEMMA UnlinkOrder ==
  ASSUME TypeInv, MailboxesAreOrdered, NEW c \in Cues
  PROVE  LET m == mailbox[Target[c]]
             u == Unlink(m, c)
             next == NextOf(m, c)
         IN  /\ u \in Mailboxes /\ u.alive = m.alive
             /\ u.running = None => u.queue = <<>>
             /\ u.running = c => Queued(m, c)
             /\ next = None => u.running = m.running \/ u.running = None
             /\ next # None => /\ u.running = next /\ m.running = c /\ m.alive
                               /\ \E k \in 1..Len(m.queue) : next = m.queue[k]
             /\ \A i \in 1..Len(u.queue) :
                  /\ u.queue[i] # c
                  /\ \E k \in 1..Len(m.queue) : u.queue[i] = m.queue[k]
                  /\ ticket[u.running] < ticket[u.queue[i]]
                  /\ \A j \in 1..Len(u.queue) : i < j => ticket[u.queue[i]] < ticket[u.queue[j]]
             /\ \A d \in Cues : d # c /\ Queued(m, d) => Queued(u, d) \/ d = next
             /\ \A d \in Cues : d # c /\ m.running = d => u.running = d
<1> DEFINE a == Target[c]
           m == mailbox[a]
           u == Unlink(m, c)
           next == NextOf(m, c)
<1>1. a \in Actors /\ m \in Mailboxes
  BY OrchestrationAssumption DEF TypeInv
<1>2. /\ m.queue \in Seq(Cues)
      /\ m.running = None => m.queue = <<>>
      /\ m.running # None => m.alive
      /\ \A i \in 1..Len(m.queue) :
           /\ m.queue[i] \in Cues
           /\ ticket[m.running] < ticket[m.queue[i]]
           /\ \A j \in 1..Len(m.queue) : i < j => ticket[m.queue[i]] < ticket[m.queue[j]]
  BY <1>1 DEF MailboxesAreOrdered, Mailboxes
<1>3. /\ None \notin Cues
      /\ \A d \in Cues : ticket[d] \in Nat
  BY OrchestrationAssumption DEF TypeInv
<1>4. u \in Mailboxes /\ u.alive = m.alive
  BY <1>1, MailboxTypes, UnlinkFacts
<1> HIDE DEF m
<1>5. CASE Queued(m, c)
  <2> DEFINE k == Position(m.queue, c)
  <2>1. k \in 1..Len(m.queue) /\ m.queue[k] = c
    BY <1>5 DEF Queued, Position
  <2>2. u.running = m.running /\ u.queue = Without(m.queue, k) /\ next = None
    BY <1>1, <1>5, UnlinkFacts
  <2> HIDE DEF k, u, next
  <2>3. /\ Len(u.queue) = Len(m.queue) - 1
        /\ \A i \in 1..(Len(m.queue) - 1) :
             u.queue[i] = IF i < k THEN m.queue[i] ELSE m.queue[i + 1]
    <3>0. m.queue \in Seq(Cues) /\ k \in 1..Len(m.queue)
      BY <1>2, <2>1
    <3>1. /\ Len(Without(m.queue, k)) = Len(m.queue) - 1
          /\ \A i \in 1..(Len(m.queue) - 1) :
               Without(m.queue, k)[i] = IF i < k THEN m.queue[i] ELSE m.queue[i + 1]
      BY ONLY <3>0, WithoutFacts, Zenon
    <3>2. QED
      BY <2>2, <3>1
  <2>4. m.running # None
    <3>1. Len(m.queue) # 0
      BY <1>2, <2>1
    <3>2. QED
      BY <1>2, <3>1
  <2>5. ASSUME NEW i \in 1..Len(u.queue)
        PROVE  /\ u.queue[i] # c
               /\ \E l \in 1..Len(m.queue) : u.queue[i] = m.queue[l]
               /\ ticket[u.running] < ticket[u.queue[i]]
               /\ \A j \in 1..Len(u.queue) : i < j => ticket[u.queue[i]] < ticket[u.queue[j]]
    <3>1. PICK l \in 1..Len(m.queue) : l # k /\ u.queue[i] = m.queue[l] /\ l = IF i < k THEN i ELSE i + 1
      BY <1>2, <2>1, <2>3
    <3>2. m.queue[l] # c
      BY <1>2, <1>3, <2>1, <3>1
    <3>3. ASSUME NEW j \in 1..Len(u.queue), i < j
          PROVE  ticket[u.queue[i]] < ticket[u.queue[j]]
      <4>1. PICK n \in 1..Len(m.queue) : u.queue[j] = m.queue[n] /\ n = IF j < k THEN j ELSE j + 1
        BY <1>2, <2>1, <2>3
      <4>2. l < n
        BY <2>1, <3>1, <3>3, <4>1, <1>2
      <4>3. QED
        BY <1>2, <3>1, <4>1, <4>2
    <3>4. QED
      BY <1>2, <2>2, <3>1, <3>2, <3>3
  <2>6. ASSUME NEW d \in Cues, d # c, Queued(m, d) PROVE Queued(u, d)
    <3>1. PICK l \in 1..Len(m.queue) : m.queue[l] = d
      BY <2>6 DEF Queued
    <3>2. l # k
      BY <2>1, <2>6, <3>1
    <3>3. \E i \in 1..Len(u.queue) : u.queue[i] = d
      <4>1. CASE l < k
        BY <1>2, <2>1, <2>3, <3>1, <4>1
      <4>2. CASE k < l
        <5>1. l - 1 \in 1..Len(u.queue) /\ u.queue[l - 1] = d
          BY <1>2, <2>1, <2>3, <3>1, <4>2
        <5>2. QED
          BY <5>1
      <4>3. QED
        BY <1>2, <2>1, <3>2, <4>1, <4>2
    <3>4. QED
      BY <3>3 DEF Queued
  <2>7. QED
    BY Zenon, <1>3, <1>4, <1>5, <2>2, <2>4, <2>5, <2>6 DEF u, next, m
<1>6. CASE ~Queued(m, c) /\ m.running = c /\ m.queue # <<>>
  <2>1. u.running = Head(m.queue) /\ u.queue = Tail(m.queue) /\ next = Head(m.queue)
    BY <1>1, <1>6, UnlinkFacts
  <2> HIDE DEF u, next
  <2>2. /\ Len(m.queue) >= 1 /\ Head(m.queue) = m.queue[1] /\ m.queue[1] \in Cues
        /\ Len(u.queue) = Len(m.queue) - 1
        /\ \A i \in 1..(Len(m.queue) - 1) : u.queue[i] = m.queue[i + 1]
    BY <1>2, <1>6, <2>1
  <2>3. \A i \in 1..Len(m.queue) : m.queue[i] # c
    BY <1>6 DEF Queued
  <2>4. ASSUME NEW i \in 1..Len(u.queue)
        PROVE  /\ u.queue[i] # c
               /\ \E l \in 1..Len(m.queue) : u.queue[i] = m.queue[l]
               /\ ticket[u.running] < ticket[u.queue[i]]
               /\ \A j \in 1..Len(u.queue) : i < j => ticket[u.queue[i]] < ticket[u.queue[j]]
    <3>1. i + 1 \in 1..Len(m.queue) /\ u.queue[i] = m.queue[i + 1] /\ 1 < i + 1
      BY <1>2, <2>2
    <3>2. ticket[u.running] < ticket[u.queue[i]]
      BY <1>2, <2>1, <2>2, <3>1
    <3>3. ASSUME NEW j \in 1..Len(u.queue), i < j PROVE ticket[u.queue[i]] < ticket[u.queue[j]]
      <4>1. j + 1 \in 1..Len(m.queue) /\ u.queue[j] = m.queue[j + 1] /\ i + 1 < j + 1
        BY <1>2, <2>2, <3>3
      <4>2. QED
        BY <1>2, <3>1, <4>1
    <3>4. QED
      BY <2>3, <3>1, <3>2, <3>3
  <2>5. ASSUME NEW d \in Cues, Queued(m, d) PROVE Queued(u, d) \/ d = next
    <3>1. PICK l \in 1..Len(m.queue) : m.queue[l] = d
      BY <2>5 DEF Queued
    <3>2. CASE l = 1
      BY <2>1, <2>2, <3>1, <3>2
    <3>3. CASE l # 1
      <4>1. l - 1 \in 1..Len(u.queue) /\ u.queue[l - 1] = d
        BY SMTT(30), <1>2, <2>2, <3>1, <3>3
      <4>2. QED
        BY <4>1 DEF Queued
    <3>4. QED
      BY <3>2, <3>3
  <2>6. u.running # None /\ u.running # c /\ next # None /\ m.alive /\ 1 \in 1..Len(m.queue)
    BY <1>2, <1>3, <1>6, <2>1, <2>2, <2>3
  <2>7. QED
    BY Zenon, <1>4, <1>6, <2>1, <2>2, <2>4, <2>5, <2>6 DEF u, next, m
<1>7. CASE ~Queued(m, c) /\ m.running = c /\ m.queue = <<>>
  <2>1. u.running = None /\ u.queue = <<>> /\ next = None
    BY SMTT(30), <1>1, <1>7, UnlinkFacts
  <2>2. \A d \in Cues : ~Queued(m, d)
    BY SMTT(30), <1>7 DEF Queued
  <2> HIDE DEF u, next
  <2>3. QED
    BY <1>3, <1>4, <1>7, <2>1, <2>2 DEF u, next, m
<1>8. CASE ~Queued(m, c) /\ m.running # c
  <2>1. u = m /\ next = None
    BY <1>1, <1>8, UnlinkFacts
  <2>2. \A i \in 1..Len(m.queue) : m.queue[i] # c
    BY <1>8 DEF Queued
  <2> HIDE DEF u, next
  <2>3. QED
    BY <1>2, <1>4, <1>8, <2>1, <2>2 DEF u, next, m
<1>9. QED
  BY Zenon, <1>5, <1>6, <1>7, <1>8

\* CueOperation::complete_terminal_action keeps SlotInv: it ends a live operation and
\* hands its slot to the next, or takes it out of the queue.
LEMMA RetireKeepsSlots ==
  ASSUME TypeInv, SlotInv, NEW c \in Cues,
         Live(c), task[c] # "pending", claimed \in {None, c},
         cancelling = {} \/ (op[c].phase = "queued" /\ claimed = None),
         cancelling' \subseteq cancelling,
         Retire(c),
         op'[c].phase = "terminal", \A d \in Cues : d # c => op'[d] = op[d],
         \A d \in Cues : call'[d] = call[d] \/ (Suspended(d) /\ call'[d].phase \notin {"none", "created", "admitting"}),
         UNCHANGED <<task, ticket, arrivals>>
  PROVE  SlotInv'
<1> DEFINE a == Target[c]
           m == mailbox[a]
           u == Unlink(m, c)
           next == NextOf(m, c)
<1>1. /\ None \notin Cues
      /\ \A d \in Cues : Target[d] \in Actors
  BY SMTT(30), OrchestrationAssumption
<1>2. /\ mailbox' = [mailbox EXCEPT ![a] = u]
      /\ claimed' = next
      /\ mailbox'[a] = u
      /\ \A b \in Actors : b # a => mailbox'[b] = mailbox[b]
  BY SMTT(30), <1>1 DEF Retire, TypeInv
<1>3. /\ u \in Mailboxes /\ u.alive = m.alive
      /\ u.running = None => u.queue = <<>>
      /\ u.running = c => Queued(m, c)
      /\ next = None => u.running = m.running \/ u.running = None
      /\ next # None => /\ u.running = next /\ m.running = c /\ m.alive
                        /\ \E k \in 1..Len(m.queue) : next = m.queue[k]
      /\ \A i \in 1..Len(u.queue) :
           /\ u.queue[i] # c
           /\ \E k \in 1..Len(m.queue) : u.queue[i] = m.queue[k]
           /\ ticket[u.running] < ticket[u.queue[i]]
           /\ \A j \in 1..Len(u.queue) : i < j => ticket[u.queue[i]] < ticket[u.queue[j]]
      /\ \A d \in Cues : d # c /\ Queued(m, d) => Queued(u, d) \/ d = next
      /\ \A d \in Cues : d # c /\ m.running = d => u.running = d
  BY ZenonT(30), UnlinkOrder DEF SlotInv
<1>4. /\ \A i \in 1..Len(m.queue) :
           /\ m.queue[i] \in Cues /\ Target[m.queue[i]] = a /\ op[m.queue[i]].phase = "queued"
           /\ ticket[m.running] < ticket[m.queue[i]]
      /\ m.running # None => /\ m.alive /\ m.running \in Cues /\ Target[m.running] = a
                             /\ op[m.running].phase \in {"running", "cancelling"} \/ m.running = claimed
      /\ m.running = None => m.queue = <<>>
  <2>1. m \in Mailboxes /\ a \in Actors
    BY <1>1 DEF TypeInv
  <2>2. /\ \A i \in 1..Len(m.queue) : m.queue[i] \in Cues
        /\ m.running # None => m.running \in Cues
    BY <2>1 DEF Mailboxes
  <2>3. QED
    BY <1>1, <2>1, <2>2 DEF SlotInv, MailboxesAreOrdered
<1>5. u.running # c
  <2> SUFFICES ASSUME u.running = c PROVE FALSE
    BY SMTT(30)
  <2>1. PICK k \in 1..Len(m.queue) : m.queue[k] = c
    BY SMTT(30), <1>3 DEF Queued
  <2>2. m.running = c
    BY SMTT(30), <1>1, <1>3, <2>1
  <2>3. ticket[c] < ticket[c] /\ ticket[c] \in Nat
    BY <1>4, <2>1, <2>2 DEF TypeInv
  <2>4. QED
    BY SMTT(30), <2>3
<1> HIDE DEF m, u, next
<1>6. ClaimHoldsSlot'
  <2> SUFFICES ASSUME next # None
               PROVE  op'[next].phase = "queued" /\ mailbox'[Target[next]].running = next /\ cancelling' = {}
    BY <1>2 DEF ClaimHoldsSlot
  <2>1. next \in Cues /\ Target[next] = a /\ op[next].phase = "queued" /\ next # c
    BY <1>3, <1>4, <1>5
  <2>2. cancelling = {}
    <3>1. op[c].phase = "queued" /\ claimed = None => FALSE
      BY SMTT(30), <1>1, <1>3, <1>4
    <3>2. QED
      BY SMTT(30), <3>1
  <2>3. QED
    BY SMTT(30), <1>2, <1>3, <2>1, <2>2
<1>7. MailboxesAreOrdered'
  <2> SUFFICES ASSUME NEW b \in Actors
               PROVE  /\ mailbox'[b].running = None => mailbox'[b].queue = <<>>
                      /\ mailbox'[b].running # None =>
                           /\ mailbox'[b].alive
                           /\ Target[mailbox'[b].running] = b
                           /\ \/ op'[mailbox'[b].running].phase \in {"running", "cancelling"}
                              \/ mailbox'[b].running = claimed'
                      /\ \A i \in 1..Len(mailbox'[b].queue) :
                           /\ Target[mailbox'[b].queue[i]] = b
                           /\ op'[mailbox'[b].queue[i]].phase = "queued"
                           /\ ticket[mailbox'[b].running] < ticket[mailbox'[b].queue[i]]
                           /\ \A j \in 1..Len(mailbox'[b].queue) :
                                i < j => ticket[mailbox'[b].queue[i]] < ticket[mailbox'[b].queue[j]]
    BY SMTT(30) DEF MailboxesAreOrdered
  <2>1. CASE b # a
    <3>1. mailbox'[b] = mailbox[b]
      BY <1>2, <2>1
    <3>2. /\ mailbox[b].running # None =>
               mailbox[b].running \in Cues /\ mailbox[b].running # c /\ mailbox[b].running # claimed
          /\ \A i \in 1..Len(mailbox[b].queue) : mailbox[b].queue[i] \in Cues /\ mailbox[b].queue[i] # c
      BY SMTT(30), <1>1, <2>1 DEF SlotInv, MailboxesAreOrdered, TypeInv, Mailboxes
    <3>3. QED
      BY <3>1, <3>2 DEF SlotInv, MailboxesAreOrdered
  <2>2. CASE b = a
    <3>1. u.running # None =>
            /\ u.alive
            /\ Target[u.running] = a
            /\ op'[u.running].phase \in {"running", "cancelling"} \/ u.running = claimed'
      <4>1. CASE next = None
        BY SMTT(30), <1>1, <1>3, <1>4, <1>5, <4>1
      <4>2. CASE next # None
        BY SMTT(30), <1>2, <1>3, <1>4, <4>2
      <4>3. QED
        BY SMTT(30), <4>1, <4>2
    <3>2. \A i \in 1..Len(u.queue) : Target[u.queue[i]] = a /\ op'[u.queue[i]].phase = "queued"
      BY SMTT(30), <1>3, <1>4
    <3>3. QED
      BY <1>2, <1>3, <2>2, <3>1, <3>2
  <2>3. QED
    BY <2>1, <2>2
<1>8. CuesAreAccounted'
  <2> SUFFICES ASSUME NEW d \in Cues
               PROVE  /\ call'[d].phase \notin {"none", "done"} => mailbox'[Target[d]].alive
                      /\ call'[d].phase \in {"none", "created", "admitting"} => op'[d].phase = "none"
                      /\ op'[d].phase \in {"none", "queued"} => task[d] = "none"
                      /\ task[d] = "pending" => op'[d].phase \in {"running", "cancelling"}
                      /\ ticket[d] <= arrivals[Target[d]]
                      /\ op'[d].phase = "none" => ticket[d] = 0
                      /\ mailbox'[Target[d]].alive =>
                           /\ op'[d].phase \in {"running", "cancelling"} => mailbox'[Target[d]].running = d
                           /\ op'[d].phase = "queued" /\ ticket[d] > 0
                              => d = claimed' \/ Queued(mailbox'[Target[d]], d)
    BY SMTT(30) DEF CuesAreAccounted
  <2>1. /\ mailbox'[Target[d]].alive = mailbox[Target[d]].alive
        /\ call'[d].phase \notin {"none", "done"} => call[d].phase \notin {"none", "done"}
        /\ call'[d].phase \in {"none", "created", "admitting"} => call[d] = call'[d]
    BY SMTT(30), <1>1, <1>2, <1>3 DEF m, Suspended
  <2>2. CASE d = c
    BY SMTT(30), <2>1, <2>2 DEF SlotInv, CuesAreAccounted, Live
  <2>3. CASE d # c /\ Target[d] # a
    BY <1>1, <1>2, <2>1, <2>3 DEF SlotInv, CuesAreAccounted, ClaimHoldsSlot
  <2>4. CASE d # c /\ Target[d] = a
    <3>1. /\ op'[d] = op[d] /\ mailbox'[Target[d]] = u /\ mailbox[Target[d]] = m
          /\ claimed' = next /\ d # claimed
      BY SMTT(30), <1>1, <1>2, <2>4 DEF m
    <3>2. m.alive => /\ op[d].phase \in {"running", "cancelling"} => u.running = d
                     /\ op[d].phase = "queued" /\ ticket[d] > 0 => d = next \/ Queued(u, d)
      BY <1>3, <2>4, <3>1 DEF SlotInv, CuesAreAccounted
    <3>3. QED
      BY SMTT(30), <2>1, <3>1, <3>2 DEF SlotInv, CuesAreAccounted
  <2>5. QED
    BY ZenonT(30), <2>2, <2>3, <2>4
<1>9. OneOperationStarted' /\ StartedInOrder'
  BY SMTT(30) DEF SlotInv, OneOperationStarted, StartedInOrder, Live
<1>10. QED
  BY <1>6, <1>7, <1>8, <1>9 DEF SlotInv

\* The calls of a step that touches no slot: they keep their phase, finish, start or
\* record a cancellation.
QuietCalls ==
  \A d \in Cues :
    \/ call'[d].phase = call[d].phase
    \/ call'[d].phase = "done"
    \/ /\ call'[d].phase \in {"created", "admitting"} /\ call[d].phase \in {"none", "created"}
       /\ mailbox[Target[d]].alive
    \/ call'[d].phase = "cancelling" /\ Suspended(d)

\* A step that leaves every mailbox alone keeps SlotInv when it changes the phase of an
\* operation at most from running to cancelling.
LEMMA QuietKeepsSlots ==
  ASSUME TypeInv, SlotInv, QuietCalls,
         \A d \in Cues : \/ op'[d].phase = op[d].phase
                         \/ op[d].phase = "running" /\ op'[d].phase = "cancelling",
         UNCHANGED <<mailbox, claimed, ticket, arrivals>>,
         \A d \in Cues : \/ task'[d] = task[d]
                         \/ task[d] = "pending" /\ task'[d] # "pending" /\ task'[d] # "none",
         claimed # None => cancelling' = {}
  PROVE  SlotInv'
<1>0. /\ \A d \in Cues : Target[d] \in Actors
      /\ None \notin Cues
      /\ claimed # None => claimed \in Cues
  BY OrchestrationAssumption DEF TypeInv
<1>1. ClaimHoldsSlot'
  BY SMTT(30), <1>0 DEF SlotInv, ClaimHoldsSlot
<1>2. MailboxesAreOrdered'
  <2>1. \A a \in Actors : /\ mailbox[a].running # None => mailbox[a].running \in Cues
                          /\ \A i \in 1..Len(mailbox[a].queue) : mailbox[a].queue[i] \in Cues
    BY DEF TypeInv, Mailboxes
  <2>2. QED
    BY <2>1 DEF SlotInv, MailboxesAreOrdered
<1>3. CuesAreAccounted'
  <2> SUFFICES ASSUME NEW d \in Cues
               PROVE  /\ call'[d].phase \notin {"none", "done"} => mailbox[Target[d]].alive
                      /\ call'[d].phase \in {"none", "created", "admitting"} => op'[d].phase = "none"
                      /\ op'[d].phase \in {"none", "queued"} => task'[d] = "none"
                      /\ task'[d] = "pending" => op'[d].phase \in {"running", "cancelling"}
                      /\ ticket[d] <= arrivals[Target[d]]
                      /\ op'[d].phase = "none" => ticket[d] = 0
                      /\ mailbox[Target[d]].alive =>
                           /\ op'[d].phase \in {"running", "cancelling"} => mailbox[Target[d]].running = d
                           /\ op'[d].phase = "queued" /\ ticket[d] > 0
                              => d = claimed \/ Queued(mailbox[Target[d]], d)
    BY DEF CuesAreAccounted
  <2>1. /\ call'[d].phase \notin {"none", "done"}
           => call[d].phase \notin {"none", "done"} \/ mailbox[Target[d]].alive
        /\ call'[d].phase \in {"none", "created", "admitting"}
           => call[d].phase \in {"none", "created", "admitting"}
    BY DEF QuietCalls, Suspended
  <2>2. QED
    BY SMTT(30), <2>1 DEF SlotInv, CuesAreAccounted
<1>4. OneOperationStarted'
  BY DEF SlotInv, OneOperationStarted
<1>5. StartedInOrder'
  BY DEF SlotInv, StartedInOrder, CuesAreAccounted
<1>6. QED
  BY <1>1, <1>2, <1>3, <1>4, <1>5 DEF SlotInv

\* request_cancel of an operation that is not queued touches the operation only, and
\* changes its phase at most from running to cancelling.
LEMMA CancelPhases ==
  ASSUME TypeInv, NEW c \in Cues, RequestCancel(c), op[c].phase # "queued"
  PROVE  /\ UNCHANGED <<scene, cued, signal, mailbox, claimed, owed>>
         /\ \A d \in Cues : \/ op'[d].phase = op[d].phase
                            \/ op[d].phase = "running" /\ op'[d].phase = "cancelling"
<1>1. CASE op[c].phase = "running"
  <2>1. PICK failed \in BOOLEAN :
          op' = [op EXCEPT ![c] = [@ EXCEPT !.phase = "cancelling", !.intent = "requested",
                                            !.dispatchError = failed]]
    BY Zenon, <1>1 DEF RequestCancel
  <2>2. op[c] \in OperationStates
    BY DEF TypeInv
  <2>3. [op[c] EXCEPT !.phase = "cancelling", !.intent = "requested",
                      !.dispatchError = failed].phase = "cancelling"
    BY <2>2 DEF OperationStates
  <2>4. op'[c].phase = "cancelling" /\ \A d \in Cues : d # c => op'[d] = op[d]
    BY <2>1, <2>3 DEF TypeInv
  <2>5. QED
    BY ZenonT(30), <1>1, <2>4 DEF RequestCancel
<1>2. CASE op[c].phase # "running"
  BY Zenon, <1>2 DEF RequestCancel
<1>3. QED
  BY <1>1, <1>2

\* request_cancel, whoever calls it, keeps SlotInv.
LEMMA RequestCancelKeepsSlots ==
  ASSUME TypeInv, SlotInv, NEW c \in Cues, RequestCancel(c), claimed = None,
         cancelling' \subseteq cancelling, UNCHANGED <<task, ticket, arrivals>>,
         \A d \in Cues : \/ call'[d] = call[d]
                         \/ Suspended(d) /\ call'[d].phase \in {"cancelling", "done"}
                         \/ d = c /\ op[c].phase # "queued" /\ call'[d].phase = "done"
  PROVE  SlotInv'
<1>1. CASE op[c].phase = "queued"
  <2>1. /\ op' = [op EXCEPT ![c] = Terminated("cancelled")] /\ Retire(c)
        /\ op'[c].phase = "terminal" /\ \A d \in Cues : d # c => op'[d] = op[d]
    BY <1>1 DEF RequestCancel, TypeInv, Terminated
  <2>2. task[c] # "pending" /\ Live(c)
    BY <1>1 DEF SlotInv, CuesAreAccounted, Live
  <2>3. \A d \in Cues : call'[d] = call[d]
          \/ (Suspended(d) /\ call'[d].phase \notin {"none", "created", "admitting"})
    BY <1>1
  <2>4. QED
    BY <1>1, <2>1, <2>2, <2>3, RetireKeepsSlots
<1>2. CASE op[c].phase # "queued"
  <2>1. /\ UNCHANGED mailbox /\ claimed' = claimed
        /\ \A d \in Cues : \/ op'[d].phase = op[d].phase
                           \/ op[d].phase = "running" /\ op'[d].phase = "cancelling"
    BY <1>2, CancelPhases
  <2>2. QuietCalls
    BY DEF QuietCalls
  <2>3. /\ UNCHANGED <<mailbox, claimed, ticket, arrivals>>
        /\ \A d \in Cues : \/ task'[d] = task[d]
                           \/ task[d] = "pending" /\ task'[d] # "pending" /\ task'[d] # "none"
        /\ claimed # None => cancelling' = {}
    BY <2>1
  <2>4. QED
    BY Zenon, <2>1, <2>2, <2>3, QuietKeepsSlots
<1>3. QED
  BY <1>1, <1>2

\* CueOperation::dispatch of the claimed operation keeps SlotInv: the claim is the proof
\* that nothing else of the Actor is running and nothing older is waiting.
LEMMA DispatchKeepsSlots ==
  ASSUME TypeInv, SlotInv, DispatchScheduled
  PROVE  SlotInv'
<1> DEFINE c == claimed
           a == Target[c]
<1>0. /\ None \notin Cues
      /\ \A d \in Cues : Target[d] \in Actors
      /\ c \in Cues
  BY Zenon, OrchestrationAssumption DEF DispatchScheduled, TypeInv
<1>1. /\ op'[c].phase \in {"running", "cancelling"}
      /\ \A d \in Cues : d # c => op'[d] = op[d] /\ task'[d] = task[d]
      /\ task'[c] = "pending"
      /\ claimed' = None
      /\ UNCHANGED <<mailbox, call, cancelling, ticket, arrivals>>
  <2>1. op[c] \in OperationStates
    BY <1>0 DEF TypeInv
  <2>2. /\ [op[c] EXCEPT !.phase = "running"].phase = "running"
        /\ [op[c] EXCEPT !.phase = "cancelling", !.intent = "attachment"].phase = "cancelling"
    BY <2>1 DEF OperationStates
  <2>3. op'[c].phase \in {"running", "cancelling"} /\ \A d \in Cues : d # c => op'[d] = op[d]
    BY ZenonT(30), <1>0, <2>2 DEF DispatchScheduled, TypeInv
  <2>4. QED
    BY <1>0, <2>3 DEF DispatchScheduled, TypeInv, history
<1>2. /\ op[c].phase = "queued" /\ mailbox[a].running = c /\ mailbox[a].alive
      /\ a \in Actors
  BY <1>0 DEF SlotInv, ClaimHoldsSlot, MailboxesAreOrdered
<1>3. \A b \in Actors : /\ mailbox[b].running # None => mailbox[b].running \in Cues
                        /\ \A i \in 1..Len(mailbox[b].queue) :
                             mailbox[b].queue[i] \in Cues /\ mailbox[b].queue[i] # c
  <2> SUFFICES ASSUME NEW b \in Actors, NEW i \in 1..Len(mailbox[b].queue), mailbox[b].queue[i] = c
               PROVE  FALSE
    BY DEF TypeInv, Mailboxes
  <2>1. Target[c] = b /\ ticket[mailbox[b].running] < ticket[mailbox[b].queue[i]]
    BY SMTT(30) DEF SlotInv, MailboxesAreOrdered
  <2>2. ticket[c] < ticket[c] /\ ticket[c] \in Nat
    BY <1>0, <1>2, <2>1 DEF TypeInv
  <2>3. QED
    BY <2>2
<1> HIDE DEF c
<1>4. ClaimHoldsSlot'
  BY <1>1 DEF ClaimHoldsSlot
<1>5. MailboxesAreOrdered'
  BY SMTT(30), <1>0, <1>1, <1>2, <1>3 DEF SlotInv, MailboxesAreOrdered, c
<1>6. CuesAreAccounted'
  BY <1>0, <1>1, <1>2 DEF SlotInv, CuesAreAccounted, c
<1>7. OneOperationStarted'
  <2> SUFFICES ASSUME NEW d \in Cues, NEW e \in Cues, Target[d] = Target[e], d # e,
                      op'[d].phase \in {"running", "cancelling"},
                      op'[e].phase \in {"running", "cancelling"}
               PROVE  FALSE
    BY DEF OneOperationStarted
  <2>1. \A f \in Cues : f # c /\ Target[f] = a => op[f].phase \notin {"running", "cancelling"}
    BY <1>2 DEF SlotInv, CuesAreAccounted
  <2>2. QED
    BY <1>1, <2>1 DEF SlotInv, OneOperationStarted
<1>8. StartedInOrder'
  <2> SUFFICES ASSUME NEW d \in Cues, NEW e \in Cues, Target[d] = Target[e],
                      0 < ticket[d], ticket[d] < ticket[e], task'[e] # "none", op'[d].phase = "queued"
               PROVE  FALSE
    BY <1>1 DEF StartedInOrder
  <2>1. d # c /\ op[d].phase = "queued"
    BY <1>1
  <2>2. CASE e # c
    BY <1>1, <2>1, <2>2 DEF SlotInv, StartedInOrder
  <2>3. CASE e = c
    <3>1. Queued(mailbox[a], d)
      BY SMTT(30), <1>2, <2>1, <2>3 DEF SlotInv, CuesAreAccounted, c
    <3>2. ticket[c] < ticket[d]
      BY <1>2, <3>1 DEF SlotInv, MailboxesAreOrdered, Queued
    <3>3. ticket[c] \in Nat /\ ticket[d] \in Nat
      BY <1>0 DEF TypeInv
    <3>4. QED
      BY SMTT(30), <2>3, <3>2, <3>3
  <2>4. QED
    BY <2>2, <2>3
<1>9. QED
  BY <1>4, <1>5, <1>6, <1>7, <1>8 DEF SlotInv

\* PreparedAdmission::commit keeps SlotInv: the new operation goes to the end of the
\* queue with the largest ticket, or into a slot that was free, or (with a close
\* pending) nowhere.
LEMMA CommitKeepsSlots ==
  ASSUME TypeInv, SlotInv, NEW c \in Cues, CommitAdmission(c)
  PROVE  SlotInv'
<1> DEFINE a == Target[c]
           m == mailbox[a]
           e == Enqueue(m, c)
<1>0. /\ None \notin Cues
      /\ \A d \in Cues : Target[d] \in Actors
      /\ m \in Mailboxes /\ m.queue \in Seq(Cues) /\ Len(m.queue) \in Nat
      /\ claimed = None /\ cancelling = {}
      /\ arrivals[a] \in Nat /\ \A d \in Cues : ticket[d] \in Nat
  <2>1. None \notin Cues /\ \A d \in Cues : Target[d] \in Actors
    BY OrchestrationAssumption
  <2>2. claimed = None /\ cancelling = {}
    BY DEF CommitAdmission, Registering, Settled
  <2>3. m \in Mailboxes /\ arrivals[a] \in Nat /\ \A d \in Cues : ticket[d] \in Nat
    BY <2>1 DEF TypeInv
  <2>4. m.queue \in Seq(Cues) /\ Len(m.queue) \in Nat
    BY SMTT(30), <2>3 DEF Mailboxes
  <2>5. QED
    BY <2>1, <2>2, <2>3, <2>4
<1>1. /\ op'[c].phase = "queued" /\ \A d \in Cues : d # c => op'[d] = op[d]
      /\ call'[c].phase = "waiting" /\ \A d \in Cues : d # c => call'[d] = call[d]
      /\ task' = task
  BY SMTT(30) DEF CommitAdmission, Registering, TypeInv, OperationStates, CallStates
<1>2. /\ op[c].phase = "none" /\ task[c] = "none" /\ m.alive /\ ticket[c] = 0
  BY DEF CommitAdmission, Registering, SlotInv, CuesAreAccounted
<1>3. \A b \in Actors :
        /\ mailbox[b].running # None => mailbox[b].running \in Cues /\ mailbox[b].running # c
        /\ \A i \in 1..Len(mailbox[b].queue) : mailbox[b].queue[i] \in Cues /\ mailbox[b].queue[i] # c
  <2>1. \A b \in Actors : /\ mailbox[b].running # None => mailbox[b].running \in Cues
                          /\ \A i \in 1..Len(mailbox[b].queue) : mailbox[b].queue[i] \in Cues
    BY DEF TypeInv, Mailboxes
  <2>2. QED
    BY <1>0, <1>2, <2>1 DEF SlotInv, MailboxesAreOrdered
<1>4. OneOperationStarted'
  BY <1>1 DEF SlotInv, OneOperationStarted
<1>5. CASE UNCHANGED <<mailbox, claimed, ticket, arrivals>>
  <2>1. ClaimHoldsSlot' /\ MailboxesAreOrdered'
    BY SMTT(30), <1>0, <1>1, <1>3, <1>5 DEF SlotInv, ClaimHoldsSlot, MailboxesAreOrdered
  <2>2. CuesAreAccounted'
    BY SMTT(30), <1>0, <1>1, <1>2, <1>5 DEF SlotInv, CuesAreAccounted
  <2>3. StartedInOrder'
    BY SMTT(30), <1>0, <1>1, <1>2, <1>5 DEF SlotInv, StartedInOrder
  <2>4. QED
    BY SMTT(30), <1>4, <2>1, <2>2, <2>3 DEF SlotInv
<1>6. CASE /\ mailbox' = [mailbox EXCEPT ![a] = e]
           /\ claimed' = IF m.running = None THEN e.running ELSE None
           /\ ticket' = [ticket EXCEPT ![c] = arrivals[a] + 1]
           /\ arrivals' = [arrivals EXCEPT ![a] = @ + 1]
           /\ UNCHANGED cancelling
  <2>1. /\ e.alive = m.alive
        /\ m.running = None => e.running = c /\ e.queue = <<>> /\ claimed' = c
        /\ m.running # None => e.running = m.running /\ e.queue = Append(m.queue, c) /\ claimed' = None
    BY SMTT(30), <1>0, <1>6, EnqueueFacts DEF SlotInv, MailboxesAreOrdered
  <2>2. /\ mailbox'[a] = e /\ \A b \in Actors : b # a => mailbox'[b] = mailbox[b]
        /\ ticket'[c] = arrivals[a] + 1 /\ \A d \in Cues : d # c => ticket'[d] = ticket[d]
        /\ arrivals'[a] = arrivals[a] + 1 /\ \A b \in Actors : b # a => arrivals'[b] = arrivals[b]
        /\ cancelling' = {}
    BY Zenon, <1>0, <1>6 DEF TypeInv
  <2>m. mailbox[a] = m /\ a \in Actors
    BY <1>0
  <2> HIDE DEF e, m
  <2>3. m.running # None =>
          /\ Len(e.queue) = Len(m.queue) + 1 /\ e.queue[Len(m.queue) + 1] = c
          /\ \A i \in 1..Len(m.queue) : e.queue[i] = m.queue[i]
    BY SMTT(30), <1>0, <2>1
  <2>4. \A d \in Cues : Target[d] = a => ticket[d] < arrivals[a] + 1
    BY <1>0 DEF SlotInv, CuesAreAccounted, TypeInv
  <2>5. ClaimHoldsSlot'
    BY ZenonT(30), <1>0, <1>1, <2>1, <2>2 DEF ClaimHoldsSlot
  <2>6. MailboxesAreOrdered'
    <3> SUFFICES ASSUME NEW b \in Actors
                 PROVE  /\ mailbox'[b].running = None => mailbox'[b].queue = <<>>
                        /\ mailbox'[b].running # None =>
                             /\ mailbox'[b].alive
                             /\ Target[mailbox'[b].running] = b
                             /\ \/ op'[mailbox'[b].running].phase \in {"running", "cancelling"}
                                \/ mailbox'[b].running = claimed'
                        /\ \A i \in 1..Len(mailbox'[b].queue) :
                             /\ Target[mailbox'[b].queue[i]] = b
                             /\ op'[mailbox'[b].queue[i]].phase = "queued"
                             /\ ticket'[mailbox'[b].running] < ticket'[mailbox'[b].queue[i]]
                             /\ \A j \in 1..Len(mailbox'[b].queue) :
                                  i < j => ticket'[mailbox'[b].queue[i]] < ticket'[mailbox'[b].queue[j]]
      BY Zenon DEF MailboxesAreOrdered
    <3>1. CASE b # a
      <4>1. mailbox'[b] = mailbox[b]
        BY SMTT(30), <2>2, <3>1
      <4>2. \A i \in 1..Len(mailbox[b].queue) : mailbox[b].running # None
        BY SMTT(30) DEF SlotInv, MailboxesAreOrdered
      <4>3. /\ \A i \in 1..Len(mailbox[b].queue) :
                 /\ ticket'[mailbox[b].queue[i]] = ticket[mailbox[b].queue[i]]
                 /\ op'[mailbox[b].queue[i]] = op[mailbox[b].queue[i]]
            /\ mailbox[b].running # None => /\ ticket'[mailbox[b].running] = ticket[mailbox[b].running]
                                            /\ op'[mailbox[b].running] = op[mailbox[b].running]
                                            /\ mailbox[b].running # claimed
        BY SMTT(30), <1>0, <1>1, <1>3, <2>2
      <4>4. /\ mailbox[b].running = None => mailbox[b].queue = <<>>
            /\ mailbox[b].running # None =>
                 /\ mailbox[b].alive
                 /\ Target[mailbox[b].running] = b
                 /\ op[mailbox[b].running].phase \in {"running", "cancelling"}
            /\ \A i \in 1..Len(mailbox[b].queue) :
                 /\ Target[mailbox[b].queue[i]] = b
                 /\ op[mailbox[b].queue[i]].phase = "queued"
                 /\ ticket[mailbox[b].running] < ticket[mailbox[b].queue[i]]
                 /\ \A j \in 1..Len(mailbox[b].queue) :
                      i < j => ticket[mailbox[b].queue[i]] < ticket[mailbox[b].queue[j]]
        BY SMTT(30), <4>3 DEF SlotInv, MailboxesAreOrdered
      <4>5. QED
        BY SMTT(30), <4>1, <4>2, <4>3, <4>4
    <3>2. CASE b = a /\ m.running = None
      <4>1. /\ mailbox'[b] = e /\ e.running = c /\ c # None /\ Target[c] = b /\ claimed' = c
            /\ e.alive /\ e.queue = <<>>
        BY ZenonT(30), <1>0, <1>2, <2>1, <2>2, <3>2 DEF m
      <4>2. QED
        BY <4>1
    <3>3. CASE b = a /\ m.running # None
      <4>1. /\ m.running \in Cues /\ m.running # c /\ Target[m.running] = a
            /\ op[m.running].phase \in {"running", "cancelling"}
            /\ \A i \in 1..Len(m.queue) :
                 /\ m.queue[i] \in Cues /\ m.queue[i] # c
                 /\ Target[m.queue[i]] = a /\ op[m.queue[i]].phase = "queued"
                 /\ ticket[m.running] < ticket[m.queue[i]]
                 /\ \A j \in 1..Len(m.queue) : i < j => ticket[m.queue[i]] < ticket[m.queue[j]]
        BY SMTT(30), <1>0, <1>3, <2>m, <3>3 DEF SlotInv, MailboxesAreOrdered
      <4>2. ASSUME NEW i \in 1..Len(e.queue)
            PROVE  /\ Target[e.queue[i]] = a /\ op'[e.queue[i]].phase = "queued"
                   /\ ticket'[m.running] < ticket'[e.queue[i]]
                   /\ \A j \in 1..Len(e.queue) : i < j => ticket'[e.queue[i]] < ticket'[e.queue[j]]
        <5>1. CASE i = Len(m.queue) + 1
          BY <1>0, <1>1, <2>2, <2>3, <2>4, <3>3, <4>1, <5>1
        <5>2. CASE i \in 1..Len(m.queue)
          <6>1. /\ e.queue[i] = m.queue[i] /\ m.queue[i] # c /\ m.queue[i] \in Cues
                /\ ticket'[e.queue[i]] = ticket[m.queue[i]]
            BY <2>2, <2>3, <3>3, <4>1, <5>2
          <6>2. ASSUME NEW j \in 1..Len(e.queue), i < j PROVE ticket'[e.queue[i]] < ticket'[e.queue[j]]
            <7>1. CASE j \in 1..Len(m.queue)
              BY SMTT(30), <2>2, <2>3, <3>3, <4>1, <5>2, <6>1, <6>2, <7>1
            <7>2. CASE j = Len(m.queue) + 1
              BY <2>2, <2>3, <2>4, <3>3, <4>1, <5>2, <6>1, <7>2
            <7>3. QED
              BY <1>0, <2>3, <3>3, <7>1, <7>2
          <6>3. QED
            BY SMTT(30), <1>1, <2>2, <4>1, <5>2, <6>1, <6>2
        <5>3. QED
          BY SMTT(30), <1>0, <2>3, <3>3, <5>1, <5>2
      <4>3. /\ mailbox'[b] = e /\ e.running = m.running /\ e.running # None /\ e.alive
            /\ op'[m.running] = op[m.running]
        BY <1>1, <1>2, <2>1, <2>2, <2>m, <3>3, <4>1
      <4>4. QED
        BY SMTT(30), <3>3, <4>1, <4>2, <4>3
    <3>4. QED
      BY ZenonT(30), <3>1, <3>2, <3>3
  <2>7. CuesAreAccounted'
    <3> SUFFICES ASSUME NEW d \in Cues
                 PROVE  /\ call'[d].phase \notin {"none", "done"} => mailbox'[Target[d]].alive
                        /\ call'[d].phase \in {"none", "created", "admitting"} => op'[d].phase = "none"
                        /\ op'[d].phase \in {"none", "queued"} => task[d] = "none"
                        /\ task[d] = "pending" => op'[d].phase \in {"running", "cancelling"}
                        /\ ticket'[d] <= arrivals'[Target[d]]
                        /\ op'[d].phase = "none" => ticket'[d] = 0
                        /\ mailbox'[Target[d]].alive =>
                             /\ op'[d].phase \in {"running", "cancelling"} => mailbox'[Target[d]].running = d
                             /\ op'[d].phase = "queued" /\ ticket'[d] > 0
                                => d = claimed' \/ Queued(mailbox'[Target[d]], d)
      BY ZenonT(30), <1>1 DEF CuesAreAccounted
    <3>1. /\ mailbox'[Target[d]].alive = mailbox[Target[d]].alive
          /\ arrivals[Target[d]] \in Nat /\ ticket[d] \in Nat
          /\ arrivals[Target[d]] <= arrivals'[Target[d]]
      <4>1. arrivals[Target[d]] \in Nat /\ ticket[d] \in Nat
        BY <1>0 DEF TypeInv
      <4>2. CASE Target[d] = a
        BY SMTT(30), <2>1, <2>2, <2>m, <4>1, <4>2
      <4>3. CASE Target[d] # a
        BY SMTT(30), <1>0, <2>2, <4>1, <4>3
      <4>4. QED
        BY ZenonT(30), <4>2, <4>3
    <3>2. CASE d = c
      <4>1. m.running # None => Queued(e, c)
        BY SMTT(30), <1>0, <2>3 DEF Queued
      <4>2. ticket'[c] <= arrivals'[a] /\ mailbox'[a] = e /\ m.alive /\ e.alive
        BY <1>0, <1>2, <2>1, <2>2, <2>m
      <4>3. c = claimed' \/ Queued(e, c)
        BY SMTT(30), <2>1, <4>1
      <4>4. QED
        BY SMTT(30), <1>1, <1>2, <3>2, <4>2, <4>3
    <3>3. CASE d # c /\ Target[d] # a
      BY SMTT(30), <1>0, <1>1, <2>2, <3>1, <3>3 DEF SlotInv, CuesAreAccounted
    <3>4. CASE d # c /\ Target[d] = a
      <4>1. m.running = d => e.running = d
        BY <1>0, <2>1
      <4>2. Queued(m, d) => Queued(e, d)
        <5>1. Queued(m, d) => m.running # None
          <6>1. Queued(m, d) => Len(m.queue) # 0
            BY <1>0 DEF Queued
          <6>2. m.running = None => m.queue = <<>>
            BY SMTT(30), <2>m DEF SlotInv, MailboxesAreOrdered
          <6>3. QED
            BY SMTT(30), <6>1, <6>2
        <5>2. QED
          BY SMTT(30), <1>0, <2>3, <5>1 DEF Queued
      <4>3. op'[d] = op[d] /\ call'[d] = call[d] /\ ticket'[d] = ticket[d] /\ mailbox'[Target[d]] = e
        BY SMTT(30), <1>1, <2>2, <3>4
      <4>4. /\ ticket[d] <= arrivals[a]
            /\ m.alive => /\ op[d].phase \in {"running", "cancelling"} => m.running = d
                          /\ op[d].phase = "queued" /\ ticket[d] > 0 => Queued(m, d)
        BY SMTT(30), <1>0, <2>m, <3>4 DEF SlotInv, CuesAreAccounted
      <4>5. ticket'[d] <= arrivals'[Target[d]]
        <5>1. arrivals'[a] = arrivals[a] + 1 /\ arrivals[a] \in Nat /\ ticket[d] \in Nat
          BY <1>0, <2>2, <3>1
        <5>2. QED
          BY SMTT(30), <3>4, <4>3, <4>4, <5>1
      <4>6. /\ call[d].phase \notin {"none", "done"} => mailbox[Target[d]].alive
            /\ call[d].phase \in {"none", "created", "admitting"} => op[d].phase = "none"
            /\ op[d].phase \in {"none", "queued"} => task[d] = "none"
            /\ task[d] = "pending" => op[d].phase \in {"running", "cancelling"}
            /\ op[d].phase = "none" => ticket[d] = 0
        BY SMTT(30) DEF SlotInv, CuesAreAccounted
      <4>7. QED
        BY SMTT(30), <1>2, <3>1, <4>1, <4>2, <4>3, <4>4, <4>5, <4>6
    <3>5. QED
      BY ZenonT(30), <3>2, <3>3, <3>4
  <2>8. StartedInOrder'
    <3> SUFFICES ASSUME NEW d \in Cues, NEW f \in Cues, Target[d] = Target[f],
                        0 < ticket'[d], ticket'[d] < ticket'[f], task[f] # "none", op'[d].phase = "queued"
                 PROVE  FALSE
      BY <1>1 DEF StartedInOrder
    <3>1. f # c
      BY SMTT(30), <1>2
    <3>2. CASE d = c
      BY <1>0, <2>2, <2>4, <3>1, <3>2
    <3>3. CASE d # c
      BY <1>1, <2>2, <3>1, <3>3 DEF SlotInv, StartedInOrder
    <3>4. QED
      BY SMTT(30), <3>2, <3>3
  <2>9. QED
    BY SMTT(30), <1>4, <2>5, <2>6, <2>7, <2>8 DEF SlotInv
<1>7. QED
  BY <1>5, <1>6 DEF CommitAdmission, Registering

\* The end of an Actor keeps SlotInv: no call to it is under way, so nothing is claimed,
\* and its operations are found in no mailbox from then on.
LEMMA DropKeepsSlots ==
  ASSUME TypeInv, SlotInv, NEW a \in Actors, DropActor(a)
  PROVE  SlotInv'
<1>1. /\ mailbox'[a] = [queue |-> <<>>, running |-> None, alive |-> FALSE]
      /\ \A b \in Actors : b # a => mailbox'[b] = mailbox[b]
      /\ UNCHANGED <<call, op, task, claimed, cancelling, ticket, arrivals>> /\ claimed = None
      /\ \A c \in Cues : Target[c] \in Actors
  BY SMTT(30), OrchestrationAssumption DEF DropActor, TypeInv, Settled, history
<1>2. ClaimHoldsSlot'
  BY SMTT(30), <1>1 DEF ClaimHoldsSlot
<1>3. MailboxesAreOrdered'
  BY SMTT(30), <1>1 DEF SlotInv, MailboxesAreOrdered
<1>4. CuesAreAccounted'
  BY <1>1 DEF SlotInv, CuesAreAccounted, DropActor
<1>5. OneOperationStarted' /\ StartedInOrder'
  BY Zenon, <1>1 DEF SlotInv, OneOperationStarted, StartedInOrder
<1>6. QED
  BY SMTT(30), <1>2, <1>3, <1>4, <1>5 DEF SlotInv
-----------------------------------------------------------------------------
LEMMA SlotInit == Init => SlotInv
<1> SUFFICES ASSUME Init PROVE SlotInv
  OBVIOUS
<1>1. \A a \in Actors : mailbox[a] = [queue |-> <<>>, running |-> None, alive |-> TRUE]
  BY SMTT(30) DEF Init
<1>2. /\ \A c \in Cues : /\ op[c].phase = "none" /\ call[c].phase = "none" /\ task[c] = "none"
                         /\ ticket[c] = 0 /\ Target[c] \in Actors
      /\ \A a \in Actors : arrivals[a] = 0
      /\ claimed = None
  BY SMTT(30), OrchestrationAssumption DEF Init
<1>3. ClaimHoldsSlot /\ OneOperationStarted /\ StartedInOrder
  BY <1>2 DEF ClaimHoldsSlot, OneOperationStarted, StartedInOrder
<1>4. MailboxesAreOrdered
  BY SMTT(30), <1>1 DEF MailboxesAreOrdered
<1>5. CuesAreAccounted
  BY SMTT(30), <1>2 DEF CuesAreAccounted
<1>6. QED
  BY <1>3, <1>4, <1>5 DEF SlotInv

LEMMA SlotStep == TypeInv /\ SlotInv /\ [Next]_vars => SlotInv'
<1> SUFFICES ASSUME TypeInv, SlotInv, [Next]_vars PROVE SlotInv'
  OBVIOUS
<1>c. \A c \in Cues : call[c] \in CallStates /\ op[c] \in OperationStates
  BY DEF TypeInv
<1>q. ASSUME UNCHANGED <<op, task, mailbox, claimed, ticket, arrivals>>, QuietCalls,
             claimed # None => cancelling' = {}
      PROVE  SlotInv'
  <2>1. /\ \A d \in Cues : \/ op'[d].phase = op[d].phase
                           \/ op[d].phase = "running" /\ op'[d].phase = "cancelling"
        /\ \A d \in Cues : \/ task'[d] = task[d]
                           \/ task[d] = "pending" /\ task'[d] # "pending" /\ task'[d] # "none"
        /\ UNCHANGED <<mailbox, claimed, ticket, arrivals>>
    BY <1>q
  <2>2. QED
    BY Zenon, <1>q, <2>1, QuietKeepsSlots
<1>1. CASE CancelNext
  <2>1. PICK c \in cancelling : /\ RequestCancel(c) /\ cancelling' = cancelling \ {c}
                                /\ UNCHANGED <<call, task, history>>
    BY SMTT(30), <1>1 DEF CancelNext
  <2>2. c \in Cues /\ claimed = None
    BY <2>1 DEF TypeInv, SlotInv, ClaimHoldsSlot
  <2>3. cancelling' \subseteq cancelling /\ UNCHANGED <<task, ticket, arrivals>>
    BY <2>1 DEF history
  <2>4. \A d \in Cues : \/ call'[d] = call[d]
                        \/ Suspended(d) /\ call'[d].phase \in {"cancelling", "done"}
                        \/ d = c /\ op[c].phase # "queued" /\ call'[d].phase = "done"
    BY SMTT(30), <2>1
  <2>5. QED
    BY Zenon, <2>1, <2>2, <2>3, <2>4, RequestCancelKeepsSlots
<1>2. CASE DispatchScheduled
  BY SMTT(30), <1>2, DispatchKeepsSlots
<1>3. CASE DispatchFailed
  <2> DEFINE c == claimed
  <2>1. c \in Cues /\ op[c].phase = "queued" /\ cancelling = {}
    BY SMTT(30), <1>3 DEF DispatchFailed, TypeInv, SlotInv, ClaimHoldsSlot
  <2>2. task[c] # "pending" /\ Live(c)
    BY <2>1 DEF SlotInv, CuesAreAccounted, Live
  <2>3. PICK outcome : op' = [op EXCEPT ![c] = Terminated(outcome)]
    BY Zenon, <1>3 DEF DispatchFailed
  <2>4. op'[c].phase = "terminal" /\ \A d \in Cues : d # c => op'[d] = op[d]
    BY <2>1, <2>3 DEF Terminated, TypeInv
  <2>5. /\ cancelling' \subseteq cancelling /\ UNCHANGED <<task, ticket, arrivals>> /\ Retire(c)
        /\ \A d \in Cues : call'[d] = call[d]
    BY <1>3 DEF DispatchFailed, history
  <2>6. QED
    BY SMTT(30), <2>1, <2>2, <2>4, <2>5, RetireKeepsSlots
<1>4. ASSUME NEW c \in Cues, CreateCall(c) PROVE SlotInv'
  <2>1. QuietCalls
    BY <1>4, <1>c DEF CreateCall, QuietCalls, TypeInv, CallStates
  <2>2. UNCHANGED <<op, task, mailbox, claimed, ticket, arrivals>> /\ claimed = None
    BY <1>4 DEF CreateCall, Idle, Settled, history
  <2>3. QED
    BY <2>1, <2>2, <1>q
<1>5. ASSUME NEW c \in Cues, BeginAdmission(c) PROVE SlotInv'
  <2>1. QuietCalls
    <3>1. call'[c].phase = "admitting" /\ \A d \in Cues : d # c => call'[d] = call[d]
      BY <1>5, <1>c DEF BeginAdmission, TypeInv, CallStates
    <3>2. call[c].phase = "created" /\ mailbox[Target[c]].alive
      BY <1>5 DEF BeginAdmission, SlotInv, CuesAreAccounted
    <3>3. QED
      BY <3>1, <3>2 DEF QuietCalls
  <2>2. UNCHANGED <<op, task, mailbox, claimed, ticket, arrivals>> /\ claimed = None
    BY <1>5 DEF BeginAdmission, Idle, Settled, history
  <2>3. QED
    BY <2>1, <2>2, <1>q
<1>6. ASSUME NEW c \in Cues, RefuseAdmission(c) PROVE SlotInv'
  <2>1. QuietCalls
    BY <1>6, <1>c DEF RefuseAdmission, QuietCalls, TypeInv, CallStates
  <2>2. UNCHANGED <<op, task, mailbox, claimed, ticket, arrivals>> /\ claimed = None
    BY <1>6 DEF RefuseAdmission, Idle, Settled, history
  <2>3. QED
    BY <2>1, <2>2, <1>q
<1>7. ASSUME NEW c \in Cues, AbortAdmission(c) PROVE SlotInv'
  <2>1. QuietCalls
    BY <1>7, <1>c DEF AbortAdmission, QuietCalls, TypeInv, CallStates
  <2>2. UNCHANGED <<op, task, mailbox, claimed, ticket, arrivals>> /\ claimed = None
    BY <1>7 DEF AbortAdmission, Settled, history
  <2>3. QED
    BY <2>1, <2>2, <1>q
<1>8. ASSUME NEW c \in Cues, CommitAdmission(c) PROVE SlotInv'
  BY <1>8, CommitKeepsSlots
<1>9. ASSUME NEW c \in Cues, TaskEnds(c) PROVE SlotInv'
  <2>1. /\ \A d \in Cues : \/ task'[d] = task[d]
                           \/ task[d] = "pending" /\ task'[d] # "pending" /\ task'[d] # "none"
        /\ \A d \in Cues : \/ op'[d].phase = op[d].phase
                           \/ op[d].phase = "running" /\ op'[d].phase = "cancelling"
        /\ UNCHANGED <<mailbox, claimed, ticket, arrivals>> /\ claimed = None
    BY SMTT(30), <1>9, OrchestrationAssumption DEF TaskEnds, TypeInv, Idle, Settled, history
  <2>2. QuietCalls
    BY <1>9 DEF TaskEnds, QuietCalls
  <2>3. QED
    BY Zenon, <2>1, <2>2, QuietKeepsSlots
<1>10. ASSUME NEW c \in Cues, FinishFromTask(c) PROVE SlotInv'
  <2>1. /\ op[c].phase \in {"running", "cancelling"} /\ cancelling = {} /\ claimed = None
        /\ task[c] # "pending" /\ Retire(c) /\ cancelling' \subseteq cancelling
        /\ UNCHANGED <<task, ticket, arrivals>> /\ \A d \in Cues : call'[d] = call[d]
    BY <1>10 DEF FinishFromTask, Idle, Settled, TaskResults, history
  <2>2. PICK outcome : op' = [op EXCEPT ![c] = Terminated(outcome)]
    BY Zenon, <1>10 DEF FinishFromTask
  <2>3. op'[c].phase = "terminal" /\ \A d \in Cues : d # c => op'[d] = op[d]
    BY SMTT(30), <2>2 DEF Terminated, TypeInv
  <2>4. QED
    BY SMTT(30), <2>1, <2>3, RetireKeepsSlots DEF Live
<1>11. ASSUME NEW c \in Cues, CallerResumes(c) PROVE SlotInv'
  <2>1. QuietCalls
    BY SMTT(30), <1>11, <1>c DEF CallerResumes, Finished, QuietCalls, TypeInv, CallStates
  <2>2. UNCHANGED <<op, task, mailbox, claimed, ticket, arrivals>> /\ claimed = None
    BY <1>11 DEF CallerResumes, Idle, Settled, history
  <2>3. QED
    BY <2>1, <2>2, <1>q
<1>12. ASSUME NEW c \in Cues, CallerCancels(c) PROVE SlotInv'
  <2>0. UNCHANGED <<task, cancelling, ticket, arrivals>> /\ claimed = None
    BY <1>12 DEF CallerCancels, Idle, Settled, history
  <2>1. \A d \in Cues : d # c => call'[d] = call[d]
    BY Zenon, <1>12 DEF CallerCancels, TypeInv
  <2>f. \A cancellation, result : Finished(call[c], cancellation, result).phase = "done"
    BY <1>c DEF Finished, CallStates
  <2>2. CASE call[c].phase = "waiting"
    <3>1. RequestCancel(c) /\ Suspended(c)
      BY <1>12, <2>2 DEF CallerCancels, Suspended
    <3>2. call'[c].phase \in {"cancelling", "done"}
      <4>1. call'[c] = CASE op[c].phase = "terminal" -> Finished(call[c], FALSE, ResultFor(op[c], FALSE))
                         [] op[c].phase = "queued" -> Finished(call[c], TRUE, ResultFor(op'[c], TRUE))
                         [] OTHER -> [call[c] EXCEPT !.phase = "cancelling", !.cancellation = TRUE]
        BY Zenon, <1>12, <2>2 DEF CallerCancels, TypeInv
      <4>2. [call[c] EXCEPT !.phase = "cancelling", !.cancellation = TRUE].phase = "cancelling"
        BY <1>c DEF CallStates
      <4>3. QED
        BY Zenon, <2>f, <4>1, <4>2
    <3>3. \A d \in Cues : \/ call'[d] = call[d]
                          \/ Suspended(d) /\ call'[d].phase \in {"cancelling", "done"}
                          \/ d = c /\ op[c].phase # "queued" /\ call'[d].phase = "done"
      BY <2>1, <3>1, <3>2
    <3>4. QED
      BY <2>0, <3>1, <3>3, RequestCancelKeepsSlots
  <2>3. CASE call[c].phase # "waiting"
    <3>1. call'[c].phase = "done" /\ UNCHANGED <<op, mailbox, claimed>>
      <4>1. /\ UNCHANGED <<op, mailbox, claimed>>
            /\ \/ call' = [call EXCEPT ![c] = Finished(@, FALSE, "caller_cancelled")]
               \/ call' = [call EXCEPT ![c] = Finished(@, TRUE, ResultFor(op[c], TRUE))]
        BY Zenon, <1>12, <2>3 DEF CallerCancels
      <4>2. \/ call'[c] = Finished(call[c], FALSE, "caller_cancelled")
            \/ call'[c] = Finished(call[c], TRUE, ResultFor(op[c], TRUE))
        BY Zenon, <4>1 DEF TypeInv
      <4>3. call'[c].phase = "done"
        BY Zenon, <2>f, <4>2
      <4>4. QED
        BY <4>1, <4>3
    <3>2. QuietCalls
      BY <2>1, <3>1 DEF QuietCalls
    <3>3. QED
      BY <2>0, <3>1, <3>2, <1>q
  <2>4. QED
    BY <2>2, <2>3
<1>13. ASSUME NEW c \in Cues, CallerThrows(c) PROVE SlotInv'
  <2>1. QuietCalls
    BY <1>13, <1>c DEF CallerThrows, Finished, QuietCalls, TypeInv, CallStates
  <2>2. UNCHANGED <<op, task, mailbox, claimed, ticket, arrivals>> /\ claimed = None
    BY <1>13 DEF CallerThrows, Idle, Settled, history
  <2>3. QED
    BY <2>1, <2>2, <1>q
<1>14. ASSUME NEW c \in Cues, CallerCloses(c) PROVE SlotInv'
  <2>1. /\ RequestCancel(c) /\ claimed = None /\ cancelling' \subseteq cancelling
        /\ UNCHANGED <<task, ticket, arrivals>>
    BY <1>14 DEF CallerCloses, Settled, history
  <2>2. Suspended(c) \/ op[c].phase = "none"
    BY Zenon, <1>14 DEF CallerCloses, Suspended, SlotInv, CuesAreAccounted
  <2>3. call'[c].phase = "done" /\ \A d \in Cues : d # c => call'[d] = call[d]
    BY <1>14, <1>c DEF CallerCloses, Finished, TypeInv, CallStates
  <2>4. \A d \in Cues : \/ call'[d] = call[d]
                        \/ Suspended(d) /\ call'[d].phase \in {"cancelling", "done"}
                        \/ d = c /\ op[c].phase # "queued" /\ call'[d].phase = "done"
    BY <2>2, <2>3
  <2>5. QED
    BY Zenon, <2>1, <2>4, RequestCancelKeepsSlots
<1>15. ASSUME NEW n \in Scenes, CloseScene(n) PROVE SlotInv'
  <2>1. QuietCalls /\ UNCHANGED <<op, task, mailbox, claimed, ticket, arrivals>> /\ claimed = None
    BY <1>15 DEF CloseScene, Settled, QuietCalls, history
  <2>2. QED
    BY <2>1, <1>q
<1>16. ASSUME NEW n \in Scenes, WaitClosed(n) PROVE SlotInv'
  <2>1. QuietCalls /\ UNCHANGED <<op, task, mailbox, claimed, cancelling, ticket, arrivals>>
    BY <1>16 DEF WaitClosed, QuietCalls, history
  <2>2. claimed # None => cancelling' = {}
    BY <2>1 DEF SlotInv, ClaimHoldsSlot
  <2>3. QED
    BY <2>1, <2>2, <1>q
<1>17. ASSUME NEW a \in Actors, DropActor(a) PROVE SlotInv'
  BY <1>17, DropKeepsSlots
<1>18. CASE UNCHANGED vars
  <2>1. QuietCalls /\ UNCHANGED <<op, task, mailbox, claimed, cancelling, ticket, arrivals>>
    BY <1>18 DEF vars, QuietCalls
  <2>2. claimed # None => cancelling' = {}
    BY <2>1 DEF SlotInv, ClaimHoldsSlot
  <2>3. QED
    BY <2>1, <2>2, <1>q
<1>19. QED
  BY <1>1, <1>2, <1>3, <1>4, <1>5, <1>6, <1>7, <1>8, <1>9, <1>10, <1>11, <1>12, <1>13, <1>14,
     <1>15, <1>16, <1>17, <1>18 DEF Next, Finale

\* The mailboxes, the operations and the callers agree on the slots of the Actors in
\* every reachable state.
THEOREM SlotsAgree == Spec => []SlotInv
<1>1. Init => SlotInv
  BY SlotInit
<1>2. TypeInv /\ SlotInv /\ [Next]_vars => SlotInv'
  BY SlotStep
<1>3. QED
  BY <1>1, <1>2, TypeCorrect, PTL DEF Spec

\* An Actor runs one Cue at a time, whatever cancels, fails or closes meanwhile.
THEOREM ActorRunsOneCue == Spec => []OneCueAtATime
<1>1. SlotInv => OneCueAtATime
  BY DEF SlotInv, CuesAreAccounted, OneOperationStarted, OneCueAtATime
<1>2. QED
  BY <1>1, SlotsAgree, PTL

\* The Cues of an Actor start in the order they entered its mailbox.
THEOREM MailboxIsFifo == Spec => []StartedInOrder
<1>1. SlotInv => StartedInOrder
  BY DEF SlotInv
<1>2. QED
  BY <1>1, SlotsAgree, PTL

\* An Actor is sequential, as the users of Mailbox::claim_next_if_idle and
\* complete_running rely on.
THEOREM ActorsStaySequential == Spec => []ActorsAreSequential
<1>1. OneCueAtATime /\ StartedInOrder => ActorsAreSequential
  BY DEF ActorsAreSequential
<1>2. QED
  BY <1>1, ActorRunsOneCue, MailboxIsFifo, PTL
=============================================================================
