----------------------- MODULE CueOrchestrationProofs -----------------------
(***************************************************************************)
(* Proofs about CueOrchestration, for any sets of Cues, Actors and Scenes. *)
(***************************************************************************)
EXTENDS CueOrchestration, TLAPS

\* The lifecycle hooks of a Cue return a lifecycle, whatever they find.
LEMMA LifecycleTypes ==
  ASSUME NEW l \in Lifecycles, NEW outcome
  PROVE  /\ Removed(l) \in Lifecycles
         /\ Admitted(l) \in Lifecycles
         /\ Enqueued(l) \in Lifecycles
         /\ Dispatched(l) \in Lifecycles
         /\ CancelRequested(l) \in Lifecycles
         /\ CallerFinished(l) \in Lifecycles
         /\ Terminal(l, outcome) \in Lifecycles
         /\ Retired(l) \in Lifecycles
  BY Zenon DEF Lifecycles, LifecyclePhases, NoLifecycle, Latch, Removed, WithProducer, Admitted,
         Enqueued, Dispatched, CancelRequested, CallerFinished, Terminal, Retired

\* Removing the element at a position of a sequence (VecDeque::remove).
LEMMA WithoutFacts ==
  ASSUME NEW q \in Seq(Cues), NEW k \in 1..Len(q)
  PROVE  /\ Without(q, k) \in Seq(Cues)
         /\ Len(Without(q, k)) = Len(q) - 1
         /\ \A i \in 1..(Len(q) - 1) :
              Without(q, k)[i] = IF i < k THEN q[i] ELSE q[i + 1]
<1> DEFINE u == SubSeq(q, 1, k - 1)
           v == SubSeq(q, k + 1, Len(q))
<1>1. u \in Seq(Cues) /\ Len(u) = k - 1 /\ \A i \in 1..(k - 1) : u[i] = q[i]
  OBVIOUS
<1>2. v \in Seq(Cues) /\ Len(v) = Len(q) - k /\ \A i \in 1..(Len(q) - k) : v[i] = q[i + k]
  OBVIOUS
<1> HIDE DEF u, v
<1>3. u \o v \in Seq(Cues) /\ Len(u \o v) = Len(q) - 1
  BY <1>1, <1>2
<1>4. \A i \in 1..(Len(q) - 1) : (u \o v)[i] = IF i < k THEN q[i] ELSE q[i + 1]
  BY <1>1, <1>2
<1>5. QED
  BY Zenon, <1>3, <1>4 DEF Without, u, v

\* The terminal transition of a mailbox keeps it a mailbox.
LEMMA MailboxTypes ==
  ASSUME NEW m \in Mailboxes, NEW c \in Cues
  PROVE  /\ Enqueue(m, c) \in Mailboxes
         /\ Unlink(m, c) \in Mailboxes
         /\ NextOf(m, c) \in Cues \cup {None}
<1>1. Enqueue(m, c) \in Mailboxes
  <2>1. Append(m.queue, c) \in Seq(Cues) /\ Append(m.queue, c) # <<>>
    BY DEF Mailboxes
  <2>2. Head(Append(m.queue, c)) \in Cues /\ Tail(Append(m.queue, c)) \in Seq(Cues)
    BY <2>1
  <2>3. QED
    BY Zenon, <2>1, <2>2 DEF Mailboxes, Enqueue
<1>2. CASE Queued(m, c)
  <2>1. Position(m.queue, c) \in 1..Len(m.queue)
    BY <1>2 DEF Queued, Position
  <2>2. Without(m.queue, Position(m.queue, c)) \in Seq(Cues)
    BY <2>1, WithoutFacts DEF Mailboxes
  <2>3. QED
    BY ZenonT(30), <1>1, <1>2, <2>2 DEF Mailboxes, Unlink, NextOf
<1>3. CASE ~Queued(m, c)
  <2>1. m.queue # <<>> => Head(m.queue) \in Cues /\ Tail(m.queue) \in Seq(Cues)
    BY DEF Mailboxes
  <2>2. QED
    BY Zenon, <1>1, <1>3, <2>1 DEF Mailboxes, Unlink, NextOf
<1>4. QED
  BY <1>2, <1>3

\* What operation_finished does to a Scene, field by field.
LEMMA DeregisterFacts ==
  ASSUME NEW s \in SceneStates, NEW c
  PROVE  /\ Deregister(s, c) \in SceneStates
         /\ Deregister(s, c).operations = s.operations \ {c}
         /\ Deregister(s, c).phase =
              IF s.phase = "closing" /\ s.operations \subseteq {c} THEN "closed" ELSE s.phase
         /\ Deregister(s, c).driven = s.driven
         /\ Deregister(s, c).token = s.token
         /\ Deregister(s, c).nextToken = s.nextToken
         /\ Deregister(s, c).counter = s.counter
<1> DEFINE phase == IF s.phase = "closing" /\ s.operations \subseteq {c} THEN "closed" ELSE s.phase
<1>1. phase \in ScenePhases
  BY DEF SceneStates, ScenePhases
<1> HIDE DEF phase
<1>2. [s EXCEPT !.operations = @ \ {c}, !.phase = phase] \in SceneStates
  BY Zenon, <1>1 DEF SceneStates
<1>3. Deregister(s, c) = [s EXCEPT !.operations = @ \ {c}, !.phase = phase]
  BY DEF Deregister, phase, SceneStates
<1>4. QED
  BY Zenon, <1>2, <1>3 DEF SceneStates, phase

\* complete_terminal_action keeps the types of what it changes.
LEMMA RetireTypes ==
  ASSUME TypeInv, NEW c \in Cues, Retire(c)
  PROVE  /\ mailbox' \in [Actors -> Mailboxes]
         /\ scene' \in [Scenes -> SceneStates]
         /\ claimed' \in Cues \cup {None}
         /\ owed' \in Cues \cup {None}
         /\ signal' \in [Cues -> BOOLEAN]
<1>1. Target[c] \in Actors /\ Home[c] \in Scenes
  BY OrchestrationAssumption
<1>2. mailbox[Target[c]] \in Mailboxes /\ mailbox \in [Actors -> Mailboxes]
  BY <1>1 DEF TypeInv
<1>3. Deregister(scene[Home[c]], c) \in SceneStates
  BY <1>1, DeregisterFacts DEF TypeInv
<1>4. QED
  BY <1>1, <1>2, <1>3, MailboxTypes DEF Retire, TypeInv

\* request_cancel, in each of its three cases, keeps the types of what it changes.
LEMMA RequestCancelTypes ==
  ASSUME TypeInv, NEW c \in Cues, RequestCancel(c)
  PROVE  /\ mailbox' \in [Actors -> Mailboxes]
         /\ scene' \in [Scenes -> SceneStates]
         /\ claimed' \in Cues \cup {None}
         /\ owed' \in Cues \cup {None}
         /\ signal' \in [Cues -> BOOLEAN]
         /\ op' \in [Cues -> OperationStates]
         /\ cued' \in [Cues -> BOOLEAN]
         /\ CancelledLifecycle(c) \in Lifecycles
<1>1. CancelledLifecycle(c) \in Lifecycles
  BY ZenonT(30), LifecycleTypes DEF CancelledLifecycle, RetiredOrRemoved, TypeInv
<1>2. CASE op[c].phase = "queued" /\ Retire(c) /\ op' = [op EXCEPT ![c] = Terminated("cancelled")]
           /\ cued' = [cued EXCEPT ![c] = FALSE]
  BY <1>1, <1>2, RetireTypes DEF TypeInv, OperationStates, OperationPhases, Outcomes, Terminated
<1>3. CASE /\ UNCHANGED <<scene, cued, signal, mailbox, claimed, owed>>
           /\ \E failed \in BOOLEAN :
                op' = [op EXCEPT ![c] = [@ EXCEPT !.phase = "cancelling", !.intent = "requested",
                                                  !.dispatchError = failed]]
  <2>1. PICK failed \in BOOLEAN :
          op' = [op EXCEPT ![c] = [@ EXCEPT !.phase = "cancelling", !.intent = "requested",
                                            !.dispatchError = failed]]
    BY Zenon, <1>3
  <2>2. op[c] \in OperationStates
    BY DEF TypeInv
  <2>3. [op[c] EXCEPT !.phase = "cancelling", !.intent = "requested", !.dispatchError = failed]
          \in OperationStates
    BY Zenon, <2>2 DEF OperationStates, OperationPhases
  <2>4. QED
    BY <1>1, <1>3, <2>1, <2>3 DEF TypeInv
<1>4. CASE UNCHANGED <<scene, op, cued, signal, mailbox, claimed, owed>>
  BY <1>1, <1>4 DEF TypeInv
<1>5. QED
  BY Zenon, <1>2, <1>3, <1>4 DEF RequestCancel

\* Every update of a call is again a call.
LEMMA CallTypes ==
  ASSUME NEW k \in CallStates, NEW phase \in CallPhases
  PROVE  /\ k.cancellation \in BOOLEAN
         /\ [k EXCEPT !.phase = phase] \in CallStates
         /\ [k EXCEPT !.phase = phase, !.cancellation = TRUE] \in CallStates
         /\ \A token, index \in Nat :
              [k EXCEPT !.phase = phase, !.token = token, !.index = index] \in CallStates
         /\ \A result \in CallResults :
              [k EXCEPT !.phase = phase, !.result = result] \in CallStates
  BY Zenon DEF CallStates

\* A finished call is a call.
LEMMA FinishedTypes ==
  ASSUME NEW k \in CallStates, NEW cancellation \in BOOLEAN, NEW result \in CallResults
  PROVE  Finished(k, cancellation, result) \in CallStates
  BY Zenon DEF CallStates, CallPhases, Finished

\* Every update of a Scene is again a Scene.
LEMMA SceneTypes ==
  ASSUME NEW s \in SceneStates, NEW phase \in ScenePhases, NEW token \in Nat, NEW next \in Nat,
         NEW counter \in Nat, NEW operations \in SUBSET Cues, NEW driven \in BOOLEAN
  PROVE  /\ [s EXCEPT !.phase = phase] \in SceneStates
         /\ [s EXCEPT !.driven = driven, !.phase = phase] \in SceneStates
         /\ [s EXCEPT !.phase = phase, !.token = token, !.nextToken = next] \in SceneStates
         /\ [s EXCEPT !.counter = counter, !.operations = operations] \in SceneStates
  BY Zenon DEF SceneStates

\* Every update of an operation is again an operation.
LEMMA OperationTypes ==
  ASSUME NEW o \in OperationStates, NEW result, NEW outcome \in Outcomes
  PROVE  /\ OutcomeOf(o, result) \in Outcomes \/ result \notin TaskResults
         /\ Terminated(outcome) \in OperationStates
         /\ [o EXCEPT !.phase = "queued"] \in OperationStates
         /\ [o EXCEPT !.phase = "running"] \in OperationStates
         /\ [o EXCEPT !.phase = "cancelling", !.intent = "attachment"] \in OperationStates
         /\ \A cancellation \in BOOLEAN : ResultFor(o, cancellation) \in CallResults
  BY Zenon DEF OperationStates, OperationPhases, Outcomes, TaskResults, OutcomeOf, Terminated, ResultFor,
         CallResults
-----------------------------------------------------------------------------
LEMMA TypeInit == Init => TypeInv
<1> SUFFICES ASSUME Init PROVE TypeInv
  OBVIOUS
<1>1. scene \in [Scenes -> SceneStates]
  BY DEF Init, SceneStates, ScenePhases
<1>2. call \in [Cues -> CallStates]
  BY DEF Init, CallStates, CallPhases, CallResults
<1>3. op \in [Cues -> OperationStates]
  BY DEF Init, OperationStates, OperationPhases, Outcomes
<1>4. mailbox \in [Actors -> Mailboxes]
  BY DEF Init, Mailboxes
<1>5. lifecycle \in [Cues -> Lifecycles]
  BY DEF Init, Lifecycles, NoLifecycle, LifecyclePhases
<1>6. QED
  BY Zenon, <1>1, <1>2, <1>3, <1>4, <1>5 DEF Init, TypeInv

LEMMA TypeStep == TypeInv /\ [Next]_vars => TypeInv'
<1> SUFFICES ASSUME TypeInv, [Next]_vars PROVE TypeInv'
  OBVIOUS
<1>t. /\ scene \in [Scenes -> SceneStates]
      /\ call \in [Cues -> CallStates]
      /\ op \in [Cues -> OperationStates]
      /\ mailbox \in [Actors -> Mailboxes]
      /\ lifecycle \in [Cues -> Lifecycles]
  BY DEF TypeInv
<1>h. \A c \in Cues : Target[c] \in Actors /\ Home[c] \in Scenes
  BY OrchestrationAssumption
<1>1. CASE CancelNext
  <2>1. PICK c \in cancelling : /\ RequestCancel(c)
                                /\ lifecycle' = [lifecycle EXCEPT ![c] = CancelledLifecycle(c)]
                                /\ cancelling' = cancelling \ {c}
                                /\ UNCHANGED <<call, task, history>>
    BY ZenonT(30), <1>1 DEF CancelNext
  <2>2. c \in Cues
    BY DEF TypeInv
  <2>3. QED
    BY <2>1, <2>2, RequestCancelTypes DEF TypeInv, history
<1>2. CASE DispatchScheduled
  <2>1. claimed \in Cues
    BY <1>2 DEF DispatchScheduled, TypeInv
  <2>2. op' \in [Cues -> OperationStates]
    <3>1. op[claimed] \in OperationStates
      BY <1>t, <2>1
    <3>2. CASE op' = [op EXCEPT ![claimed].phase = "running"]
      BY ZenonT(30), <1>t, <2>1, <3>1, <3>2, OperationTypes DEF Outcomes
    <3>3. CASE op' = [op EXCEPT ![claimed] = [@ EXCEPT !.phase = "cancelling",
                                                        !.intent = "attachment"]]
      BY Zenon, <1>t, <2>1, <3>1, <3>3, OperationTypes DEF Outcomes
    <3>4. QED
      BY <1>2, <3>2, <3>3 DEF DispatchScheduled
  <2>3. lifecycle' \in [Cues -> Lifecycles]
    BY <1>2, <1>t, <2>1, LifecycleTypes DEF DispatchScheduled
  <2>4. QED
    BY <1>2, <2>1, <2>2, <2>3 DEF DispatchScheduled, TypeInv, history
<1>3. CASE DispatchFailed
  <2>1. claimed \in Cues /\ Retire(claimed)
    BY <1>3 DEF DispatchFailed, TypeInv
  <2>2. op' \in [Cues -> OperationStates]
    <3>1. PICK result \in {"error", "cancelled"} :
            op' = [op EXCEPT ![claimed] = Terminated(OutcomeOf(op[claimed], result))]
      BY Zenon, <1>3 DEF DispatchFailed
    <3>2. op[claimed] \in OperationStates
      BY <1>t, <2>1
    <3>3. OutcomeOf(op[claimed], result) \in Outcomes
      BY Zenon, <3>2, OperationTypes DEF TaskResults, Outcomes
    <3>4. QED
      BY Zenon, <1>t, <2>1, <3>1, <3>2, <3>3, OperationTypes
  <2>3. lifecycle' \in [Cues -> Lifecycles]
    BY <1>3, <1>t, <2>1, LifecycleTypes DEF DispatchFailed
  <2>4. QED
    BY <1>3, <2>1, <2>2, <2>3, RetireTypes DEF DispatchFailed, TypeInv, history
<1>4. ASSUME NEW c \in Cues, CreateCall(c) PROVE TypeInv'
  <2>1. [call[c] EXCEPT !.phase = "created"] \in CallStates
    BY Zenon, <1>t, CallTypes DEF CallPhases, CallResults
  <2>2. QED
    BY <1>4, <2>1 DEF CreateCall, TypeInv, history
<1>5. ASSUME NEW c \in Cues, BeginAdmission(c) PROVE TypeInv'
  <2> DEFINE s == scene[Home[c]]
  <2>1. /\ s \in SceneStates
        /\ s.nextToken \in Nat /\ s.counter \in Nat
        /\ (s.nextToken + 1) % TokenModulus \in Nat
    BY <1>t, <1>h, OrchestrationAssumption DEF SceneStates
  <2>2. [s EXCEPT !.phase = "admitting", !.token = s.nextToken,
                  !.nextToken = (s.nextToken + 1) % TokenModulus] \in SceneStates
    BY ZenonT(30), <2>1, SceneTypes DEF ScenePhases
  <2>3. [call[c] EXCEPT !.phase = "admitting", !.token = s.nextToken, !.index = s.counter]
          \in CallStates
    BY Zenon, <2>1, <1>t, CallTypes DEF CallPhases, CallResults
  <2>4. QED
    BY <1>5, <1>h, <2>2, <2>3 DEF BeginAdmission, TypeInv, history
<1>6. ASSUME NEW c \in Cues, RefuseAdmission(c) PROVE TypeInv'
  <2>1. [call[c] EXCEPT !.phase = "done", !.result = "refused"] \in CallStates
    BY Zenon, <1>t, CallTypes DEF CallPhases, CallResults
  <2>2. QED
    BY <1>6, <2>1 DEF RefuseAdmission, TypeInv, history
<1>7. ASSUME NEW c \in Cues, AbortAdmission(c) PROVE TypeInv'
  <2> DEFINE s == scene[Home[c]]
             phase == CASE s.phase = "admitting" /\ s.token = call[c].token -> "open"
                        [] s.phase = "close_pending" /\ s.token = call[c].token -> "closing"
                        [] OTHER -> s.phase
  <2>1. s \in SceneStates /\ s.operations \subseteq Cues /\ phase \in ScenePhases
    BY <1>t, <1>h DEF SceneStates, ScenePhases
  <2>2. [s EXCEPT !.phase = phase] \in SceneStates
    BY ZenonT(30), <2>1, SceneTypes
  <2>3. [call[c] EXCEPT !.phase = "done", !.result = "failure"] \in CallStates
    BY Zenon, <1>t, CallTypes DEF CallPhases, CallResults
  <2>4. scene' = [scene EXCEPT ![Home[c]] = [s EXCEPT !.phase = phase]]
    BY <1>7, <1>t, <1>h DEF AbortAdmission
  <2>5. QED
    BY <1>7, <1>h, <2>1, <2>2, <2>3, <2>4 DEF AbortAdmission, TypeInv, history
<1>8. ASSUME NEW c \in Cues, CommitAdmission(c) PROVE TypeInv'
  <2> DEFINE s == scene[Home[c]]
             m == mailbox[Target[c]]
             admitted == [s EXCEPT !.counter = call[c].index + 1, !.operations = @ \cup {c}]
  <2>1. s \in SceneStates /\ call[c] \in CallStates /\ op[c] \in OperationStates /\ m \in Mailboxes
    BY <1>t, <1>h
  <2>2. admitted \in SceneStates /\ admitted.operations \subseteq Cues
    <3>1. call[c].index + 1 \in Nat /\ s.operations \cup {c} \in SUBSET Cues
      BY <2>1 DEF SceneStates, CallStates
    <3>2. admitted \in SceneStates
      BY ZenonT(30), <2>1, <3>1 DEF SceneStates
    <3>3. QED
      BY ZenonT(30), <3>2 DEF SceneStates
  <2> HIDE DEF admitted
  <2>3. [call[c] EXCEPT !.phase = "waiting"] \in CallStates
    BY ZenonT(30), <2>1, CallTypes DEF CallPhases, CallResults
  <2>4. [op[c] EXCEPT !.phase = "queued"] \in OperationStates
    BY Zenon, <2>1, OperationTypes DEF Outcomes
  <2>5. Enqueue(m, c) \in Mailboxes /\ Enqueue(m, c).running \in Cues \cup {None}
    BY <2>1, MailboxTypes DEF Mailboxes
  <2>6. [admitted EXCEPT !.phase = "open"] \in SceneStates
        /\ [admitted EXCEPT !.phase = "closing"] \in SceneStates
    BY Zenon, <2>2, SceneTypes DEF ScenePhases
  <2>7. Admitted(lifecycle[c]) \in Lifecycles /\ Enqueued(Admitted(lifecycle[c])) \in Lifecycles
    BY <1>t, LifecycleTypes
  <2>8. /\ call' \in [Cues -> CallStates] /\ op' \in [Cues -> OperationStates]
        /\ cued' \in [Cues -> BOOLEAN] /\ UNCHANGED <<task, signal, owed>>
    BY <1>8, <2>3, <2>4 DEF CommitAdmission, Registering, TypeInv
  <2>9. CASE s.phase = "admitting"
    <3>1. /\ scene' = [scene EXCEPT ![Home[c]] = [admitted EXCEPT !.phase = "open"]]
          /\ mailbox' = [mailbox EXCEPT ![Target[c]] = Enqueue(@, c)]
          /\ claimed' = IF m.running = None THEN Enqueue(m, c).running ELSE None
          /\ lifecycle' = [lifecycle EXCEPT ![c] = Enqueued(Admitted(@))]
          /\ ticket' = [ticket EXCEPT ![c] = arrivals[Target[c]] + 1]
          /\ arrivals' = [arrivals EXCEPT ![Target[c]] = @ + 1]
          /\ UNCHANGED cancelling
      BY <1>8, <2>9 DEF CommitAdmission, Registering, admitted
    <3>2. QED
      BY <1>h, <2>5, <2>6, <2>7, <2>8, <3>1 DEF TypeInv
  <2>10. CASE s.phase = "close_pending"
    <3>1. /\ scene' = [scene EXCEPT ![Home[c]] = [admitted EXCEPT !.phase = "closing"]]
          /\ cancelling' = admitted.operations
          /\ lifecycle' = [lifecycle EXCEPT ![c] = Admitted(@)]
          /\ UNCHANGED <<mailbox, claimed, ticket, arrivals>>
      BY <1>8, <2>10 DEF CommitAdmission, Registering, admitted
    <3>2. QED
      BY <1>h, <2>2, <2>6, <2>7, <2>8, <3>1 DEF TypeInv
  <2>11. QED
    BY <1>8, <2>9, <2>10 DEF CommitAdmission, Registering
<1>9. ASSUME NEW c \in Cues, TaskEnds(c) PROVE TypeInv'
  BY <1>9, OrchestrationAssumption DEF TaskEnds, TypeInv, history, TaskResults
<1>10. ASSUME NEW c \in Cues, FinishFromTask(c) PROVE TypeInv'
  <2> DEFINE outcome == OutcomeOf(op[c], task[c])
  <2>1. op[c] \in OperationStates /\ task[c] \in TaskResults
    BY <1>10, <1>t DEF FinishFromTask
  <2>2. Terminated(outcome) \in OperationStates
    BY ZenonT(30), <2>1, OperationTypes DEF Outcomes
  <2>3. RetiredOrRemoved(Terminal(lifecycle[c], outcome), c) \in Lifecycles
    BY Zenon, <1>t, LifecycleTypes DEF RetiredOrRemoved
  <2>4. Retire(c)
    BY <1>10 DEF FinishFromTask
  <2>5. QED
    BY <1>10, <2>2, <2>3, <2>4, RetireTypes DEF FinishFromTask, TypeInv, history
<1>11. ASSUME NEW c \in Cues, CallerResumes(c) PROVE TypeInv'
  <2>1. call[c] \in CallStates /\ op[c] \in OperationStates /\ call[c].cancellation \in BOOLEAN
    BY <1>t DEF CallStates
  <2>2. Finished(call[c], call[c].cancellation, ResultFor(op[c], call[c].cancellation)) \in CallStates
    BY Zenon, <2>1, OperationTypes, FinishedTypes DEF Outcomes
  <2>3. CallerFinished(lifecycle[c]) \in Lifecycles
    BY <1>t, LifecycleTypes
  <2>4. QED
    BY <1>11, <2>2, <2>3 DEF CallerResumes, TypeInv, history
<1>12. ASSUME NEW c \in Cues, CallerCancels(c) PROVE TypeInv'
  <2>0. /\ call[c] \in CallStates /\ op[c] \in OperationStates
        /\ CallerFinished(lifecycle[c]) \in Lifecycles
    BY <1>t, LifecycleTypes
  <2>1. CASE /\ call' = [call EXCEPT ![c] = Finished(@, FALSE, "caller_cancelled")]
             /\ UNCHANGED <<scene, op, cued, signal, mailbox, lifecycle, claimed, owed>>
    <3>1. Finished(call[c], FALSE, "caller_cancelled") \in CallStates
      BY Zenon, <2>0, FinishedTypes DEF CallResults
    <3>2. QED
      BY Zenon, <1>12, <2>1, <3>1 DEF CallerCancels, TypeInv, history
  <2>2. CASE call[c].phase = "waiting"
    <3> DEFINE k == CASE op[c].phase = "terminal" -> Finished(call[c], FALSE, ResultFor(op[c], FALSE))
                      [] op[c].phase = "queued" -> Finished(call[c], TRUE, ResultFor(op'[c], TRUE))
                      [] OTHER -> [call[c] EXCEPT !.phase = "cancelling", !.cancellation = TRUE]
               l == IF op[c].phase \in {"terminal", "queued"}
                    THEN CallerFinished(CancelledLifecycle(c)) ELSE CancelledLifecycle(c)
    <3>1. /\ RequestCancel(c)
          /\ call' = [call EXCEPT ![c] = k]
          /\ lifecycle' = [lifecycle EXCEPT ![c] = l]
          /\ UNCHANGED <<task, cancelling, history>>
      BY ZenonT(30), <1>12, <2>2, <1>t DEF CallerCancels
    <3>2. op'[c] \in OperationStates /\ CancelledLifecycle(c) \in Lifecycles
      BY <3>1, RequestCancelTypes
    <3>3. k \in CallStates
      <4>1. ResultFor(op[c], FALSE) \in CallResults /\ ResultFor(op'[c], TRUE) \in CallResults
        BY Zenon, <2>0, <3>2, OperationTypes DEF Outcomes
      <4>2. /\ Finished(call[c], FALSE, ResultFor(op[c], FALSE)) \in CallStates
            /\ Finished(call[c], TRUE, ResultFor(op'[c], TRUE)) \in CallStates
        BY Zenon, <2>0, <4>1, FinishedTypes
      <4>3. [call[c] EXCEPT !.phase = "cancelling", !.cancellation = TRUE] \in CallStates
        BY Zenon, <2>0, CallTypes DEF CallPhases
      <4>4. QED
        BY Zenon, <4>2, <4>3
    <3>4. l \in Lifecycles
      BY <3>2, LifecycleTypes
    <3> HIDE DEF k, l
    <3>5. QED
      BY <3>1, <3>3, <3>4, RequestCancelTypes DEF TypeInv, history
  <2>3. CASE /\ call' = [call EXCEPT ![c] = Finished(@, TRUE, ResultFor(op[c], TRUE))]
             /\ lifecycle' = [lifecycle EXCEPT ![c] = CallerFinished(@)]
             /\ UNCHANGED <<scene, op, cued, signal, mailbox, claimed, owed>>
    <3>1. Finished(call[c], TRUE, ResultFor(op[c], TRUE)) \in CallStates
      BY Zenon, <2>0, OperationTypes, FinishedTypes DEF Outcomes
    <3>2. QED
      BY Zenon, <1>12, <2>0, <2>3, <3>1 DEF CallerCancels, TypeInv, history
  <2>4. QED
    BY Zenon, <1>12, <2>1, <2>2, <2>3 DEF CallerCancels
<1>13. ASSUME NEW c \in Cues, CallerThrows(c) PROVE TypeInv'
  <2>1. Finished(call[c], call[c].cancellation, "abandoned") \in CallStates
    <3>1. call[c] \in CallStates /\ call[c].cancellation \in BOOLEAN
      BY Zenon, <1>t, CallTypes DEF CallPhases
    <3>2. QED
      BY <3>1, FinishedTypes DEF CallResults
  <2>2. CallerFinished(lifecycle[c]) \in Lifecycles
    BY <1>t, LifecycleTypes
  <2>3. QED
    BY <1>13, <2>1, <2>2 DEF CallerThrows, TypeInv, history
<1>14. ASSUME NEW c \in Cues, CallerCloses(c) PROVE TypeInv'
  <2>1. Finished(call[c], call[c].cancellation, "abandoned") \in CallStates
    <3>1. call[c] \in CallStates /\ call[c].cancellation \in BOOLEAN
      BY ZenonT(30), <1>t, CallTypes DEF CallPhases
    <3>2. QED
      BY <3>1, FinishedTypes DEF CallResults
  <2>2. RequestCancel(c)
    BY <1>14 DEF CallerCloses
  <2>3. CallerFinished(CancelledLifecycle(c)) \in Lifecycles
    BY <2>2, RequestCancelTypes, LifecycleTypes
  <2>4. QED
    BY <1>14, <2>1, <2>2, <2>3, RequestCancelTypes DEF CallerCloses, TypeInv, history
<1>15. ASSUME NEW n \in Scenes, CloseScene(n) PROVE TypeInv'
  <2> DEFINE s == scene[n]
             phase == CASE s.phase = "open" -> IF s.operations = {} THEN "closed" ELSE "closing"
                        [] s.phase = "admitting" -> "close_pending"
                        [] OTHER -> s.phase
  <2>1. s \in SceneStates /\ s.operations \subseteq Cues /\ phase \in ScenePhases
    BY <1>t DEF SceneStates, ScenePhases
  <2>2. scene' = [scene EXCEPT ![n] = [s EXCEPT !.driven = FALSE, !.phase = phase]]
    BY <1>15, <1>t DEF CloseScene
  <2>3. [s EXCEPT !.driven = FALSE, !.phase = phase] \in SceneStates
    BY Zenon, <2>1, SceneTypes
  <2>4. QED
    BY <1>15, <2>1, <2>2, <2>3 DEF CloseScene, TypeInv, history
<1>16. ASSUME NEW n \in Scenes, WaitClosed(n) PROVE TypeInv'
  <2>1. [scene[n] EXCEPT !.phase = "closed"] \in SceneStates
    BY <1>t DEF SceneStates, ScenePhases
  <2>2. QED
    BY <1>16, <2>1 DEF WaitClosed, TypeInv, history
<1>17. ASSUME NEW a \in Actors, DropActor(a) PROVE TypeInv'
  <2>1. [queue |-> <<>>, running |-> None, alive |-> FALSE] \in Mailboxes
    BY DEF Mailboxes
  <2>2. QED
    BY <1>17, <2>1 DEF DropActor, TypeInv, history
<1>18. CASE UNCHANGED vars
  BY <1>18 DEF TypeInv, vars
<1>19. QED
  BY <1>1, <1>2, <1>3, <1>4, <1>5, <1>6, <1>7, <1>8, <1>9, <1>10, <1>11, <1>12, <1>13, <1>14,
     <1>15, <1>16, <1>17, <1>18 DEF Next, Finale

\* The orchestration state keeps its types in every behaviour, for any number of Cues,
\* Actors and Scenes and any calling structure.
THEOREM TypeCorrect == Spec => []TypeInv
  BY TypeInit, TypeStep, PTL DEF Spec
=============================================================================
