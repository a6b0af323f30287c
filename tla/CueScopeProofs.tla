--------------------------- MODULE CueScopeProofs ---------------------------
(***************************************************************************)
(* The Scene of a Cue: ScopeInv is inductive, so a closed Scene has        *)
(* drained, a caller is woken last, and an admission holds its token.      *)
(***************************************************************************)
EXTENDS CueSlotProofs

\* The parts of ScopeInv.
ClosedIsEmpty == \A n \in Scenes : scene[n].phase = "closed" => scene[n].operations = {}
OneAdmission == \A c, d \in Cues :
                  call[c].phase = "admitting" /\ call[d].phase = "admitting" => c = d
Registered == \A c \in Cues : c \in scene[Home[c]].operations <=> Live(c)
CuedIsLive == \A c \in Cues : cued[c] => Live(c) /\ task[c] \in {"none", "pending"}
SignalledIsOver == \A c \in Cues : signal[c] \/ owed = c => op[c].phase = "terminal"

LEMMA ScopeParts ==
  /\ ScopeInv <=> /\ ClosedIsEmpty /\ OneAdmission /\ Registered /\ CuedIsLive
                  /\ SignalledIsOver /\ AdmissionHoldsItsToken
  /\ ScopeInv' <=> /\ ClosedIsEmpty' /\ OneAdmission' /\ Registered' /\ CuedIsLive'
                   /\ SignalledIsOver' /\ AdmissionHoldsItsToken'
  BY DEF ScopeInv, ClosedIsEmpty, OneAdmission, Registered, CuedIsLive, SignalledIsOver

\* The calls of a step that begins no admission and ends none.
NoAdmission == \A d \in Cues : call'[d].phase = "admitting" => call'[d] = call[d]

LEMMA NoAdmissionKeepsOne ==
  ASSUME OneAdmission, NoAdmission
  PROVE  OneAdmission'
  BY DEF OneAdmission, NoAdmission

\* operation_finished, from complete_terminal_action, takes the one operation that ends
\* out of its Scene, and closes a closing Scene with the last of them.
LEMMA RetireKeepsScopes ==
  ASSUME TypeInv, ScopeInv, NEW c \in Cues, Retire(c), NoAdmission,
         op'[c].phase = "terminal", \A d \in Cues : d # c => op'[d] = op[d],
         ~cued'[c], \A d \in Cues : d # c => cued'[d] = cued[d],
         UNCHANGED task
  PROVE  ScopeInv'
<1> DEFINE h == Home[c]
           s == Deregister(scene[h], c)
<1>0. /\ None \notin Cues
      /\ \A d \in Cues : Home[d] \in Scenes
      /\ scene[h] \in SceneStates
  BY OrchestrationAssumption DEF TypeInv
<1>1. /\ s.operations = scene[h].operations \ {c}
      /\ s.phase = IF scene[h].phase = "closing" /\ scene[h].operations \subseteq {c}
                   THEN "closed" ELSE scene[h].phase
      /\ s.token = scene[h].token
  BY <1>0, DeregisterFacts
<1>2. /\ scene'[h] = s /\ \A n \in Scenes : n # h => scene'[n] = scene[n]
      /\ \A d \in Cues : signal'[d] => signal[d] \/ d = owed \/ d = c
      /\ owed' = None \/ owed' = c
  BY <1>0 DEF Retire, TypeInv
<1> HIDE DEF s
<1>3. ClosedIsEmpty'
  BY <1>0, <1>1, <1>2, ScopeParts DEF ClosedIsEmpty
<1>4. OneAdmission'
  BY ScopeParts, NoAdmissionKeepsOne
<1>5. Registered'
  <2> SUFFICES ASSUME NEW d \in Cues PROVE d \in scene'[Home[d]].operations <=> Live(d)'
    BY DEF Registered
  <2>1. d \in scene[Home[d]].operations <=> Live(d)
    BY ScopeParts DEF Registered
  <2>2. CASE d = c
    BY <1>1, <1>2, <2>2 DEF Live
  <2>3. CASE d # c
    BY <1>0, <1>1, <1>2, <2>1, <2>3 DEF Live
  <2>4. QED
    BY <2>2, <2>3
<1>6. CuedIsLive'
  BY ScopeParts DEF CuedIsLive, Live
<1>7. SignalledIsOver'
  BY <1>0, <1>2, ScopeParts DEF SignalledIsOver
<1>8. AdmissionHoldsItsToken'
  BY <1>0, <1>1, <1>2, ScopeParts DEF AdmissionHoldsItsToken, NoAdmission
<1>9. QED
  BY <1>3, <1>4, <1>5, <1>6, <1>7, <1>8, ScopeParts

\* A step that leaves the Scenes and the signals alone and moves an operation at most
\* from one live phase to another keeps ScopeInv.
LEMMA QuietKeepsScopes ==
  ASSUME ScopeInv, NoAdmission, UNCHANGED <<scene, owed>>,
         \A d \in Cues : \/ op'[d].phase = op[d].phase
                         \/ op[d].phase = "running" /\ op'[d].phase = "cancelling",
         \A d \in Cues : cued'[d] => cued[d] /\ task'[d] = task[d],
         \A d \in Cues : signal'[d] => signal[d]
  PROVE  ScopeInv'
<1>1. ClosedIsEmpty'
  BY ScopeParts DEF ClosedIsEmpty
<1>2. OneAdmission'
  BY ScopeParts, NoAdmissionKeepsOne
<1>3. Registered'
  BY ScopeParts DEF Registered, Live
<1>4. CuedIsLive'
  BY ScopeParts DEF CuedIsLive, Live
<1>5. SignalledIsOver'
  BY ScopeParts DEF SignalledIsOver
<1>6. AdmissionHoldsItsToken'
  BY ScopeParts DEF AdmissionHoldsItsToken, NoAdmission
<1>7. QED
  BY <1>1, <1>2, <1>3, <1>4, <1>5, <1>6, ScopeParts

\* A step that changes only the phases of Scenes keeps ScopeInv when it closes empty
\* Scenes only.
LEMMA SceneKeepsScopes ==
  ASSUME TypeInv, ScopeInv, OneAdmission', AdmissionHoldsItsToken',
         UNCHANGED <<op, task, cued, signal, owed>>,
         \A n \in Scenes : /\ scene'[n].operations = scene[n].operations
                           /\ scene'[n].phase = "closed"
                              => scene[n].phase = "closed" \/ scene[n].operations = {}
  PROVE  ScopeInv'
<1>1. \A d \in Cues : Home[d] \in Scenes
  BY OrchestrationAssumption
<1>2. ClosedIsEmpty'
  BY ScopeParts DEF ClosedIsEmpty
<1>3. Registered'
  BY <1>1, ScopeParts DEF Registered, Live
<1>4. CuedIsLive' /\ SignalledIsOver'
  BY ScopeParts DEF CuedIsLive, SignalledIsOver, Live
<1>5. QED
  BY <1>2, <1>3, <1>4, ScopeParts

\* request_cancel, whoever calls it, keeps ScopeInv.
LEMMA RequestCancelKeepsScopes ==
  ASSUME TypeInv, ScopeInv, NEW c \in Cues, RequestCancel(c), NoAdmission, UNCHANGED task
  PROVE  ScopeInv'
<1>1. CASE op[c].phase = "queued"
  <2>1. /\ Retire(c) /\ op'[c].phase = "terminal" /\ \A d \in Cues : d # c => op'[d] = op[d]
        /\ ~cued'[c] /\ \A d \in Cues : d # c => cued'[d] = cued[d]
    BY <1>1 DEF RequestCancel, TypeInv, Terminated
  <2>2. QED
    BY <2>1, RetireKeepsScopes
<1>2. CASE op[c].phase # "queued"
  <2>1. /\ UNCHANGED <<scene, owed>> /\ UNCHANGED <<cued, signal>>
        /\ \A d \in Cues : \/ op'[d].phase = op[d].phase
                           \/ op[d].phase = "running" /\ op'[d].phase = "cancelling"
    BY <1>2, CancelPhases
  <2>2. /\ \A d \in Cues : cued'[d] => cued[d] /\ task'[d] = task[d]
        /\ \A d \in Cues : signal'[d] => signal[d]
    BY <2>1
  <2>3. QED
    BY Zenon, <2>1, <2>2, QuietKeepsScopes
<1>3. QED
  BY <1>1, <1>2
-----------------------------------------------------------------------------
LEMMA ScopeInit == Init => ScopeInv
  BY OrchestrationAssumption DEF Init, ScopeInv, AdmissionHoldsItsToken, Live

LEMMA ScopeStep == TypeInv /\ SlotInv /\ ScopeInv /\ [Next]_vars => ScopeInv'
<1> SUFFICES ASSUME TypeInv, SlotInv, ScopeInv, [Next]_vars PROVE ScopeInv'
  OBVIOUS
<1>c. /\ \A c \in Cues : call[c] \in CallStates /\ op[c] \in OperationStates
      /\ \A n \in Scenes : scene[n] \in SceneStates
      /\ \A c \in Cues : Home[c] \in Scenes
      /\ None \notin Cues
  BY OrchestrationAssumption DEF TypeInv
<1>q. ASSUME NoAdmission, UNCHANGED <<scene, op, task, cued, signal, owed>> PROVE ScopeInv'
  <2>1. /\ \A d \in Cues : \/ op'[d].phase = op[d].phase
                           \/ op[d].phase = "running" /\ op'[d].phase = "cancelling"
        /\ \A d \in Cues : cued'[d] => cued[d] /\ task'[d] = task[d]
        /\ \A d \in Cues : signal'[d] => signal[d]
        /\ UNCHANGED <<scene, owed>>
    BY <1>q
  <2>2. QED
    BY Zenon, <1>q, <2>1, QuietKeepsScopes
<1>f. \A c \in Cues : \A cancellation, result : Finished(call[c], cancellation, result).phase = "done"
  BY <1>c DEF Finished, CallStates
<1>1. CASE CancelNext
  <2>1. PICK c \in cancelling : RequestCancel(c) /\ UNCHANGED <<call, task, history>>
    BY <1>1 DEF CancelNext
  <2>2. c \in Cues /\ NoAdmission /\ UNCHANGED task
    BY <2>1 DEF TypeInv, NoAdmission
  <2>3. QED
    BY <2>1, <2>2, RequestCancelKeepsScopes
<1>2. CASE DispatchScheduled
  <2> DEFINE c == claimed
  <2>1. c \in Cues /\ op[c].phase = "queued"
    BY <1>2 DEF DispatchScheduled, TypeInv, SlotInv, ClaimHoldsSlot
  <2>2. /\ [op[c] EXCEPT !.phase = "running"].phase = "running"
        /\ [op[c] EXCEPT !.phase = "cancelling", !.intent = "attachment"].phase = "cancelling"
    BY <1>c, <2>1 DEF OperationStates
  <2>3. op'[c].phase \in {"running", "cancelling"} /\ \A d \in Cues : d # c => op'[d] = op[d]
    BY Zenon, <1>2, <2>1, <2>2 DEF DispatchScheduled, TypeInv
  <2>4. /\ task'[c] = "pending" /\ \A d \in Cues : d # c => task'[d] = task[d]
        /\ UNCHANGED <<scene, call, cued>> /\ owed' = None
        /\ \A d \in Cues : signal'[d] => signal[d] \/ d = owed
    BY <1>2, <2>1 DEF DispatchScheduled, TypeInv
  <2> HIDE DEF c
  <2>5. ClosedIsEmpty' /\ OneAdmission' /\ AdmissionHoldsItsToken'
    BY <2>4, ScopeParts DEF ClosedIsEmpty, OneAdmission, AdmissionHoldsItsToken
  <2>6. Registered' /\ CuedIsLive'
    BY <2>1, <2>3, <2>4, ScopeParts DEF Registered, CuedIsLive, Live
  <2>7. SignalledIsOver'
    <3> SUFFICES ASSUME NEW d \in Cues, signal'[d] \/ owed' = d PROVE op'[d].phase = "terminal"
      BY DEF SignalledIsOver
    <3>1. op[d].phase = "terminal"
      BY <1>c, <2>4, ScopeParts DEF SignalledIsOver
    <3>2. QED
      BY <2>1, <2>3, <3>1
  <2>8. QED
    BY <2>5, <2>6, <2>7, ScopeParts
<1>3. CASE DispatchFailed
  <2> DEFINE c == claimed
  <2>1. c \in Cues /\ Retire(c) /\ NoAdmission /\ UNCHANGED task
    BY <1>3 DEF DispatchFailed, TypeInv, NoAdmission
  <2>2. PICK outcome : op' = [op EXCEPT ![c] = Terminated(outcome)]
    BY Zenon, <1>3 DEF DispatchFailed
  <2>3. /\ op'[c].phase = "terminal" /\ \A d \in Cues : d # c => op'[d] = op[d]
        /\ ~cued'[c] /\ \A d \in Cues : d # c => cued'[d] = cued[d]
    BY <1>3, <2>1, <2>2 DEF DispatchFailed, Terminated, TypeInv
  <2>4. QED
    BY <2>1, <2>3, RetireKeepsScopes
<1>4. ASSUME NEW c \in Cues, CreateCall(c) PROVE ScopeInv'
  <2>1. NoAdmission
    BY <1>4, <1>c DEF CreateCall, NoAdmission, TypeInv, CallStates
  <2>2. QED
    BY <1>4, <2>1, <1>q DEF CreateCall
<1>5. ASSUME NEW c \in Cues, BeginAdmission(c) PROVE ScopeInv'
  <2> DEFINE h == Home[c]
  <2>1. /\ call'[c].phase = "admitting" /\ call'[c].token = scene[h].nextToken
        /\ \A d \in Cues : d # c => call'[d].phase # "admitting"
    <3>1. /\ [call[c] EXCEPT !.phase = "admitting", !.token = scene[h].nextToken,
                             !.index = scene[h].counter].phase = "admitting"
          /\ [call[c] EXCEPT !.phase = "admitting", !.token = scene[h].nextToken,
                             !.index = scene[h].counter].token = scene[h].nextToken
      BY <1>c DEF CallStates
    <3>2. QED
      BY <1>5, <3>1 DEF BeginAdmission, Idle, TypeInv
  <2>2. /\ scene'[h].phase = "admitting" /\ scene'[h].token = scene[h].nextToken
        /\ scene'[h].operations = scene[h].operations
        /\ \A n \in Scenes : n # h => scene'[n] = scene[n]
    <3> DEFINE s == [scene[h] EXCEPT !.phase = "admitting", !.token = scene[h].nextToken,
                                     !.nextToken = (scene[h].nextToken + 1) % TokenModulus]
    <3>1. /\ s.phase = "admitting" /\ s.token = scene[h].nextToken
          /\ s.operations = scene[h].operations
      BY <1>c DEF SceneStates
    <3>2. scene' = [scene EXCEPT ![h] = s]
      BY <1>5 DEF BeginAdmission
    <3> HIDE DEF s
    <3>3. QED
      BY <1>c, <3>1, <3>2 DEF TypeInv
  <2>3. OneAdmission' /\ AdmissionHoldsItsToken'
    BY <2>1, <2>2 DEF OneAdmission, AdmissionHoldsItsToken
  <2>4. UNCHANGED <<op, task, cued, signal, owed>>
    BY <1>5 DEF BeginAdmission
  <2>5. \A n \in Scenes : /\ scene'[n].operations = scene[n].operations
                          /\ scene'[n].phase = "closed"
                             => scene[n].phase = "closed" \/ scene[n].operations = {}
    BY <2>2
  <2>6. QED
    BY <2>3, <2>4, <2>5, SceneKeepsScopes
<1>6. ASSUME NEW c \in Cues, RefuseAdmission(c) PROVE ScopeInv'
  <2>1. NoAdmission
    BY <1>6, <1>c DEF RefuseAdmission, NoAdmission, TypeInv, CallStates
  <2>2. QED
    BY <1>6, <2>1, <1>q DEF RefuseAdmission
<1>7. ASSUME NEW c \in Cues, AbortAdmission(c) PROVE ScopeInv'
  <2> DEFINE h == Home[c]
  <2>1. call'[c].phase = "done" /\ \A d \in Cues : d # c => call'[d] = call[d]
    BY <1>7, <1>c DEF AbortAdmission, TypeInv, CallStates
  <2>2. \A d \in Cues : call'[d].phase # "admitting"
    BY <1>7, <2>1, ScopeParts DEF AbortAdmission, OneAdmission
  <2>3. /\ \E phase \in ScenePhases \ {"closed"} :
             scene' = [scene EXCEPT ![h] = [scene[h] EXCEPT !.phase = phase]]
        /\ UNCHANGED <<op, task, cued, signal, owed>>
    <3>1. scene[h].phase \in {"admitting", "close_pending"}
      BY <1>7, ScopeParts DEF AbortAdmission, AdmissionHoldsItsToken
    <3>2. QED
      BY Zenon, <1>7, <1>c, <3>1 DEF AbortAdmission, ScenePhases
  <2>4. \A n \in Scenes : /\ scene'[n].operations = scene[n].operations
                          /\ scene'[n].phase = "closed" => scene[n].phase = "closed"
    <3>1. PICK phase \in ScenePhases \ {"closed"} :
             scene' = [scene EXCEPT ![h] = [scene[h] EXCEPT !.phase = phase]]
      BY Zenon, <2>3
    <3>2. /\ [scene[h] EXCEPT !.phase = phase].operations = scene[h].operations
          /\ [scene[h] EXCEPT !.phase = phase].phase # "closed"
      BY <1>c DEF SceneStates
    <3>3. QED
      BY <1>c, <3>1, <3>2 DEF TypeInv
  <2>5. OneAdmission' /\ AdmissionHoldsItsToken'
    BY <2>2 DEF OneAdmission, AdmissionHoldsItsToken
  <2>6. QED
    BY <2>3, <2>4, <2>5, SceneKeepsScopes
<1>8. ASSUME NEW c \in Cues, CommitAdmission(c) PROVE ScopeInv'
  <2> DEFINE h == Home[c]
             admitted == [scene[h] EXCEPT !.counter = call[c].index + 1, !.operations = @ \cup {c}]
  <2>1. /\ call'[c].phase = "waiting" /\ \A d \in Cues : d # c => call'[d] = call[d]
        /\ op'[c].phase = "queued" /\ \A d \in Cues : d # c => op'[d] = op[d]
        /\ cued'[c] /\ \A d \in Cues : d # c => cued'[d] = cued[d]
        /\ UNCHANGED <<task, signal, owed>>
    BY <1>8, <1>c DEF CommitAdmission, Registering, TypeInv, CallStates, OperationStates
  <2>2. op[c].phase = "none" /\ task[c] = "none"
    BY <1>8 DEF CommitAdmission, Registering, SlotInv, CuesAreAccounted
  <2>3. /\ scene'[h].operations = scene[h].operations \cup {c}
        /\ scene'[h].phase # "closed"
        /\ \A n \in Scenes : n # h => scene'[n] = scene[n]
    <3>1. /\ [admitted EXCEPT !.phase = "open"].operations = scene[h].operations \cup {c}
          /\ [admitted EXCEPT !.phase = "open"].phase = "open"
          /\ [admitted EXCEPT !.phase = "closing"].operations = scene[h].operations \cup {c}
          /\ [admitted EXCEPT !.phase = "closing"].phase = "closing"
      BY <1>c DEF SceneStates
    <3>2. \/ scene' = [scene EXCEPT ![h] = [admitted EXCEPT !.phase = "open"]]
          \/ scene' = [scene EXCEPT ![h] = [admitted EXCEPT !.phase = "closing"]]
      BY <1>8 DEF CommitAdmission, Registering
    <3> HIDE DEF admitted
    <3>3. QED
      BY Zenon, <1>c, <3>1, <3>2 DEF TypeInv
  <2>4. \A d \in Cues : call'[d].phase # "admitting"
    BY <1>8, <2>1, ScopeParts DEF CommitAdmission, Registering, OneAdmission
  <2>5. ClosedIsEmpty' /\ OneAdmission' /\ AdmissionHoldsItsToken'
    BY <2>3, <2>4, ScopeParts DEF ClosedIsEmpty, OneAdmission, AdmissionHoldsItsToken
  <2>6. Registered'
    BY <1>c, <2>1, <2>3, ScopeParts DEF Registered, Live
  <2>7. CuedIsLive' /\ SignalledIsOver'
    BY <2>1, <2>2, ScopeParts DEF CuedIsLive, SignalledIsOver, Live
  <2>8. QED
    BY <2>5, <2>6, <2>7, ScopeParts
<1>9. ASSUME NEW c \in Cues, TaskEnds(c) PROVE ScopeInv'
  <2>1. /\ NoAdmission /\ UNCHANGED <<scene, owed>>
        /\ \A d \in Cues : \/ op'[d].phase = op[d].phase
                           \/ op[d].phase = "running" /\ op'[d].phase = "cancelling"
        /\ \A d \in Cues : cued'[d] => cued[d] /\ task'[d] = task[d]
        /\ \A d \in Cues : signal'[d] => signal[d]
    BY <1>9 DEF TaskEnds, NoAdmission, TypeInv
  <2>2. QED
    BY Zenon, <2>1, QuietKeepsScopes
<1>10. ASSUME NEW c \in Cues, FinishFromTask(c) PROVE ScopeInv'
  <2>1. Retire(c) /\ NoAdmission /\ UNCHANGED <<task, cued>> /\ task[c] \in TaskResults
    BY <1>10 DEF FinishFromTask, NoAdmission
  <2>2. PICK outcome : op' = [op EXCEPT ![c] = Terminated(outcome)]
    BY Zenon, <1>10 DEF FinishFromTask
  <2>3. op'[c].phase = "terminal" /\ \A d \in Cues : d # c => op'[d] = op[d]
    BY <2>2 DEF Terminated, TypeInv
  <2>4. ~cued'[c] /\ \A d \in Cues : d # c => cued'[d] = cued[d]
    BY <2>1, ScopeParts DEF CuedIsLive, TaskResults
  <2>5. QED
    BY <2>1, <2>3, <2>4, RetireKeepsScopes
<1>11. ASSUME NEW c \in Cues, CallerResumes(c) PROVE ScopeInv'
  <2>1. NoAdmission
    BY <1>11, <1>f DEF CallerResumes, NoAdmission, TypeInv
  <2>2. QED
    BY <1>11, <2>1, <1>q DEF CallerResumes
<1>12. ASSUME NEW c \in Cues, CallerCancels(c) PROVE ScopeInv'
  <2>1. /\ UNCHANGED task
        /\ \/ UNCHANGED <<scene, op, cued, signal, mailbox, claimed, owed>>
           \/ RequestCancel(c)
    BY Zenon, <1>12 DEF CallerCancels
  <2>2. \/ call' = [call EXCEPT ![c] = Finished(@, FALSE, "caller_cancelled")]
        \/ call' = [call EXCEPT ![c] = Finished(@, TRUE, ResultFor(op[c], TRUE))]
        \/ call' = [call EXCEPT ![c] = Finished(@, FALSE, ResultFor(op[c], FALSE))]
        \/ call' = [call EXCEPT ![c] = Finished(@, TRUE, ResultFor(op'[c], TRUE))]
        \/ call' = [call EXCEPT ![c] = [@ EXCEPT !.phase = "cancelling", !.cancellation = TRUE]]
    BY Zenon, <1>12 DEF CallerCancels
  <2>3. [call[c] EXCEPT !.phase = "cancelling", !.cancellation = TRUE].phase = "cancelling"
    BY <1>c DEF CallStates
  <2>4. call'[c].phase \in {"cancelling", "done"} /\ \A d \in Cues : d # c => call'[d] = call[d]
    <3>1. \A d \in Cues : d # c => call'[d] = call[d]
      BY Zenon, <2>2 DEF TypeInv
    <3>2. \/ call'[c] = Finished(call[c], FALSE, "caller_cancelled")
          \/ call'[c] = Finished(call[c], TRUE, ResultFor(op[c], TRUE))
          \/ call'[c] = Finished(call[c], FALSE, ResultFor(op[c], FALSE))
          \/ call'[c] = Finished(call[c], TRUE, ResultFor(op'[c], TRUE))
          \/ call'[c] = [call[c] EXCEPT !.phase = "cancelling", !.cancellation = TRUE]
      BY Zenon, <2>2 DEF TypeInv
    <3>3. \A cancellation, result : Finished(call[c], cancellation, result).phase = "done"
      BY <1>f
    <3>4. call'[c].phase \in {"cancelling", "done"}
      <4>1. CASE call'[c] = [call[c] EXCEPT !.phase = "cancelling", !.cancellation = TRUE]
        BY <2>3, <4>1
      <4>2. CASE \E cancellation, result : call'[c] = Finished(call[c], cancellation, result)
        BY <3>3, <4>2
      <4>3. QED
        BY Zenon, <3>2, <4>1, <4>2
    <3>5. QED
      BY <3>1, <3>4
  <2>5. NoAdmission
    BY <2>4 DEF NoAdmission
  <2>6. CASE RequestCancel(c)
    BY <2>1, <2>5, <2>6, RequestCancelKeepsScopes
  <2>7. CASE UNCHANGED <<scene, op, cued, signal, mailbox, claimed, owed>>
    BY <2>1, <2>5, <2>7, <1>q
  <2>8. QED
    BY <2>1, <2>6, <2>7
<1>13. ASSUME NEW c \in Cues, CallerThrows(c) PROVE ScopeInv'
  <2>1. NoAdmission
    BY <1>13, <1>f DEF CallerThrows, NoAdmission, TypeInv
  <2>2. QED
    BY <1>13, <2>1, <1>q DEF CallerThrows
<1>14. ASSUME NEW c \in Cues, CallerCloses(c) PROVE ScopeInv'
  <2>1. RequestCancel(c) /\ UNCHANGED task
    BY <1>14 DEF CallerCloses
  <2>2. NoAdmission
    BY <1>14, <1>f DEF CallerCloses, NoAdmission, TypeInv
  <2>3. QED
    BY <2>1, <2>2, RequestCancelKeepsScopes
<1>15. ASSUME NEW n \in Scenes, CloseScene(n) PROVE ScopeInv'
  <2> DEFINE s == scene[n]
             phase == CASE s.phase = "open" -> IF s.operations = {} THEN "closed" ELSE "closing"
                        [] s.phase = "admitting" -> "close_pending"
                        [] OTHER -> s.phase
  <2>1. /\ [s EXCEPT !.driven = FALSE, !.phase = phase].phase = phase
        /\ [s EXCEPT !.driven = FALSE, !.phase = phase].token = s.token
        /\ [s EXCEPT !.driven = FALSE, !.phase = phase].operations = s.operations
    BY <1>c DEF SceneStates
  <2>2. scene' = [scene EXCEPT ![n] = [s EXCEPT !.driven = FALSE, !.phase = phase]]
        /\ UNCHANGED <<call, op, task, cued, signal, owed>>
    BY <1>15 DEF CloseScene
  <2>3. /\ scene'[n].phase = phase /\ scene'[n].token = s.token /\ scene'[n].operations = s.operations
        /\ \A o \in Scenes : o # n => scene'[o] = scene[o]
    BY <2>1, <2>2 DEF TypeInv
  <2>4. /\ phase = "closed" => s.phase = "closed" \/ s.operations = {}
        /\ s.phase \in {"admitting", "close_pending"} => phase = "close_pending"
    OBVIOUS
  <2> HIDE DEF phase
  <2>5. OneAdmission' /\ AdmissionHoldsItsToken'
    BY <1>c, <2>2, <2>3, <2>4, ScopeParts DEF OneAdmission, AdmissionHoldsItsToken
  <2>6. \A o \in Scenes : /\ scene'[o].operations = scene[o].operations
                          /\ scene'[o].phase = "closed"
                             => scene[o].phase = "closed" \/ scene[o].operations = {}
    BY <2>3, <2>4
  <2>7. QED
    BY <2>2, <2>5, <2>6, SceneKeepsScopes
<1>16. ASSUME NEW n \in Scenes, WaitClosed(n) PROVE ScopeInv'
  <2>1. /\ [scene[n] EXCEPT !.phase = "closed"].token = scene[n].token
        /\ [scene[n] EXCEPT !.phase = "closed"].operations = scene[n].operations
    BY <1>c DEF SceneStates
  <2>2. /\ scene'[n].operations = scene[n].operations /\ scene[n].operations = {}
        /\ scene[n].phase = "closing"
        /\ \A o \in Scenes : o # n => scene'[o] = scene[o]
        /\ UNCHANGED <<call, op, task, cued, signal, owed>>
    BY <1>16, <2>1 DEF WaitClosed, TypeInv
  <2>3. OneAdmission' /\ AdmissionHoldsItsToken'
    BY <1>c, <2>2, ScopeParts DEF OneAdmission, AdmissionHoldsItsToken
  <2>4. \A o \in Scenes : /\ scene'[o].operations = scene[o].operations
                          /\ scene'[o].phase = "closed"
                             => scene[o].phase = "closed" \/ scene[o].operations = {}
    BY <2>2
  <2>5. QED
    BY <2>2, <2>3, <2>4, SceneKeepsScopes
<1>17. ASSUME NEW a \in Actors, DropActor(a) PROVE ScopeInv'
  <2>1. NoAdmission /\ UNCHANGED <<scene, op, task, cued, signal, owed>>
    BY <1>17 DEF DropActor, NoAdmission
  <2>2. QED
    BY <2>1, <1>q
<1>18. CASE UNCHANGED vars
  <2>1. NoAdmission /\ UNCHANGED <<scene, op, task, cued, signal, owed>>
    BY <1>18 DEF vars, NoAdmission
  <2>2. QED
    BY <2>1, <1>q
<1>19. QED
  BY <1>1, <1>2, <1>3, <1>4, <1>5, <1>6, <1>7, <1>8, <1>9, <1>10, <1>11, <1>12, <1>13, <1>14,
     <1>15, <1>16, <1>17, <1>18 DEF Next, Finale

\* The Scenes agree with the operations, the admissions and the signals in every
\* reachable state.
THEOREM ScopesAgree == Spec => []ScopeInv
<1>1. Init => ScopeInv
  BY ScopeInit
<1>2. TypeInv /\ SlotInv /\ ScopeInv /\ [Next]_vars => ScopeInv'
  BY ScopeStep
<1>3. QED
  BY <1>1, <1>2, TypeCorrect, SlotsAgree, PTL DEF Spec

\* A closed Scene has drained: no Cue of it is live, runs or is being admitted.
THEOREM ClosedScenesAreDrained == Spec => []ClosedSceneIsDrained
<1>1. SlotInv /\ ScopeInv => ClosedSceneIsDrained
  BY OrchestrationAssumption
     DEF SlotInv, CuesAreAccounted, ScopeInv, AdmissionHoldsItsToken, ClosedSceneIsDrained, Live
<1>2. QED
  BY <1>1, SlotsAgree, ScopesAgree, PTL

\* The caller of a Cue is woken last, after the operation left the mailbox and the Scene.
THEOREM CallersAreWokenLast == Spec => []SignalledLast
<1>1. TypeInv /\ SlotInv /\ ScopeInv => SignalledLast
  <2> SUFFICES ASSUME TypeInv, SlotInv, ScopeInv, NEW c \in Cues, signal[c]
               PROVE  /\ op[c].phase = "terminal" /\ task[c] # "pending" /\ ~cued[c]
                      /\ c \notin scene[Home[c]].operations
                      /\ mailbox[Target[c]].running # c /\ ~Queued(mailbox[Target[c]], c)
    BY DEF SignalledLast
  <2>1. op[c].phase = "terminal" /\ ~cued[c] /\ c \notin scene[Home[c]].operations
    BY DEF ScopeInv, Live
  <2>2. task[c] # "pending"
    BY <2>1 DEF SlotInv, CuesAreAccounted
  <2>3. Target[c] \in Actors /\ c # None /\ claimed # c
    BY <2>1, OrchestrationAssumption DEF SlotInv, ClaimHoldsSlot
  <2>4. mailbox[Target[c]].running # c /\ ~Queued(mailbox[Target[c]], c)
    BY <2>1, <2>3 DEF SlotInv, MailboxesAreOrdered, Queued
  <2>5. QED
    BY <2>1, <2>2, <2>4
<1>2. QED
  BY <1>1, TypeCorrect, SlotsAgree, ScopesAgree, PTL

\* commit finds the token of its own admission, so its panics are unreachable.
THEOREM AdmissionsHoldTheirTokens == Spec => []AdmissionHoldsItsToken
<1>1. ScopeInv => AdmissionHoldsItsToken
  BY DEF ScopeInv
<1>2. QED
  BY <1>1, ScopesAgree, PTL
=============================================================================
