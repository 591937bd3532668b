---------------------------- MODULE WorkerProofs ----------------------------
(***************************************************************************)
(* Theorems about JobGroup, for every set of workers, and about            *)
(* WorkerRunner, for every tree of workers.                                *)
(***************************************************************************)
EXTENDS JobGroup, WorkerRunner, TLAPS

USE JobAssumption DEF Receivers, Cancellers, workerVars, receiverVars,
    groupVars, historyVars

(* Messages, and the two ways an inbox changes.                            *)

LEMMA MessageFacts ==
    /\ \A m \in Message : m # NoMessage /\ m.from \in Workers
    /\ \A w \in Workers, e \in BOOLEAN : [from |-> w, error |-> e] \in Message
  BY DEF Message, NoMessage

LEMMA SendKeepsType ==
    ASSUME InboxType, NEW w \in Workers, NEW e \in BOOLEAN,
           NEW r \in Receivers, Send(w, e, r)
    PROVE  InboxType'
  BY MessageFacts DEF InboxType, Send

LEMMA ReceiveTypes ==
    ASSUME InboxType, NEW r \in Receivers, inbox[r] # <<>>
    PROVE  Head(inbox[r]) \in Message /\ Tail(inbox[r]) \in Seq(Message)
<1>1. inbox[r] \in Seq(Message)
  BY DEF InboxType
<1> QED
  BY <1>1

(* Each part of TypeOK is preserved, with one step per action.             *)

LEMMA WorkerTypeStep ==
    ASSUME TypeOK, [Next]_vars PROVE WorkerType'
<1> USE DEF TypeOK, WorkerType
<1>1. CASE \E w \in Workers : AcceptJob(w) \/ HandlerEnds(w)
  BY <1>1 DEF AcceptJob, HandlerEnds
<1>2. CASE \E w \in Workers : CancelArrives(w)
  BY <1>2 DEF CancelArrives
<1>3. CASE \E w \in Workers : HandlerCancelled(w)
  BY <1>3 DEF HandlerCancelled, SendResponse, Send
<1>4. CASE \E w \in Workers : CancelHookDone(w)
  BY <1>4 DEF CancelHookDone, SendResponse, Send
<1>5. CASE \E w \in Workers, error \in BOOLEAN, r \in Receivers :
            Respond(w, error, r)
  BY <1>5 DEF Respond, SendResponse, Send
<1>6. CASE \E w \in Workers : StreamEnd(w) \/ StopWorker(w)
  BY <1>6 DEF StreamEnd, StopWorker, SendResponse, Send
<1>7. CASE \E r \in Receivers : Receive(r)
  BY <1>7 DEF Receive
<1>8. CASE \E r \in Receivers : HookDone(r)
  BY <1>8 DEF HookDone, Track, Finish
<1>9. CASE \E r \in Receivers : ErrorHookDone(r)
  BY <1>9 DEF ErrorHookDone, TakeGroup, Finish
<1>10. CASE \E r \in Receivers : TimerJoined(r) \/ CompleteHookDone(r)
  BY <1>10 DEF TimerJoined, CompleteHookDone, Finish
<1>11. CASE CancellerStep
  BY <1>11 DEF CancellerStep, FinishCancel
<1>12. CASE TimerFires \/ OtherCancels
  BY <1>12 DEF TimerFires, OtherCancels, TakeGroup
<1>13. CASE CallerChoice \/ CallerReturns
  BY <1>13 DEF CallerChoice, CallerWaits, CallerRaises,
       CallerInterrupted, CallerReturns, TakeGroup
<1>14. CASE UNCHANGED vars
  BY <1>14 DEF vars
<1> QED
  BY <1>1, <1>2, <1>3, <1>4, <1>5, <1>6, <1>7, <1>8,
     <1>9, <1>10, <1>11, <1>12, <1>13, <1>14
     DEF Next, WorkerStep, HandlerChoice, ReceiverStep

LEMMA HistoryTypeStep ==
    ASSUME TypeOK, [Next]_vars PROVE HistoryType'
<1> USE DEF TypeOK, WorkerType, HistoryType
<1>1. CASE \E w \in Workers : AcceptJob(w) \/ HandlerEnds(w)
  BY <1>1 DEF AcceptJob, HandlerEnds
<1>2. CASE \E w \in Workers : CancelArrives(w)
  BY <1>2 DEF CancelArrives
<1>3. CASE \E w \in Workers : HandlerCancelled(w)
  BY <1>3 DEF HandlerCancelled, SendResponse, Send
<1>4. CASE \E w \in Workers : CancelHookDone(w)
  BY <1>4 DEF CancelHookDone, SendResponse, Send
<1>5. CASE \E w \in Workers, error \in BOOLEAN, r \in Receivers :
            Respond(w, error, r)
  BY <1>5 DEF Respond, SendResponse, Send
<1>6. CASE \E w \in Workers : StreamEnd(w) \/ StopWorker(w)
  BY <1>6 DEF StreamEnd, StopWorker, SendResponse, Send
<1>7. CASE \E r \in Receivers : Receive(r)
  BY <1>7 DEF Receive
<1>8. CASE \E r \in Receivers : HookDone(r)
  BY <1>8 DEF HookDone, Track, Finish
<1>9. CASE \E r \in Receivers : ErrorHookDone(r)
  BY <1>9 DEF ErrorHookDone, TakeGroup, Finish
<1>10. CASE \E r \in Receivers : TimerJoined(r) \/ CompleteHookDone(r)
  BY <1>10 DEF TimerJoined, CompleteHookDone, Finish
<1>11. CASE CancellerStep
  BY <1>11 DEF CancellerStep, FinishCancel
<1>12. CASE TimerFires \/ OtherCancels
  BY <1>12 DEF TimerFires, OtherCancels, TakeGroup
<1>13. CASE CallerChoice \/ CallerReturns
  BY <1>13 DEF CallerChoice, CallerWaits, CallerRaises,
       CallerInterrupted, CallerReturns, TakeGroup
<1>14. CASE UNCHANGED vars
  BY <1>14 DEF vars
<1> QED
  BY <1>1, <1>2, <1>3, <1>4, <1>5, <1>6, <1>7, <1>8,
     <1>9, <1>10, <1>11, <1>12, <1>13, <1>14
     DEF Next, WorkerStep, HandlerChoice, ReceiverStep

LEMMA InboxTypeStep ==
    ASSUME TypeOK, [Next]_vars PROVE InboxType'
<1> USE DEF TypeOK, WorkerType, InboxType
<1>1. CASE \E w \in Workers : AcceptJob(w) \/ HandlerEnds(w)
  BY <1>1 DEF AcceptJob, HandlerEnds
<1>2. CASE \E w \in Workers : CancelArrives(w)
  BY <1>2 DEF CancelArrives
<1>3. CASE \E w \in Workers : HandlerCancelled(w)
  BY <1>3, SendKeepsType DEF HandlerCancelled, SendResponse
<1>4. CASE \E w \in Workers : CancelHookDone(w)
  BY <1>4, SendKeepsType DEF CancelHookDone, SendResponse
<1>5. CASE \E w \in Workers, error \in BOOLEAN, r \in Receivers :
            Respond(w, error, r)
  BY <1>5, SendKeepsType DEF Respond, SendResponse
<1>6. CASE \E w \in Workers : StreamEnd(w) \/ StopWorker(w)
  BY <1>6, SendKeepsType DEF StreamEnd, StopWorker, SendResponse
<1>7. CASE \E r \in Receivers : Receive(r)
  BY <1>7, ReceiveTypes DEF Receive
<1>8. CASE \E r \in Receivers : HookDone(r)
  BY <1>8 DEF HookDone, Track, Finish
<1>9. CASE \E r \in Receivers : ErrorHookDone(r)
  BY <1>9 DEF ErrorHookDone, TakeGroup, Finish
<1>10. CASE \E r \in Receivers : TimerJoined(r) \/ CompleteHookDone(r)
  BY <1>10 DEF TimerJoined, CompleteHookDone, Finish
<1>11. CASE CancellerStep
  BY <1>11 DEF CancellerStep, FinishCancel
<1>12. CASE TimerFires \/ OtherCancels
  BY <1>12 DEF TimerFires, OtherCancels, TakeGroup
<1>13. CASE CallerChoice \/ CallerReturns
  BY <1>13 DEF CallerChoice, CallerWaits, CallerRaises,
       CallerInterrupted, CallerReturns, TakeGroup
<1>14. CASE UNCHANGED vars
  BY <1>14 DEF vars
<1> QED
  BY <1>1, <1>2, <1>3, <1>4, <1>5, <1>6, <1>7, <1>8,
     <1>9, <1>10, <1>11, <1>12, <1>13, <1>14
     DEF Next, WorkerStep, HandlerChoice, ReceiverStep

LEMMA ReceiverTypeStep ==
    ASSUME TypeOK, [Next]_vars PROVE ReceiverType'
<1> USE DEF TypeOK, ReceiverType
<1>1. CASE \E w \in Workers : AcceptJob(w) \/ HandlerEnds(w)
  BY <1>1 DEF AcceptJob, HandlerEnds
<1>2. CASE \E w \in Workers : CancelArrives(w)
  BY <1>2 DEF CancelArrives
<1>3. CASE \E w \in Workers : HandlerCancelled(w)
  BY <1>3 DEF HandlerCancelled, SendResponse, Send
<1>4. CASE \E w \in Workers : CancelHookDone(w)
  BY <1>4 DEF CancelHookDone, SendResponse, Send
<1>5. CASE \E w \in Workers, error \in BOOLEAN, r \in Receivers :
            Respond(w, error, r)
  BY <1>5 DEF Respond, SendResponse, Send
<1>6. CASE \E w \in Workers : StreamEnd(w) \/ StopWorker(w)
  BY <1>6 DEF StreamEnd, StopWorker, SendResponse, Send
<1>7. CASE \E r \in Receivers : Receive(r)
  BY <1>7, ReceiveTypes, MessageFacts DEF Receive
<1>8. CASE \E r \in Receivers : HookDone(r)
  BY <1>8 DEF HookDone, Track, Finish
<1>9. CASE \E r \in Receivers : ErrorHookDone(r)
  BY <1>9 DEF ErrorHookDone, TakeGroup, Finish
<1>10. CASE \E r \in Receivers : TimerJoined(r) \/ CompleteHookDone(r)
  BY <1>10 DEF TimerJoined, CompleteHookDone, Finish
<1>11. CASE CancellerStep
  BY <1>11 DEF CancellerStep, FinishCancel
<1>12. CASE TimerFires \/ OtherCancels
  BY <1>12 DEF TimerFires, OtherCancels, TakeGroup
<1>13. CASE CallerChoice \/ CallerReturns
  BY <1>13 DEF CallerChoice, CallerWaits, CallerRaises,
       CallerInterrupted, CallerReturns, TakeGroup
<1>14. CASE UNCHANGED vars
  BY <1>14 DEF vars
<1> QED
  BY <1>1, <1>2, <1>3, <1>4, <1>5, <1>6, <1>7, <1>8,
     <1>9, <1>10, <1>11, <1>12, <1>13, <1>14
     DEF Next, WorkerStep, HandlerChoice, ReceiverStep

LEMMA GroupTypeStep ==
    ASSUME TypeOK, [Next]_vars PROVE GroupType'
<1> USE DEF TypeOK, ReceiverType, GroupType
<1>1. CASE \E w \in Workers : AcceptJob(w) \/ HandlerEnds(w)
  BY <1>1 DEF AcceptJob, HandlerEnds
<1>2. CASE \E w \in Workers : CancelArrives(w)
  BY <1>2 DEF CancelArrives
<1>3. CASE \E w \in Workers : HandlerCancelled(w)
  BY <1>3 DEF HandlerCancelled, SendResponse, Send
<1>4. CASE \E w \in Workers : CancelHookDone(w)
  BY <1>4 DEF CancelHookDone, SendResponse, Send
<1>5. CASE \E w \in Workers, error \in BOOLEAN, r \in Receivers :
            Respond(w, error, r)
  BY <1>5 DEF Respond, SendResponse, Send
<1>6. CASE \E w \in Workers : StreamEnd(w) \/ StopWorker(w)
  BY <1>6 DEF StreamEnd, StopWorker, SendResponse, Send
<1>7. CASE \E r \in Receivers : Receive(r)
  BY <1>7 DEF Receive
<1>8. CASE \E r \in Receivers : HookDone(r)
  BY <1>8, MessageFacts DEF HookDone, Track, Finish
<1>9. CASE \E r \in Receivers : ErrorHookDone(r)
  BY <1>9 DEF ErrorHookDone, TakeGroup, Finish
<1>10. CASE \E r \in Receivers : TimerJoined(r) \/ CompleteHookDone(r)
  <2>1. CASE \E r \in Receivers : TimerJoined(r)
    BY <2>1 DEF TimerJoined
  <2>2. CASE \E r \in Receivers : CompleteHookDone(r)
    BY <2>2 DEF CompleteHookDone
  <2> QED
    BY <1>10, <2>1, <2>2
<1>11. CASE CancellerStep
  BY <1>11 DEF CancellerStep, FinishCancel
<1>12. CASE TimerFires \/ OtherCancels
  BY <1>12 DEF TimerFires, OtherCancels, TakeGroup
<1>13. CASE CallerChoice \/ CallerReturns
  BY <1>13 DEF CallerChoice, CallerWaits, CallerRaises,
       CallerInterrupted, CallerReturns, TakeGroup
<1>14. CASE UNCHANGED vars
  BY <1>14 DEF vars
<1> QED
  BY <1>1, <1>2, <1>3, <1>4, <1>5, <1>6, <1>7, <1>8,
     <1>9, <1>10, <1>11, <1>12, <1>13, <1>14
     DEF Next, WorkerStep, HandlerChoice, ReceiverStep

\* Every variable keeps its type, and a receiving task holds a message
\* exactly while it handles it.
THEOREM JobTypeCorrect == Spec => []TypeOK
<1>1. Init => TypeOK
  <2> SUFFICES ASSUME Init PROVE TypeOK
    OBVIOUS
  <2>1. WorkerType /\ HistoryType
    BY DEF Init, WorkerType, HistoryType
  <2>2. InboxType
    BY DEF Init, InboxType
  <2>3. ReceiverType
    BY DEF Init, ReceiverType
  <2>4. GroupType
    BY DEF Init, GroupType
  <2> QED
    BY <2>1, <2>2, <2>3, <2>4 DEF TypeOK
<1>2. TypeOK /\ [Next]_vars => TypeOK'
  BY WorkerTypeStep, HistoryTypeStep, InboxTypeStep, ReceiverTypeStep,
     GroupTypeStep DEF TypeOK
<1> QED
  BY <1>1, <1>2, PTL DEF Spec

(***************************************************************************)
(* A job is in _active_jobs from its acceptance to its answer.             *)
(***************************************************************************)
AnswerInv ==
    /\ active \subseteq accepted
    /\ requests \cap accepted = {}
    /\ AnsweredOnce

LEMMA AnswerStep ==
    ASSUME TypeOK, AnswerInv, [Next]_vars PROVE AnswerInv'
<1> USE DEF TypeOK, WorkerType, HistoryType, AnswerInv, AnsweredOnce
<1>1. CASE \E w \in Workers : AcceptJob(w) \/ HandlerEnds(w)
  BY <1>1 DEF AcceptJob, HandlerEnds
<1>2. CASE \E w \in Workers : CancelArrives(w)
  BY <1>2 DEF CancelArrives
<1>3. CASE \E w \in Workers : HandlerCancelled(w)
  BY <1>3 DEF HandlerCancelled, SendResponse, Send
<1>4. CASE \E w \in Workers : CancelHookDone(w)
  BY <1>4 DEF CancelHookDone, SendResponse, Send
<1>5. CASE \E w \in Workers, error \in BOOLEAN, r \in Receivers :
            Respond(w, error, r)
  BY <1>5 DEF Respond, SendResponse, Send
<1>6. CASE \E w \in Workers : StreamEnd(w) \/ StopWorker(w)
  BY <1>6 DEF StreamEnd, StopWorker, SendResponse, Send
<1>7. CASE \E r \in Receivers : Receive(r)
  BY <1>7 DEF Receive
<1>8. CASE \E r \in Receivers : HookDone(r)
  BY <1>8 DEF HookDone, Track, Finish
<1>9. CASE \E r \in Receivers : ErrorHookDone(r)
  BY <1>9 DEF ErrorHookDone, TakeGroup, Finish
<1>10. CASE \E r \in Receivers : TimerJoined(r) \/ CompleteHookDone(r)
  BY <1>10 DEF TimerJoined, CompleteHookDone, Finish
<1>11. CASE CancellerStep
  BY <1>11 DEF CancellerStep, FinishCancel
<1>12. CASE TimerFires \/ OtherCancels
  BY <1>12 DEF TimerFires, OtherCancels, TakeGroup
<1>13. CASE CallerChoice \/ CallerReturns
  BY <1>13 DEF CallerChoice, CallerWaits, CallerRaises,
       CallerInterrupted, CallerReturns, TakeGroup
<1>14. CASE UNCHANGED vars
  BY <1>14 DEF vars
<1> QED
  BY <1>1, <1>2, <1>3, <1>4, <1>5, <1>6, <1>7, <1>8,
     <1>9, <1>10, <1>11, <1>12, <1>13, <1>14
     DEF Next, WorkerStep, HandlerChoice, ReceiverStep

\* A worker answers each job it accepted exactly once, whoever answers.
THEOREM JobsAnsweredOnce == Spec => []AnsweredOnce
<1>1. Init => AnswerInv
  BY DEF Init, AnswerInv, AnsweredOnce
<1>2. TypeOK /\ AnswerInv /\ [Next]_vars => AnswerInv'
  BY AnswerStep
<1>3. AnswerInv => AnsweredOnce
  BY DEF AnswerInv
<1> QED
  BY <1>1, <1>2, <1>3, JobTypeCorrect, PTL DEF Spec

(***************************************************************************)
(* The group is in one place: in _job_groups, with the task that cancels   *)
(* it, with the task that completes it, or settled.                        *)
(***************************************************************************)
Completing(r) == pc[r] = "completeHook"

PlaceInv ==
    /\ group => canceller = "none" /\ completions = 0 /\ failures = 0
    /\ canceller # "none" => completions = 0 /\ failures = 0
    /\ canceller \in Receivers => pc[canceller] = "cancelling"

CompletingInv ==
    \A r \in Receivers :
        /\ Completing(r) =>
              /\ ~group /\ canceller = "none" /\ responded = Workers
              /\ completions = 0 /\ failures = 0
              /\ \A q \in Receivers : Completing(q) => q = r
        /\ pc[r] = "joining" => responded = Workers

OutcomeInv ==
    /\ completions \in {0, 1} /\ failures \in {0, 1}
    /\ ~(completions = 1 /\ failures = 1)
    /\ completions = 1 => responded = Workers

LEMMA PlaceStep ==
    ASSUME TypeOK, PlaceInv, CompletingInv, OutcomeInv, [Next]_vars
    PROVE PlaceInv'
<1> USE DEF TypeOK, ReceiverType, GroupType, PlaceInv, CompletingInv,
       Completing
<1>1. CASE \E w \in Workers : AcceptJob(w) \/ HandlerEnds(w)
  BY <1>1 DEF AcceptJob, HandlerEnds
<1>2. CASE \E w \in Workers : CancelArrives(w)
  BY <1>2 DEF CancelArrives
<1>3. CASE \E w \in Workers : HandlerCancelled(w)
  BY <1>3 DEF HandlerCancelled, SendResponse, Send
<1>4. CASE \E w \in Workers : CancelHookDone(w)
  BY <1>4 DEF CancelHookDone, SendResponse, Send
<1>5. CASE \E w \in Workers, error \in BOOLEAN, r \in Receivers :
            Respond(w, error, r)
  BY <1>5 DEF Respond, SendResponse, Send
<1>6. CASE \E w \in Workers : StreamEnd(w) \/ StopWorker(w)
  BY <1>6 DEF StreamEnd, StopWorker, SendResponse, Send
<1>7. CASE \E r \in Receivers : Receive(r)
  BY <1>7 DEF Receive
<1>8. CASE \E r \in Receivers : HookDone(r)
  BY <1>8 DEF HookDone, Track, Finish
<1>9. CASE \E r \in Receivers : ErrorHookDone(r)
  BY <1>9 DEF ErrorHookDone, TakeGroup, Finish
<1>10. CASE \E r \in Receivers : TimerJoined(r) \/ CompleteHookDone(r)
  BY <1>10 DEF TimerJoined, CompleteHookDone, Finish
<1>11. CASE CancellerStep
  BY <1>11 DEF CancellerStep, FinishCancel
<1>12. CASE TimerFires \/ OtherCancels
  BY <1>12 DEF TimerFires, OtherCancels, TakeGroup
<1>13. CASE CallerChoice \/ CallerReturns
  BY <1>13 DEF CallerChoice, CallerWaits, CallerRaises,
       CallerInterrupted, CallerReturns, TakeGroup
<1>14. CASE UNCHANGED vars
  BY <1>14 DEF vars
<1> QED
  BY <1>1, <1>2, <1>3, <1>4, <1>5, <1>6, <1>7, <1>8,
     <1>9, <1>10, <1>11, <1>12, <1>13, <1>14
     DEF Next, WorkerStep, HandlerChoice, ReceiverStep

LEMMA CompletingStep ==
    ASSUME TypeOK, PlaceInv, CompletingInv, OutcomeInv, [Next]_vars
    PROVE CompletingInv'
<1> USE DEF TypeOK, ReceiverType, GroupType, PlaceInv, CompletingInv,
       Completing
<1>1. CASE \E w \in Workers : AcceptJob(w) \/ HandlerEnds(w)
  BY <1>1 DEF AcceptJob, HandlerEnds
<1>2. CASE \E w \in Workers : CancelArrives(w)
  BY <1>2 DEF CancelArrives
<1>3. CASE \E w \in Workers : HandlerCancelled(w)
  BY <1>3 DEF HandlerCancelled, SendResponse, Send
<1>4. CASE \E w \in Workers : CancelHookDone(w)
  BY <1>4 DEF CancelHookDone, SendResponse, Send
<1>5. CASE \E w \in Workers, error \in BOOLEAN, r \in Receivers :
            Respond(w, error, r)
  BY <1>5 DEF Respond, SendResponse, Send
<1>6. CASE \E w \in Workers : StreamEnd(w) \/ StopWorker(w)
  BY <1>6 DEF StreamEnd, StopWorker, SendResponse, Send
<1>7. CASE \E r \in Receivers : Receive(r)
  BY <1>7 DEF Receive
<1>8. CASE \E r \in Receivers : HookDone(r)
  <2>1. PICK r \in Receivers : HookDone(r)
    BY <1>8
  <2>2. current[r].from \in Workers
    BY <2>1, MessageFacts DEF HookDone
  <2>3. /\ canceller' = canceller /\ group' = group
        /\ completions' = completions /\ failures' = failures
    BY <2>1 DEF HookDone, Track
  <2>4. responded \subseteq responded' /\ responded' \subseteq Workers
    BY <2>1, <2>2 DEF HookDone, Track
  <2>5. \A q \in Receivers : pc'[q] = "completeHook" => pc[q] = "completeHook"
    BY <2>1 DEF HookDone, Track, Finish
  <2>6. \A q \in Receivers :
           pc'[q] = "joining" => pc[q] = "joining" \/ responded' = Workers
    BY <2>1 DEF HookDone, Track, Finish
  <2> QED
    BY <2>3, <2>4, <2>5, <2>6
<1>9. CASE \E r \in Receivers : ErrorHookDone(r)
  BY <1>9 DEF ErrorHookDone, TakeGroup, Finish
<1>10. CASE \E r \in Receivers : TimerJoined(r) \/ CompleteHookDone(r)
  BY <1>10 DEF TimerJoined, CompleteHookDone, Finish
<1>11. CASE CancellerStep
  BY <1>11 DEF CancellerStep, FinishCancel
<1>12. CASE TimerFires \/ OtherCancels
  BY <1>12 DEF TimerFires, OtherCancels, TakeGroup
<1>13. CASE CallerChoice \/ CallerReturns
  BY <1>13 DEF CallerChoice, CallerWaits, CallerRaises,
       CallerInterrupted, CallerReturns, TakeGroup
<1>14. CASE UNCHANGED vars
  BY <1>14 DEF vars
<1> QED
  BY <1>1, <1>2, <1>3, <1>4, <1>5, <1>6, <1>7, <1>8,
     <1>9, <1>10, <1>11, <1>12, <1>13, <1>14
     DEF Next, WorkerStep, HandlerChoice, ReceiverStep

LEMMA OutcomeStep ==
    ASSUME TypeOK, PlaceInv, CompletingInv, OutcomeInv, [Next]_vars
    PROVE OutcomeInv'
<1> USE DEF TypeOK, ReceiverType, GroupType, PlaceInv, CompletingInv,
       Completing, OutcomeInv
<1>1. CASE \E w \in Workers : AcceptJob(w) \/ HandlerEnds(w)
  BY <1>1 DEF AcceptJob, HandlerEnds
<1>2. CASE \E w \in Workers : CancelArrives(w)
  BY <1>2 DEF CancelArrives
<1>3. CASE \E w \in Workers : HandlerCancelled(w)
  BY <1>3 DEF HandlerCancelled, SendResponse, Send
<1>4. CASE \E w \in Workers : CancelHookDone(w)
  BY <1>4 DEF CancelHookDone, SendResponse, Send
<1>5. CASE \E w \in Workers, error \in BOOLEAN, r \in Receivers :
            Respond(w, error, r)
  BY <1>5 DEF Respond, SendResponse, Send
<1>6. CASE \E w \in Workers : StreamEnd(w) \/ StopWorker(w)
  BY <1>6 DEF StreamEnd, StopWorker, SendResponse, Send
<1>7. CASE \E r \in Receivers : Receive(r)
  BY <1>7 DEF Receive
<1>8. CASE \E r \in Receivers : HookDone(r)
  BY <1>8 DEF HookDone, Track, Finish
<1>9. CASE \E r \in Receivers : ErrorHookDone(r)
  BY <1>9 DEF ErrorHookDone, TakeGroup, Finish
<1>10. CASE \E r \in Receivers : TimerJoined(r) \/ CompleteHookDone(r)
  BY <1>10 DEF TimerJoined, CompleteHookDone, Finish
<1>11. CASE CancellerStep
  BY <1>11 DEF CancellerStep, FinishCancel
<1>12. CASE TimerFires \/ OtherCancels
  BY <1>12 DEF TimerFires, OtherCancels, TakeGroup
<1>13. CASE CallerChoice \/ CallerReturns
  BY <1>13 DEF CallerChoice, CallerWaits, CallerRaises,
       CallerInterrupted, CallerReturns, TakeGroup
<1>14. CASE UNCHANGED vars
  BY <1>14 DEF vars
<1> QED
  BY <1>1, <1>2, <1>3, <1>4, <1>5, <1>6, <1>7, <1>8,
     <1>9, <1>10, <1>11, <1>12, <1>13, <1>14
     DEF Next, WorkerStep, HandlerChoice, ReceiverStep

\* A group completes or fails, once; it completes only when every worker has
\* responded, and it is no longer in _job_groups then.
THEOREM GroupsEndOnce == Spec => []OneOutcome
<1>1. Init => PlaceInv /\ CompletingInv /\ OutcomeInv
  BY DEF Init, PlaceInv, CompletingInv, OutcomeInv, Completing
<1>2. TypeOK /\ PlaceInv /\ CompletingInv /\ OutcomeInv /\ [Next]_vars
        => PlaceInv' /\ CompletingInv' /\ OutcomeInv'
  BY PlaceStep, CompletingStep, OutcomeStep
<1>3. TypeOK /\ PlaceInv /\ OutcomeInv => OneOutcome
  BY DEF TypeOK, GroupType, PlaceInv, OutcomeInv, OneOutcome
<1> QED
  BY <1>1, <1>2, <1>3, JobTypeCorrect, PTL DEF Spec

(***************************************************************************)
(* The state halves of WaiterReturns and FailedJobsEnd: as long as a group *)
(* has no outcome somebody is there to give it one, and as long as a group *)
(* can be cancelled its cancel messages will find the jobs.                *)
(***************************************************************************)
\* A group has an outcome, or its timeout runs, or a task that took it or waits to
\* complete it is at work: no caller waits for a group that nobody will settle.
GroupOwned ==
    completions + failures = 0 =>
        \/ group /\ (timer = "sleeping" \/ \E r \in Receivers : pc[r] = "joining")
        \/ canceller # "none"
        \/ \E r \in Receivers : Completing(r)

LEMMA OwnedStep ==
    ASSUME TypeOK, PlaceInv, CompletingInv, OutcomeInv, GroupOwned, [Next]_vars
    PROVE GroupOwned'
<1> USE DEF TypeOK, ReceiverType, GroupType, PlaceInv, CompletingInv,
       Completing, OutcomeInv, GroupOwned
<1>1. CASE \E w \in Workers : AcceptJob(w) \/ HandlerEnds(w)
  BY <1>1 DEF AcceptJob, HandlerEnds
<1>2. CASE \E w \in Workers : CancelArrives(w)
  BY <1>2 DEF CancelArrives
<1>3. CASE \E w \in Workers : HandlerCancelled(w)
  BY <1>3 DEF HandlerCancelled, SendResponse, Send
<1>4. CASE \E w \in Workers : CancelHookDone(w)
  BY <1>4 DEF CancelHookDone, SendResponse, Send
<1>5. CASE \E w \in Workers, error \in BOOLEAN, r \in Receivers :
            Respond(w, error, r)
  BY <1>5 DEF Respond, SendResponse, Send
<1>6. CASE \E w \in Workers : StreamEnd(w) \/ StopWorker(w)
  BY <1>6 DEF StreamEnd, StopWorker, SendResponse, Send
<1>7. CASE \E r \in Receivers : Receive(r)
  BY <1>7 DEF Receive
<1>8. CASE \E r \in Receivers : HookDone(r)
  BY <1>8 DEF HookDone, Track, Finish
<1>9. CASE \E r \in Receivers : ErrorHookDone(r)
  BY <1>9 DEF ErrorHookDone, TakeGroup, Finish
<1>10. CASE \E r \in Receivers : TimerJoined(r) \/ CompleteHookDone(r)
  BY <1>10 DEF TimerJoined, CompleteHookDone, Finish
<1>11. CASE CancellerStep
  BY <1>11 DEF CancellerStep, FinishCancel
<1>12. CASE TimerFires \/ OtherCancels
  BY <1>12 DEF TimerFires, OtherCancels, TakeGroup
<1>13. CASE CallerChoice \/ CallerReturns
  BY <1>13 DEF CallerChoice, CallerWaits, CallerRaises,
       CallerInterrupted, CallerReturns, TakeGroup
<1>14. CASE UNCHANGED vars
  BY <1>14 DEF vars
<1> QED
  BY <1>1, <1>2, <1>3, <1>4, <1>5, <1>6, <1>7, <1>8,
     <1>9, <1>10, <1>11, <1>12, <1>13, <1>14
     DEF Next, WorkerStep, HandlerChoice, ReceiverStep

THEOREM GroupsAreSettled == Spec => []GroupOwned
<1>1. Init => PlaceInv /\ CompletingInv /\ OutcomeInv /\ GroupOwned
  BY DEF Init, PlaceInv, CompletingInv, OutcomeInv, GroupOwned, Completing
<1>2. TypeOK /\ (PlaceInv /\ CompletingInv /\ OutcomeInv /\ GroupOwned) /\ [Next]_vars
        => (PlaceInv /\ CompletingInv /\ OutcomeInv /\ GroupOwned)'
  BY PlaceStep, CompletingStep, OutcomeStep, OwnedStep
<1> QED
  BY <1>1, <1>2, JobTypeCorrect, PTL DEF Spec

\* A worker whose job handler runs has the job in _active_jobs, unless stop() took it
\* out; and until it has the cancel message its router waits for one.  So the message
\* is neither ignored nor left to a router that has died.
CancelFindsJob ==
    \A w \in Workers :
        handler[w] = "running" /\ w \notin stopped =>
            /\ w \in active
            /\ failures = 0 \/ w \in cancels => router[w] = "idle"

RouterInv ==
    /\ failures = 0 => cancels = {}
    /\ \A w \in Workers :
          /\ failures = 0 \/ w \in cancels => router[w] = "idle"
          /\ w \in requests => handler[w] = "none" /\ router[w] = "idle"
          /\ w \in active => handler[w] \in {"running", "ended"}
          /\ router[w] = "hook" => handler[w] = "ended"
          /\ router[w] = "joining" => w \notin requests
          /\ handler[w] = "running" => w \in active \cup stopped

LEMMA RouterStep ==
    ASSUME TypeOK, PlaceInv, AnswerInv, RouterInv, [Next]_vars
    PROVE RouterInv'
<1> USE DEF TypeOK, WorkerType, GroupType, HistoryType, PlaceInv, AnswerInv, RouterInv
<1>1. CASE \E w \in Workers : AcceptJob(w) \/ HandlerEnds(w)
  BY <1>1 DEF AcceptJob, HandlerEnds
<1>2. CASE \E w \in Workers : CancelArrives(w)
  BY <1>2 DEF CancelArrives
<1>3. CASE \E w \in Workers : HandlerCancelled(w)
  <2>1. PICK w \in Workers : HandlerCancelled(w)
    BY <1>3
  <2>2. /\ UNCHANGED <<requests, cancels, stopped, failures>>
        /\ active' \subseteq active /\ active \subseteq active' \cup {w}
        /\ router[w] = "joining"
        /\ handler' = [handler EXCEPT ![w] = "ended"]
        /\ router' = [router EXCEPT ![w] = "hook"]
    BY <2>1 DEF HandlerCancelled, SendResponse
  <2>3. QED
    BY <2>2
<1>4. CASE \E w \in Workers : CancelHookDone(w)
  BY <1>4 DEF CancelHookDone, SendResponse, Send
<1>5. CASE \E w \in Workers, error \in BOOLEAN, r \in Receivers :
            Respond(w, error, r)
  BY <1>5 DEF Respond, SendResponse, Send
<1>6. CASE \E w \in Workers : StreamEnd(w) \/ StopWorker(w)
  BY <1>6 DEF StreamEnd, StopWorker, SendResponse, Send
<1>7. CASE \E r \in Receivers : Receive(r)
  BY <1>7 DEF Receive
<1>8. CASE \E r \in Receivers : HookDone(r)
  BY <1>8 DEF HookDone, Track, Finish
<1>9. CASE \E r \in Receivers : ErrorHookDone(r)
  BY <1>9 DEF ErrorHookDone, TakeGroup, Finish
<1>10. CASE \E r \in Receivers : TimerJoined(r) \/ CompleteHookDone(r)
  BY <1>10 DEF TimerJoined, CompleteHookDone, Finish
<1>11. CASE CancellerStep
  BY <1>11 DEF CancellerStep, FinishCancel
<1>12. CASE TimerFires \/ OtherCancels
  BY <1>12 DEF TimerFires, OtherCancels, TakeGroup
<1>13. CASE CallerChoice \/ CallerReturns
  BY <1>13 DEF CallerChoice, CallerWaits, CallerRaises,
       CallerInterrupted, CallerReturns, TakeGroup
<1>14. CASE UNCHANGED vars
  BY <1>14 DEF vars
<1> QED
  BY <1>1, <1>2, <1>3, <1>4, <1>5, <1>6, <1>7, <1>8,
     <1>9, <1>10, <1>11, <1>12, <1>13, <1>14
     DEF Next, WorkerStep, HandlerChoice, ReceiverStep

THEOREM CancelsFindJobs == Spec => []CancelFindsJob
<1>1. Init => RouterInv /\ PlaceInv /\ CompletingInv /\ OutcomeInv /\ AnswerInv
  BY DEF Init, RouterInv, PlaceInv, CompletingInv, OutcomeInv, Completing,
         AnswerInv, AnsweredOnce
<1>2. TypeOK /\ (RouterInv /\ PlaceInv /\ CompletingInv /\ OutcomeInv /\ AnswerInv)
        /\ [Next]_vars
        => (RouterInv /\ PlaceInv /\ CompletingInv /\ OutcomeInv /\ AnswerInv)'
  BY RouterStep, PlaceStep, CompletingStep, OutcomeStep, AnswerStep
<1>3. TypeOK /\ RouterInv => CancelFindsJob
  BY DEF RouterInv, CancelFindsJob
<1> QED
  BY <1>1, <1>2, <1>3, JobTypeCorrect, PTL DEF Spec

-----------------------------------------------------------------------------
(* The runner and its workers (WorkerRunner).                              *)
(*                                                                         *)
(* Nobody gets more than two cancel messages: cancel() and the end of      *)
(* run() send one each to the roots, and a parent passes on what it        *)
(* handles, so that a child is sent no more than its parent has handled    *)
(* (CancelsSent).  Once the runner runs, nobody waits to be started        *)
(* (NobodyWaits), and a worker that ran when the run was to end has ended  *)
(* or is one of those run() waits for (EarlyWaitedFor).                    *)

\* How often the roots were sent a cancel message, at most.
Rounds ==
    (IF shutdown THEN 1 ELSE 0) + (IF runPc \in {"gather", "over"} THEN 1 ELSE 0)

\* How many a worker may have been sent, by those who send them to it.
MaySend(handled, w) == IF w \in Root THEN Rounds ELSE handled[Parent[w]]

CancelsSent ==
    \E handled \in [Worker -> 0..2] :
        \A w \in Worker : handled[w] + toCancel[w] <= MaySend(handled, w)

NobodyWaits == runPc \in {"waiting", "gather"} => Entered = Started

EarlyWaitedFor ==
    /\ runPc = "gather" => early \cap Running \subseteq remaining
    /\ runPc = "over" => early \cap Running = {}

RunnerInv == RunnerTypeOK /\ CancelsSent /\ NobodyWaits /\ EarlyWaitedFor

LEMMA ParentFacts ==
    \A w \in Worker : w \notin Root => Parent[w] \in Worker
  BY RunnerAssumption DEF Root

LEMMA RoundsFacts == ASSUME shutdown \in BOOLEAN PROVE Rounds \in 0..2
  BY DEF Rounds

\* What was sent bounds what waits.
LEMMA CancelsBounded ==
    ASSUME toCancel \in [Worker -> Nat], shutdown \in BOOLEAN, CancelsSent
    PROVE  toCancel \in [Worker -> 0..2]
<1>1. PICK handled \in [Worker -> 0..2] :
         \A w \in Worker : handled[w] + toCancel[w] <= MaySend(handled, w)
  BY DEF CancelsSent
<1>2. \A w \in Worker : MaySend(handled, w) \in 0..2
  BY ParentFacts, RoundsFacts DEF MaySend
<1>3. \A w \in Worker : toCancel[w] \in 0..2
  BY <1>1, <1>2
<1>4. QED
  BY <1>3

\* A step that sends nothing.
LEMMA NoneSent ==
    ASSUME RunnerTypeOK, CancelsSent, UNCHANGED toCancel, Rounds <= Rounds',
           shutdown' \in BOOLEAN
    PROVE  toCancel' \in [Worker -> 0..2] /\ CancelsSent'
<1>1. PICK handled \in [Worker -> 0..2] :
         \A w \in Worker : handled[w] + toCancel[w] <= MaySend(handled, w)
  BY DEF CancelsSent
<1>2. Rounds \in 0..2 /\ Rounds' \in 0..2 /\ toCancel \in [Worker -> 0..2]
  BY RoundsFacts DEF RunnerTypeOK, Rounds
<1>3. \A w \in Worker : handled[w] + toCancel'[w] <= MaySend(handled, w)'
  BY <1>1, <1>2, ParentFacts DEF MaySend
<1>4. QED
  BY <1>2, <1>3 DEF CancelsSent

\* The runner sends a message to the roots.
LEMMA RootsSent ==
    ASSUME RunnerTypeOK, CancelsSent, SendCancel(Root), Rounds' = Rounds + 1,
           shutdown' \in BOOLEAN
    PROVE  toCancel' \in [Worker -> 0..2] /\ CancelsSent'
<1>1. PICK handled \in [Worker -> 0..2] :
         \A w \in Worker : handled[w] + toCancel[w] <= MaySend(handled, w)
  BY DEF CancelsSent
<1>2. Rounds \in 0..2 /\ toCancel \in [Worker -> 0..2]
  BY RoundsFacts DEF RunnerTypeOK
<1>3. \A w \in Worker : /\ toCancel'[w] \in Nat
                        /\ toCancel'[w] <= toCancel[w] + 1
                        /\ w \notin Root => toCancel'[w] = toCancel[w]
  BY <1>2 DEF SendCancel
<1>4. \A w \in Worker : handled[w] + toCancel'[w] <= MaySend(handled, w)'
  <2> SUFFICES ASSUME NEW w \in Worker
               PROVE  handled[w] + toCancel'[w] <= MaySend(handled, w)'
    OBVIOUS
  <2>1. CASE w \in Root
    BY <1>1, <1>2, <1>3, <2>1 DEF MaySend
  <2>2. CASE w \notin Root
    BY <1>1, <1>3, <2>2 DEF MaySend
  <2>3. QED
    BY <2>1, <2>2
<1>5. toCancel' \in [Worker -> Nat]
  BY <1>2 DEF SendCancel
<1>6. CancelsSent'
  BY <1>4 DEF CancelsSent
<1>7. toCancel' \in [Worker -> 0..2]
  <2>1. \A w \in Worker : MaySend(handled, w)' \in 0..2
    BY ParentFacts, <1>2 DEF MaySend, Rounds
  <2>2. \A w \in Worker : toCancel'[w] \in 0..2
    BY <1>3, <1>4, <2>1
  <2>3. QED
    BY <1>5, <2>2
<1>8. QED
  BY <1>6, <1>7

\* A worker handles one and sends one to its children.
LEMMA ChildrenSent ==
    ASSUME RunnerTypeOK, CancelsSent, NEW w \in Worker, HandleCancel(w)
    PROVE  toCancel' \in [Worker -> 0..2] /\ CancelsSent'
<1>1. PICK handled \in [Worker -> 0..2] :
         \A v \in Worker : handled[v] + toCancel[v] <= MaySend(handled, v)
  BY DEF CancelsSent
<1>2. /\ Rounds' = Rounds /\ Rounds \in 0..2 /\ toCancel \in [Worker -> 0..2]
      /\ toCancel[w] > 0
  BY RoundsFacts DEF RunnerTypeOK, Rounds, HandleCancel, runVars
<1>3. /\ toCancel' \in [Worker -> Nat]
      /\ toCancel'[w] = toCancel[w] - 1
      /\ \A v \in Worker \ {w} :
            /\ toCancel'[v] = toCancel[v] \/ toCancel'[v] = toCancel[v] + 1
            /\ toCancel'[v] = toCancel[v] + 1 => Parent[v] = w
  BY <1>2 DEF HandleCancel, Children
<1> DEFINE more == [handled EXCEPT ![w] = @ + 1]
<1>4. handled[w] + 1 \in 0..2
  <2>1. MaySend(handled, w) \in 0..2
    BY <1>2, ParentFacts DEF MaySend
  <2>2. QED
    BY <1>1, <1>2, <2>1
<1>5. /\ more \in [Worker -> 0..2] /\ more[w] = handled[w] + 1
      /\ \A v \in Worker \ {w} : more[v] = handled[v]
  BY <1>4
<1> HIDE DEF more
<1>6. ASSUME NEW v \in Worker
      PROVE  more[v] + toCancel'[v] <= MaySend(more, v)'
  <2>1. \A u \in Worker : handled[u] <= more[u] /\ handled[u] \in Nat /\ more[u] \in Nat
    BY <1>5
  <2>2. MaySend(more, v)' = IF v \in Root THEN Rounds ELSE more[Parent[v]]
    BY <1>2 DEF MaySend
  <2>3. handled[v] + toCancel[v] <= MaySend(handled, v)
    BY <1>1
  <2>4. CASE v = w
    <3>1. more[v] + toCancel'[v] = handled[v] + toCancel[v]
      BY <1>2, <1>3, <1>5, <2>4
    <3>2. MaySend(handled, v) <= MaySend(more, v)'
      BY <1>2, <2>1, <2>2, ParentFacts DEF MaySend
    <3>3. MaySend(handled, v) \in Nat /\ MaySend(more, v)' \in Nat
      BY <1>2, <2>1, <2>2, ParentFacts DEF MaySend
    <3>4. QED
      BY <1>2, <2>1, <2>3, <3>1, <3>2, <3>3
  <2>5. CASE v # w /\ toCancel'[v] = toCancel[v]
    <3>1. MaySend(handled, v) <= MaySend(more, v)'
      BY <1>2, <2>1, <2>2, ParentFacts DEF MaySend
    <3>2. MaySend(handled, v) \in Nat /\ MaySend(more, v)' \in Nat
      BY <1>2, <2>1, <2>2, ParentFacts DEF MaySend
    <3>3. QED
      BY <1>2, <1>5, <2>1, <2>3, <2>5, <3>1, <3>2
  <2>6. CASE v # w /\ toCancel'[v] = toCancel[v] + 1
    <3>1. Parent[v] = w /\ v \notin Root
      BY <1>3, <2>6, RunnerAssumption DEF Root
    <3>2. MaySend(handled, v) = handled[w] /\ MaySend(more, v)' = handled[w] + 1
      BY <1>5, <2>2, <3>1 DEF MaySend
    <3>3. QED
      BY <1>2, <1>5, <2>1, <2>3, <2>6, <3>2
  <2>7. QED
    BY <1>3, <2>4, <2>5, <2>6
<1>7. CancelsSent'
  BY <1>5, <1>6 DEF CancelsSent
<1>8. toCancel' \in [Worker -> 0..2]
  <2>1. \A v \in Worker : MaySend(more, v)' \in 0..2 /\ more[v] \in 0..2
    BY <1>2, <1>5, ParentFacts DEF MaySend
  <2>2. \A v \in Worker : toCancel'[v] \in 0..2
    BY <1>3, <1>6, <2>1
  <2>3. QED
    BY <1>3, <2>2
<1>9. QED
  BY <1>7, <1>8
\* A worker stays entered and, once started, started; the one that changes goes on.
LEMMA LifeFacts ==
    ASSUME RunnerTypeOK, NEW w \in Worker, NEW new,
           life' = [life EXCEPT ![w] = new],
           life[w] \in {"running", "finished"} => new \in {"running", "finished", "done"},
           life[w] = "ready" => new \in {"ready", "running", "finished", "done"},
           life[w] # "done"
    PROVE  /\ Entered \subseteq Entered' /\ Started \subseteq Started'
           /\ \A v \in Worker \ {w} : life'[v] = life[v]
           /\ life'[w] = new
  BY DEF RunnerTypeOK, Entered, Started

\* The variables a step does not touch.
NoneTold == UNCHANGED <<told, toCancel, ends, awaited>>

\* The steps that add workers.
LEMMA AddingKeeps ==
    ASSUME RunnerInv, NEW w \in Worker,
           AddRoot(w) \/ AskForChild(w) \/ BeginAttach(w) \/ Enter(w)
    PROVE  RunnerInv'
<1>1. /\ RunnerTypeOK /\ CancelsSent /\ NobodyWaits /\ EarlyWaitedFor
      /\ UNCHANGED <<runPc, shutdown, planned, remaining, told, toCancel, ends, awaited,
                     early>>
      /\ life[w] \in {"absent", "asked", "attaching"}
  BY DEF RunnerInv, AddRoot, AskForChild, BeginAttach, Enter, runVars, messageVars
<1>2. PICK new \in {"attaching", "ready", "lost", "asked", "running"} :
         /\ life' = [life EXCEPT ![w] = new]
         /\ runPc \in {"waiting", "gather"} => new # "ready"
  BY DEF AddRoot, AskForChild, BeginAttach, Enter, BusRuns
<1>3. /\ Entered \subseteq Entered' /\ Started \subseteq Started'
      /\ \A v \in Worker \ {w} : life'[v] = life[v]
      /\ life'[w] = new
  BY <1>1, <1>2, LifeFacts
<1>4. CancelsSent' /\ toCancel' \in [Worker -> 0..2]
  BY <1>1, NoneSent DEF Rounds, RunnerTypeOK
<1>5. RunnerTypeOK'
  BY <1>1, <1>2, <1>3, <1>4 DEF RunnerTypeOK
<1>6. NobodyWaits'
  BY <1>1, <1>2, <1>3 DEF NobodyWaits, Entered, Started
<1>7. early \cap Running' = early \cap Running
  BY <1>1, <1>3 DEF RunnerTypeOK, Started, Running
<1>8. EarlyWaitedFor'
  BY <1>1, <1>7 DEF EarlyWaitedFor
<1>9. QED
  BY <1>4, <1>5, <1>6, <1>8 DEF RunnerInv

\* The steps of run() but for its end.
LEMMA SetupKeeps ==
    ASSUME RunnerInv, BeginRun \/ SetupRound \/ SetupCancelled
    PROVE  RunnerInv'
<1>1. /\ RunnerTypeOK /\ CancelsSent
      /\ UNCHANGED <<shutdown, remaining, told, toCancel, ends, awaited, early>>
      /\ runPc \in {"before", "starting", "setup"}
  BY DEF RunnerInv, BeginRun, SetupRound, SetupCancelled, messageVars
<1>2. CancelsSent' /\ toCancel' \in [Worker -> 0..2]
  <2>1. runPc' \notin {"gather", "over"}
    BY <1>1 DEF BeginRun, SetupRound, SetupCancelled
  <2>2. QED
    BY <1>1, <2>1, NoneSent DEF Rounds, RunnerTypeOK
<1>3. CASE BeginRun \/ SetupCancelled
  <2>1. /\ UNCHANGED <<Entered, Started, life, planned>>
        /\ runPc' \in {"starting", "failed"}
    BY <1>3 DEF BeginRun, SetupCancelled, Entered, Started
  <2>2. QED
    BY <1>1, <1>2, <2>1 DEF RunnerInv, RunnerTypeOK, NobodyWaits, EarlyWaitedFor
<1>4. CASE SetupRound
  <2>1. planned' \subseteq Entered /\ Entered \subseteq Worker /\ Started \subseteq Entered
    BY <1>1, <1>4 DEF RunnerTypeOK, SetupRound, Entered, Started
  <2>2. CASE /\ UNCHANGED life
             /\ runPc' = "failed" \/ (runPc' = "waiting" /\ Entered = Started)
    <3>1. UNCHANGED <<Entered, Started>>
      BY <2>2 DEF Entered, Started
    <3>2. RunnerTypeOK'
      BY <1>1, <1>2, <2>1, <2>2, <3>1 DEF RunnerTypeOK
    <3>3. NobodyWaits' /\ EarlyWaitedFor'
      BY <2>2, <3>1 DEF NobodyWaits, EarlyWaitedFor
    <3>4. QED
      BY <1>2, <3>2, <3>3 DEF RunnerInv
  <2>3. CASE \E w \in planned' \ Started : /\ life' = [life EXCEPT ![w] = "running"]
                                          /\ runPc' = "setup"
    <3>1. PICK w \in planned' \ Started : /\ life' = [life EXCEPT ![w] = "running"]
                                         /\ runPc' = "setup"
      BY <2>3
    <3>2. w \in Worker /\ life[w] = "ready"
      BY <1>1, <2>1, <3>1 DEF RunnerTypeOK, Entered, Started
    <3>3. /\ Entered \subseteq Entered' /\ Started \subseteq Started'
          /\ \A v \in Worker \ {w} : life'[v] = life[v]
          /\ life'[w] = "running"
      BY <1>1, <3>1, <3>2, LifeFacts
    <3>4. RunnerTypeOK'
      BY <1>1, <1>2, <2>1, <3>1, <3>2, <3>3 DEF RunnerTypeOK
    <3>5. NobodyWaits' /\ EarlyWaitedFor'
      BY <3>1 DEF NobodyWaits, EarlyWaitedFor
    <3>6. QED
      BY <1>2, <3>4, <3>5 DEF RunnerInv
  <2>4. QED
    BY <1>4, <2>1, <2>2, <2>3 DEF SetupRound
<1>5. QED
  BY <1>3, <1>4

\* A cancellation of run() while it waits for the workers tells them.
LEMMA GatherCancelKeeps ==
    ASSUME RunnerInv, GatherCancelled
    PROVE  RunnerInv'
<1>1. /\ RunnerTypeOK /\ CancelsSent /\ NobodyWaits /\ EarlyWaitedFor
      /\ UNCHANGED <<runPc, shutdown, planned, remaining, life, toCancel, ends, awaited,
                     early>>
      /\ UNCHANGED <<Entered, Started, Running>>
  BY DEF RunnerInv, GatherCancelled, runVars, Entered, Started, Running
<1>2. CancelsSent'
  BY <1>1, NoneSent DEF Rounds, RunnerTypeOK
<1>3. told' \in [Worker -> BOOLEAN]
  <2>1. \A w \in Worker : (told[w] \/ (w \in remaining /\ life[w] = "running")) \in BOOLEAN
    OBVIOUS
  <2>2. QED
    BY <2>1, Zenon DEF GatherCancelled
<1>4. RunnerTypeOK'
  BY <1>1, <1>3 DEF RunnerTypeOK
<1>5. NobodyWaits' /\ EarlyWaitedFor'
  BY <1>1 DEF NobodyWaits, EarlyWaitedFor
<1>6. QED
  BY <1>2, <1>4, <1>5 DEF RunnerInv

\* run() wakes or is cancelled, and returns when those it waits for have ended.
LEMMA RunEndKeeps ==
    ASSUME RunnerInv, CancelRemaining \/ RunEnds
    PROVE  RunnerInv'
<1>1. /\ RunnerTypeOK /\ CancelsSent /\ NobodyWaits /\ EarlyWaitedFor
      /\ UNCHANGED <<shutdown, planned, life, told, ends, awaited>>
      /\ UNCHANGED <<Entered, Started, Running>>
      /\ Running \subseteq Started
  BY DEF RunnerInv, CancelRemaining, RunEnds, messageVars, Entered, Started, Running
<1>2. CASE CancelRemaining
  <2>1. /\ runPc = "waiting" /\ runPc' \in {"over", "gather"}
        /\ runPc' = "over" => Running = {} /\ UNCHANGED toCancel
        /\ runPc' = "gather" => Running # {} /\ SendCancel(Root)
        /\ remaining' = Running
        /\ early' \in {early, Running}
    BY <1>2 DEF CancelRemaining
  <2>2. Rounds' = Rounds + 1 /\ Rounds \in 0..2
    BY <1>1, <2>1 DEF Rounds, RunnerTypeOK
  <2>3. CancelsSent' /\ toCancel' \in [Worker -> 0..2]
    <3>1. CASE runPc' = "over"
      BY <1>1, <2>1, <2>2, <3>1, NoneSent DEF RunnerTypeOK
    <3>2. CASE runPc' = "gather"
      BY <1>1, <2>1, <2>2, <3>2, RootsSent DEF RunnerTypeOK
    <3>3. QED
      BY <2>1, <3>1, <3>2
  <2>4. RunnerTypeOK'
    BY <1>1, <2>1, <2>3 DEF RunnerTypeOK
  <2>5. NobodyWaits' /\ EarlyWaitedFor'
    BY <1>1, <2>1 DEF NobodyWaits, EarlyWaitedFor
  <2>6. QED
    BY <2>3, <2>4, <2>5 DEF RunnerInv
<1>3. CASE RunEnds
  <2>1. /\ runPc = "gather" /\ runPc' = "over" /\ remaining \cap Running = {}
        /\ UNCHANGED <<remaining, toCancel, early>>
    BY <1>3 DEF RunEnds, messageVars
  <2>2. CancelsSent' /\ toCancel' \in [Worker -> 0..2]
    BY <1>1, <2>1, NoneSent DEF Rounds, RunnerTypeOK
  <2>3. RunnerTypeOK'
    BY <1>1, <2>1, <2>2 DEF RunnerTypeOK
  <2>4. NobodyWaits' /\ EarlyWaitedFor'
    BY <1>1, <2>1 DEF NobodyWaits, EarlyWaitedFor
  <2>5. QED
    BY <2>2, <2>3, <2>4 DEF RunnerInv
<1>4. QED
  BY <1>2, <1>3

\* end() and cancel().
LEMMA EndKeeps ==
    ASSUME RunnerInv, End \/ Cancel
    PROVE  RunnerInv'
<1>1. /\ RunnerTypeOK /\ CancelsSent /\ NobodyWaits /\ EarlyWaitedFor
      /\ UNCHANGED <<runPc, planned, remaining, life, told, awaited>>
      /\ UNCHANGED <<Entered, Started, Running>>
      /\ ~shutdown /\ shutdown'
      /\ RunIsToEnd(Running) /\ Running \subseteq Started
  BY DEF RunnerInv, End, Cancel, Entered, Started, Running
<1>2. Rounds' = Rounds + 1 /\ Rounds \in 0..2 /\ shutdown' \in BOOLEAN
  BY <1>1, RoundsFacts DEF Rounds, RunnerTypeOK, End, Cancel
<1>3. CancelsSent' /\ toCancel' \in [Worker -> 0..2]
  <2>1. CASE End
    BY <1>1, <1>2, <2>1, NoneSent DEF End
  <2>2. CASE Cancel
    BY <1>1, <1>2, <2>2, RootsSent DEF Cancel
  <2>3. QED
    BY <2>1, <2>2
<1>4. ends' \in [Worker -> {"none", "sent", "waiting"}]
  BY <1>1 DEF End, Cancel, SendEnd, RunnerTypeOK
<1>5. RunnerTypeOK'
  BY <1>1, <1>2, <1>3, <1>4 DEF RunnerTypeOK, RunIsToEnd
<1>6. NobodyWaits' /\ EarlyWaitedFor'
  BY <1>1 DEF NobodyWaits, EarlyWaitedFor, RunIsToEnd
<1>7. QED
  BY <1>3, <1>5, <1>6 DEF RunnerInv

\* A worker handles an end or a cancel message.
LEMMA MessagesKeep ==
    ASSUME RunnerInv, NEW w \in Worker, Messages(w)
    PROVE  RunnerInv'
<1>1. /\ RunnerTypeOK /\ CancelsSent /\ NobodyWaits /\ EarlyWaitedFor
      /\ UNCHANGED <<runPc, shutdown, planned, remaining, life, early>>
      /\ UNCHANGED <<Entered, Started, Running>>
  BY DEF RunnerInv, Messages, HandleCancel, HandleEnd, ChildrenEnded, runVars, Entered,
         Started, Running
<1>2. CancelsSent' /\ toCancel' \in [Worker -> 0..2]
  <2>1. CASE HandleCancel(w)
    BY <1>1, <2>1, ChildrenSent
  <2>2. CASE ~HandleCancel(w)
    BY <1>1, <2>2, NoneSent
       DEF Messages, HandleEnd, ChildrenEnded, Rounds, RunnerTypeOK
  <2>3. QED
    BY <2>1, <2>2
<1>3. told' \in [Worker -> BOOLEAN]
  <2>1. told \in [Worker -> BOOLEAN]
    BY <1>1 DEF RunnerTypeOK
  <2>2. ASSUME NEW b \in BOOLEAN PROVE [told EXCEPT ![w] = b] \in [Worker -> BOOLEAN]
    BY <2>1
  <2>3. (life[w] \in {"ready", "running"}) \in BOOLEAN
    OBVIOUS
  <2>4. told' = told \/ told' = [told EXCEPT ![w] = life[w] \in {"ready", "running"}]
    BY DEF Messages, HandleCancel, HandleEnd, ChildrenEnded, TellToFinish
  <2>5. QED
    BY <2>1, <2>2, <2>3, <2>4
<1>4. ends' \in [Worker -> {"none", "sent", "waiting"}]
  BY <1>1 DEF Messages, HandleCancel, HandleEnd, ChildrenEnded, SendEnd, RunnerTypeOK
<1>5. awaited' \in [Worker -> SUBSET Worker]
  BY <1>1 DEF Messages, HandleCancel, HandleEnd, ChildrenEnded, Children, RunnerTypeOK
<1>6. RunnerTypeOK'
  BY <1>1, <1>2, <1>3, <1>4, <1>5 DEF RunnerTypeOK
<1>7. NobodyWaits' /\ EarlyWaitedFor'
  BY <1>1 DEF NobodyWaits, EarlyWaitedFor
<1>8. QED
  BY <1>2, <1>6, <1>7 DEF RunnerInv

\* A worker finishes, or its task ends.
LEMMA WorkerEndKeeps ==
    ASSUME RunnerInv, NEW w \in Worker, WorkerFinishes(w) \/ TaskEnds(w)
    PROVE  RunnerInv'
<1>1. /\ RunnerTypeOK /\ CancelsSent /\ NobodyWaits /\ EarlyWaitedFor
      /\ UNCHANGED <<runPc, planned, remaining, toCancel, ends, awaited>>
      /\ told' \in [Worker -> BOOLEAN]
  BY DEF RunnerInv, WorkerFinishes, TaskEnds, runVars, messageVars, RunnerTypeOK
<1>2. PICK new \in {"finished", "done"} :
         /\ life' = [life EXCEPT ![w] = new]
         /\ life[w] \in {"running", "finished"}
         /\ new = "finished" => UNCHANGED <<shutdown, early>>
         /\ new = "done" => TaskEnds(w)
  BY DEF WorkerFinishes, TaskEnds, runVars
<1>3. /\ Entered \subseteq Entered' /\ Started \subseteq Started'
      /\ \A v \in Worker \ {w} : life'[v] = life[v]
      /\ life'[w] = new
  BY <1>1, <1>2, LifeFacts
<1>4. /\ shutdown' \in BOOLEAN
      /\ shutdown => shutdown'
      /\ early' = early \/ (early' = Running \ {w} /\ runPc \in {"starting", "setup", "waiting"})
  <2>1. CASE new = "finished"
    BY <1>1, <1>2, <2>1 DEF RunnerTypeOK
  <2>2. CASE TaskEnds(w) /\ shutdown' = shutdown /\ UNCHANGED early
    BY <1>1, <2>2 DEF RunnerTypeOK
  <2>3. CASE TaskEnds(w) /\ shutdown' /\ ~shutdown /\ RunIsToEnd(Running \ {w})
    <3>1. shutdown' \in BOOLEAN
      BY <1>1, <2>3, Zenon DEF TaskEnds, RunnerTypeOK
    <3>2. QED
      BY <2>3, <3>1 DEF RunIsToEnd
  <2>4. QED
    BY <1>2, <2>1, <2>2, <2>3 DEF TaskEnds
<1>5. CancelsSent' /\ toCancel' \in [Worker -> 0..2]
  BY <1>1, <1>4, NoneSent DEF Rounds, RunnerTypeOK
<1>6. Entered' = Entered /\ Started' = Started /\ Running' \subseteq Running
  BY <1>2, <1>3 DEF Entered, Started, Running
<1>7. RunnerTypeOK'
  <2>1. early' \subseteq Started'
    BY <1>1, <1>4, <1>6 DEF RunnerTypeOK, Running, Started
  <2>2. QED
    BY <1>1, <1>2, <1>4, <1>5, <1>6, <2>1 DEF RunnerTypeOK
<1>8. NobodyWaits' /\ EarlyWaitedFor'
  BY <1>1, <1>4, <1>6 DEF NobodyWaits, EarlyWaitedFor
<1>9. QED
  BY <1>5, <1>7, <1>8 DEF RunnerInv

LEMMA RunnerStep ==
    ASSUME RunnerInv, [RunnerNext]_runnerVars
    PROVE  RunnerInv'
<1>1. CASE BeginRun \/ SetupRound
  BY <1>1, SetupKeeps
<1>2. CASE RunWakes \/ RunCancelled \/ RunEnds
  BY <1>2, RunEndKeeps, SetupKeeps, GatherCancelKeeps DEF RunWakes, RunCancelled
<1>3. CASE End \/ Cancel
  BY <1>3, EndKeeps
<1>4. CASE \E w \in Worker : AddRoot(w) \/ AskForChild(w) \/ Adding(w)
  BY <1>4, AddingKeeps DEF Adding
<1>5. CASE \E w \in Worker : Messages(w)
  BY <1>5, MessagesKeep
<1>6. CASE \E w \in Worker : WorkerFinishes(w) \/ TaskEnds(w)
  BY <1>6, WorkerEndKeeps
<1>7. CASE UNCHANGED runnerVars
  <2>1. UNCHANGED <<runPc, shutdown, planned, remaining, life, told, toCancel, ends,
                    awaited, early>>
    BY <1>7 DEF runnerVars, runVars, messageVars
  <2>2. UNCHANGED <<Entered, Started, Running, Rounds>>
    BY <2>1 DEF Entered, Started, Running, Rounds
  <2>3. RunnerTypeOK' /\ NobodyWaits' /\ EarlyWaitedFor'
    BY <2>1, <2>2 DEF RunnerInv, RunnerTypeOK, NobodyWaits, EarlyWaitedFor
  <2>4. CancelsSent'
    BY <2>1, <2>2 DEF RunnerInv, CancelsSent, MaySend
  <2>5. QED
    BY <2>3, <2>4 DEF RunnerInv
<1>8. QED
  BY <1>1, <1>2, <1>3, <1>4, <1>5, <1>6, <1>7 DEF RunnerNext

LEMMA RunnerStart == RunnerInit => RunnerInv
<1> SUFFICES ASSUME RunnerInit PROVE RunnerInv
  OBVIOUS
<1>1. RunnerTypeOK
  <2>1. /\ life \in [Worker -> {"absent", "lost", "asked", "attaching", "ready",
                               "running", "finished", "done"}]
        /\ told \in [Worker -> BOOLEAN]
    BY DEF RunnerInit
  <2>2. /\ toCancel \in [Worker -> 0..2]
        /\ ends \in [Worker -> {"none", "sent", "waiting"}]
    BY DEF RunnerInit
  <2>3. awaited \in [Worker -> SUBSET Worker]
    BY DEF RunnerInit
  <2>4. /\ runPc = "before" /\ shutdown = FALSE /\ planned = {} /\ remaining = {}
        /\ early = {}
    BY DEF RunnerInit
  <2>5. QED
    BY <2>1, <2>2, <2>3, <2>4 DEF RunnerTypeOK
<1>2. CancelsSent
  <2> DEFINE none == [w \in Worker |-> 0]
  <2>1. none \in [Worker -> 0..2] /\ \A w \in Worker : none[w] = 0
    OBVIOUS
  <2> HIDE DEF none
  <2>2. \A w \in Worker : MaySend(none, w) = 0 /\ toCancel[w] = 0
    BY <2>1, ParentFacts DEF MaySend, Rounds, RunnerInit
  <2>3. QED
    BY <2>1, <2>2 DEF CancelsSent
<1>3. NobodyWaits /\ EarlyWaitedFor
  BY DEF RunnerInit, NobodyWaits, EarlyWaitedFor
<1>4. QED
  BY <1>1, <1>2, <1>3 DEF RunnerInv

LEMMA RunnerAlways == RunnerSpec => []RunnerInv
  BY RunnerStart, RunnerStep, PTL DEF RunnerSpec

\* The variables keep their types: run() waits for workers only, and no worker gets more
\* than two cancel messages, however deep the tree and however the run is ended.
THEOREM RunnerTypeCorrect == RunnerSpec => []RunnerTypeOK
<1>1. RunnerInv => RunnerTypeOK
  BY DEF RunnerInv
<1>2. QED
  BY <1>1, RunnerAlways, PTL

-----------------------------------------------------------------------------
(* Why run() returns.                                                      *)
(*                                                                         *)
(* All entries are below the roots that are entries (Rooted), since a      *)
(* worker is added by an entry (ParentsEntered): a message to these roots  *)
(* is on its way to everybody.  A worker that handles one is told, and its *)
(* children get one, so that it is still on its way to those below.        *)

\* With a worker, the set has the entries that the worker added.
Closed(S) == \A v \in Entered : Parent[v] \in S => v \in S

ParentsEntered ==
    \A w \in Worker \ Root : life[w] # "absent" => Parent[w] \in Entered

Rooted ==
    \A w \in Entered, S \in SUBSET Worker :
        (Root \cap Entered \subseteq S /\ Closed(S)) => w \in S

ReachInv == ParentsEntered /\ Rooted /\ CancelReaches

Recipients == {v \in Worker : toCancel[v] > 0}

LEMMA OnItsWayMeans ==
    ASSUME NEW w
    PROVE  OnItsWay(w) <=> \A S \in SUBSET Worker :
                              (Recipients \subseteq S /\ Closed(S)) => w \in S
  BY DEF OnItsWay, Recipients, Closed

\* More entries and more messages reach no fewer workers.
LEMMA StillOnItsWay ==
    ASSUME NEW w, OnItsWay(w), Entered \subseteq Entered', Recipients \subseteq Recipients'
    PROVE  OnItsWay(w)'
<1>1. \A S \in SUBSET Worker : (Recipients \subseteq S /\ Closed(S)) => w \in S
  BY OnItsWayMeans
<1>2. \A S \in SUBSET Worker : Recipients' \subseteq S /\ Closed(S)'
                                   => Recipients \subseteq S /\ Closed(S)
  BY DEF Closed
<1>3. \A S \in SUBSET Worker : (Recipients' \subseteq S /\ Closed(S)') => w \in S
  BY <1>1, <1>2
<1>4. QED
  BY <1>3 DEF OnItsWay, Recipients, Closed

\* What a step keeps that adds or starts nobody.
LEMMA TreeKept ==
    ASSUME ReachInv, UNCHANGED Entered,
           \A w \in Worker : life[w] = "absent" => life'[w] = "absent"
    PROVE  ParentsEntered' /\ Rooted'
<1>1. ParentsEntered'
  BY DEF ReachInv, ParentsEntered
<1>2. Rooted'
  BY DEF ReachInv, Rooted, Closed
<1>3. QED
  BY <1>1, <1>2

LEMMA AddingReaches ==
    ASSUME RunnerInv, ReachInv, NEW w \in Worker,
           AddRoot(w) \/ AskForChild(w) \/ BeginAttach(w) \/ Enter(w)
    PROVE  ReachInv'
<1>1. /\ RunnerTypeOK /\ ParentsEntered /\ Rooted /\ CancelReaches
      /\ UNCHANGED <<runPc, remaining, told, toCancel>>
      /\ life[w] \in {"absent", "asked", "attaching"}
      /\ life[w] = "absent" /\ w \notin Root => Parent[w] \in Entered
      /\ life[w] # "attaching" => \/ life'[w] \notin {"ready", "running"}
                                  \/ w \in Root
  <2>1. /\ RunnerTypeOK /\ ParentsEntered /\ Rooted /\ CancelReaches
        /\ UNCHANGED <<runPc, remaining, told, toCancel>>
        /\ life[w] \in {"absent", "asked", "attaching"}
    BY DEF RunnerInv, ReachInv, AddRoot, AskForChild, BeginAttach, Enter, runVars, messageVars
  <2>2. life[w] = "absent" /\ w \notin Root => Parent[w] \in Entered
    BY DEF AddRoot, AskForChild, BeginAttach, Enter, Entered
  <2>3. life[w] # "attaching" => life'[w] \notin {"ready", "running"} \/ w \in Root
    BY <2>1 DEF RunnerTypeOK, AddRoot, AskForChild, BeginAttach, Enter
  <2>4. QED
    BY <2>1, <2>2, <2>3
<1>2. PICK new \in {"attaching", "ready", "lost", "asked", "running"} :
         life' = [life EXCEPT ![w] = new]
  BY DEF AddRoot, AskForChild, BeginAttach, Enter
<1>3. /\ Entered \subseteq Entered' /\ Entered' \subseteq Entered \cup {w}
      /\ \A v \in Worker \ {w} : life'[v] = life[v]
      /\ life'[w] = new
  BY <1>1, <1>2 DEF RunnerTypeOK, Entered
<1>4. w \notin Root => Parent[w] \in Entered
  BY <1>1 DEF ParentsEntered
<1>5. ParentsEntered'
  BY <1>1, <1>3, <1>4 DEF ParentsEntered
<1>6. Rooted'
  <2> SUFFICES ASSUME NEW v \in Entered', NEW S \in SUBSET Worker,
                      Root \cap Entered' \subseteq S, Closed(S)'
               PROVE  v \in S
    BY DEF Rooted
  <2>1. Root \cap Entered \subseteq S /\ Closed(S)
    BY <1>3 DEF Closed
  <2>2. \A u \in Entered : u \in S
    BY <1>1, <2>1 DEF Rooted
  <2>3. CASE v = w /\ w \notin Root
    <3>1. Parent[w] \in S
      BY <1>4, <2>2, <2>3
    <3>2. QED
      BY <2>3, <3>1 DEF Closed
  <2>4. QED
    BY <1>3, <2>2, <2>3
<1>7. CancelReaches'
  <2> SUFFICES ASSUME runPc = "gather", NEW v \in remaining,
                      ~told[v], life'[v] \notin {"finished", "done"}
               PROVE  OnItsWay(v)'
    BY <1>1 DEF CancelReaches
  <2>1. v \in Started /\ v \in Worker /\ v # w
    BY <1>1 DEF RunnerTypeOK, Started
  <2>2. OnItsWay(v)
    BY <1>1, <1>3, <2>1 DEF CancelReaches
  <2>3. Recipients' = Recipients
    BY <1>1 DEF Recipients
  <2>4. QED
    BY <1>3, <2>2, <2>3, StillOnItsWay
<1>8. QED
  BY <1>5, <1>6, <1>7 DEF ReachInv

LEMMA RunReaches ==
    ASSUME RunnerInv, ReachInv,
           BeginRun \/ SetupRound \/ SetupCancelled \/ CancelRemaining \/ RunEnds
    PROVE  ReachInv'
<1>1. /\ RunnerTypeOK /\ ParentsEntered /\ Rooted /\ UNCHANGED told
      /\ toCancel \in [Worker -> 0..2]
  BY DEF RunnerInv, ReachInv, BeginRun, SetupRound, SetupCancelled, CancelRemaining, RunEnds,
         messageVars, RunnerTypeOK
<1>2. UNCHANGED Entered /\ \A w \in Worker : life[w] = "absent" => life'[w] = "absent"
  <2>1. CASE UNCHANGED life
    BY <2>1 DEF Entered
  <2>2. CASE \E w \in Entered : life' = [life EXCEPT ![w] = "running"]
    BY <1>1, <2>2 DEF RunnerTypeOK, Entered
  <2>3. SetupRound => planned' \subseteq Entered
    BY <1>1 DEF SetupRound, RunnerTypeOK
  <2>4. QED
    BY <2>1, <2>2, <2>3 DEF BeginRun, SetupRound, SetupCancelled, CancelRemaining, RunEnds
<1>3. ParentsEntered' /\ Rooted'
  BY <1>2, TreeKept
<1>4. CancelReaches'
  <2> SUFFICES ASSUME runPc' = "gather", NEW v \in remaining' PROVE OnItsWay(v)'
    BY DEF CancelReaches
  <2>1. CancelRemaining /\ remaining' = Running /\ SendCancel(Root)
    BY DEF BeginRun, SetupRound, SetupCancelled, CancelRemaining, RunEnds
  <2>2. Root \cap Entered \subseteq Recipients'
    BY <1>1, <2>1 DEF SendCancel, Recipients, Root
  <2>3. v \in Entered
    BY <2>1 DEF Running, Entered
  <2>4. ASSUME NEW S \in SUBSET Worker, Recipients' \subseteq S, Closed(S)' PROVE v \in S
    <3>1. Root \cap Entered \subseteq S /\ Closed(S)
      BY <1>2, <2>2, <2>4 DEF Closed
    <3>2. QED
      BY <1>1, <2>3, <3>1 DEF Rooted
  <2>5. QED
    BY <2>4 DEF OnItsWay, Recipients, Closed
<1>5. QED
  BY <1>3, <1>4 DEF ReachInv

\* The messages are still on their way, and more workers are told.
LEMMA GatherCancelReaches ==
    ASSUME RunnerInv, ReachInv, GatherCancelled
    PROVE  ReachInv'
<1>1. /\ RunnerTypeOK /\ CancelReaches
      /\ UNCHANGED <<runPc, remaining, life, toCancel, Entered, Recipients>>
      /\ remaining \subseteq Worker
  BY DEF RunnerInv, ReachInv, GatherCancelled, RunnerTypeOK, runVars, Entered, Recipients,
         Started
<1>2. ParentsEntered' /\ Rooted'
  BY <1>1, TreeKept
<1>3. \A v \in remaining : told[v] => told'[v]
  BY <1>1 DEF GatherCancelled
<1>4. CancelReaches'
  BY <1>1, <1>3, StillOnItsWay DEF CancelReaches
<1>5. QED
  BY <1>2, <1>4 DEF ReachInv

LEMMA EndReaches ==
    ASSUME RunnerInv, ReachInv, End \/ Cancel
    PROVE  ReachInv'
<1>1. /\ RunnerTypeOK /\ CancelReaches
      /\ UNCHANGED <<runPc, remaining, life, told, Entered>>
      /\ toCancel \in [Worker -> 0..2]
  BY DEF RunnerInv, ReachInv, End, Cancel, RunnerTypeOK, Entered
<1>2. ParentsEntered' /\ Rooted'
  BY <1>1, TreeKept
<1>3. Recipients \subseteq Recipients'
  BY <1>1 DEF End, Cancel, SendCancel, Recipients
<1>4. CancelReaches'
  BY <1>1, <1>3, StillOnItsWay DEF CancelReaches
<1>5. QED
  BY <1>2, <1>4 DEF ReachInv

LEMMA MessageReaches ==
    ASSUME RunnerInv, ReachInv, NEW w \in Worker, Messages(w)
    PROVE  ReachInv'
<1>1. /\ RunnerTypeOK /\ CancelReaches
      /\ UNCHANGED <<runPc, remaining, life, Entered>>
      /\ toCancel \in [Worker -> 0..2]
      /\ told \in [Worker -> BOOLEAN]
      /\ remaining \subseteq Worker
  BY DEF RunnerInv, ReachInv, Messages, HandleCancel, HandleEnd, ChildrenEnded, RunnerTypeOK,
         Entered, runVars, Started
<1>2. ParentsEntered' /\ Rooted'
  BY <1>1, TreeKept
<1>3. \A v \in remaining : told[v] => told'[v] \/ life[v] \in {"finished", "done"}
  <2>1. \A v \in remaining : life[v] \in {"running", "finished", "done"}
    BY <1>1 DEF RunnerTypeOK, Started
  <2>2. told' = told \/ told' = [told EXCEPT ![w] = life[w] \in {"ready", "running"}]
    BY DEF Messages, HandleCancel, HandleEnd, ChildrenEnded, TellToFinish
  <2>3. QED
    BY <1>1, <2>1, <2>2
<1>4. CASE UNCHANGED toCancel
  <2>1. Recipients' = Recipients
    BY <1>4 DEF Recipients
  <2>2. CancelReaches'
    BY <1>1, <1>3, <2>1, StillOnItsWay DEF CancelReaches
  <2>3. QED
    BY <1>2, <2>2 DEF ReachInv
<1>5. CASE HandleCancel(w)
  <2>1. \A v \in Entered \ {w} : Parent[v] = w => v \in Recipients'
    <3> SUFFICES ASSUME NEW v \in Entered \ {w}, Parent[v] = w PROVE v \in Recipients'
      OBVIOUS
    <3>1. v \in Worker /\ v \in Children(w)
      BY DEF Entered, Children
    <3>2. toCancel'[v] = toCancel[v] + 1
      BY <1>5, <3>1 DEF HandleCancel
    <3>3. QED
      BY <1>1, <3>1, <3>2 DEF Recipients
  <2>2. Recipients \subseteq Recipients' \cup {w}
    BY <1>1, <1>5 DEF HandleCancel, Recipients
  <2>3. told'[w] = (life[w] \in {"ready", "running"})
    BY <1>1, <1>5 DEF HandleCancel, TellToFinish
  <2>4. ASSUME NEW v \in remaining, v # w, OnItsWay(v) PROVE OnItsWay(v)'
    <3> SUFFICES ASSUME NEW S \in SUBSET Worker, Recipients' \subseteq S, Closed(S)'
                 PROVE  v \in S
      BY DEF OnItsWay, Recipients, Closed
    <3>1. Recipients \subseteq S \cup {w} /\ S \cup {w} \in SUBSET Worker
      BY <2>2
    <3>2. Closed(S \cup {w})
      BY <1>1, <2>1 DEF Closed
    <3>3. v \in S \cup {w}
      BY <2>4, <3>1, <3>2, OnItsWayMeans
    <3>4. QED
      BY <2>4, <3>3
  <2>5. CancelReaches'
    <3> SUFFICES ASSUME runPc = "gather", NEW v \in remaining,
                        life[v] \notin {"finished", "done"}
                 PROVE  told'[v] \/ OnItsWay(v)'
      BY <1>1 DEF CancelReaches
    <3>1. life[v] = "running"
      BY <1>1 DEF RunnerTypeOK, Started
    <3>2. told[v] \/ OnItsWay(v)
      BY <1>1, <3>1 DEF CancelReaches
    <3>3. CASE v = w
      BY <2>3, <3>1, <3>3
    <3>4. CASE v # w
      BY <1>3, <2>4, <3>1, <3>2, <3>4
    <3>5. QED
      BY <3>3, <3>4
  <2>6. QED
    BY <1>2, <2>5 DEF ReachInv
<1>6. QED
  BY <1>4, <1>5 DEF Messages, HandleEnd, ChildrenEnded

LEMMA WorkerEndReaches ==
    ASSUME RunnerInv, ReachInv, NEW w \in Worker, WorkerFinishes(w) \/ TaskEnds(w)
    PROVE  ReachInv'
<1>1. /\ RunnerTypeOK /\ CancelReaches
      /\ UNCHANGED <<runPc, remaining, toCancel, Recipients>>
      /\ remaining \subseteq Worker
  BY DEF RunnerInv, ReachInv, WorkerFinishes, TaskEnds, runVars, messageVars, Recipients,
         RunnerTypeOK, Started
<1>2. /\ life[w] \in {"running", "finished"} /\ life'[w] \in {"finished", "done"}
      /\ \A v \in Worker \ {w} : life'[v] = life[v]
      /\ \A v \in Worker \ {w} : told'[v] = told[v]
  BY <1>1 DEF WorkerFinishes, TaskEnds, RunnerTypeOK, messageVars
<1>3. UNCHANGED Entered
  BY <1>2 DEF Entered
<1>4. ParentsEntered' /\ Rooted'
  BY <1>2, <1>3, TreeKept
<1>5. CancelReaches'
  BY <1>1, <1>2, <1>3, StillOnItsWay DEF CancelReaches
<1>6. QED
  BY <1>4, <1>5 DEF ReachInv

LEMMA ReachStep ==
    ASSUME RunnerInv, ReachInv, [RunnerNext]_runnerVars
    PROVE  ReachInv'
<1>1. CASE BeginRun \/ SetupRound \/ RunWakes \/ RunCancelled \/ RunEnds
  BY <1>1, RunReaches, GatherCancelReaches DEF RunWakes, RunCancelled
<1>2. CASE End \/ Cancel
  BY <1>2, EndReaches
<1>3. CASE \E w \in Worker : AddRoot(w) \/ AskForChild(w) \/ Adding(w)
  BY <1>3, AddingReaches DEF Adding
<1>4. CASE \E w \in Worker : Messages(w)
  BY <1>4, MessageReaches
<1>5. CASE \E w \in Worker : WorkerFinishes(w) \/ TaskEnds(w)
  BY <1>5, WorkerEndReaches
<1>6. CASE UNCHANGED runnerVars
  <2>1. UNCHANGED <<runPc, remaining, life, told, toCancel, Entered, Recipients>>
    BY <1>6 DEF runnerVars, runVars, messageVars, Entered, Recipients
  <2>2. ParentsEntered' /\ Rooted'
    BY <2>1, TreeKept
  <2>3. CancelReaches'
    BY <2>1, StillOnItsWay DEF ReachInv, CancelReaches
  <2>4. QED
    BY <2>2, <2>3 DEF ReachInv
<1>7. QED
  BY <1>1, <1>2, <1>3, <1>4, <1>5, <1>6 DEF RunnerNext

LEMMA ReachAlways == RunnerSpec => [](RunnerInv /\ ReachInv)
<1>1. RunnerInit => RunnerInv /\ ReachInv
  <2> SUFFICES ASSUME RunnerInit PROVE ReachInv
    BY RunnerStart
  <2>1. \A w \in Worker : life[w] # "absent" => w \in Root
    BY RunnerAssumption DEF RunnerInit, Root
  <2>2. ParentsEntered
    BY <2>1 DEF ParentsEntered
  <2>3. Rooted
    BY <2>1 DEF Rooted, Entered
  <2>4. CancelReaches
    BY DEF RunnerInit, CancelReaches
  <2>5. QED
    BY <2>2, <2>3, <2>4 DEF ReachInv
<1>2. RunnerInv /\ ReachInv /\ [RunnerNext]_runnerVars => (RunnerInv /\ ReachInv)'
  BY RunnerStep, ReachStep
<1>3. QED
  BY <1>1, <1>2, PTL DEF RunnerSpec

\* While run() waits for workers, each of them has ended, has been told to finish, or a
\* cancel message is on its way to it down the tree, whoever has ended before it and
\* whenever it was added.
THEOREM CancelsReach == RunnerSpec => []CancelReaches
<1>1. RunnerInv /\ ReachInv => CancelReaches
  BY DEF ReachInv
<1>2. QED
  BY <1>1, ReachAlways, PTL

\* A run that gets through its set-up forgets no worker: all that were added before run(),
\* before the loop over the entries or after it were started; run() waits for those that
\* ran when it was to end, each of which has ended or learns of the end; none of them is
\* left when it has returned.
THEOREM NobodyForgotten == RunnerSpec => []NoWorkerForgotten
<1>1. RunnerInv /\ ReachInv => NoWorkerForgotten
  BY DEF RunnerInv, ReachInv, NobodyWaits, EarlyWaitedFor, NoWorkerForgotten
<1>2. QED
  BY <1>1, ReachAlways, PTL
=============================================================================
