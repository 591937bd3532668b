------------------------ MODULE PipelineWorkerProofs ------------------------
(***************************************************************************)
(* Theorems about PipelineWorker, for every bound on what users, handlers  *)
(* and the pipeline may do.                                                *)
(***************************************************************************)
EXTENDS PipelineWorker, TLAPS

USE WorkerAssumption DEF Terminal, Lifecycle, PushPcs, RunPcs, pushVars,
    eventVars, runVars, pipelineVars, historyVars

(***************************************************************************)
(* The push queue only grows at its end, except when the push task takes   *)
(* a frame from it.                                                        *)
(***************************************************************************)
QueueStep ==
    \/ pushQueue' = pushQueue
    \/ \E k \in Queueable : pushQueue' = Append(pushQueue, k)
    \/ PushFrame

LEMMA QueueSteps ==
    ASSUME [Next]_vars PROVE QueueStep
<1> USE DEF QueueStep, Queueable
<1>1. CASE PushStart \/ PushStarted \/ PushFrame
  BY <1>1 DEF PushStart, PushStarted
<1>2. CASE PushEnded
  BY <1>2 DEF PushEnded
<1>3. CASE PushCleanup
  BY <1>3 DEF PushCleanup
<1>4. CASE PushKilled
  BY <1>4 DEF PushKilled
<1>5. CASE RunTask
  BY <1>5 DEF RunTask, RunFinished, RunJoined, RunCancelPush, RunReturn,
       DoCancel
<1>6. CASE FinishedHandler
  BY <1>6 DEF FinishedHandler
<1>7. CASE \E f \in Lifecycle : Sink(f)
  BY <1>7 DEF Sink
<1>8. CASE \E k \in Requests : Request(k)
  BY <1>8 DEF Request
<1>9. CASE Cancel \/ IdleTimeout
  BY <1>9 DEF Cancel, IdleTimeout, DoCancel
<1>10. CASE OutsideCancel
  BY <1>10 DEF OutsideCancel, DoCancel
<1>11. CASE \E f \in MayLose : Lose(f)
  BY <1>11 DEF Lose
<1>12. CASE UNCHANGED vars
  BY <1>12 DEF vars
<1> QED
  BY <1>1, <1>2, <1>3, <1>4, <1>5, <1>6, <1>7, <1>8, <1>9, <1>10, <1>11, <1>12
     DEF Next, PushTask, Environment

LEMMA QueueOperations ==
    ASSUME NEW S, NEW q \in Seq(S)
    PROVE  /\ \A e \in S : Append(q, e) \in Seq(S) /\ Len(Append(q, e)) = Len(q) + 1
           /\ q # <<>> => Tail(q) \in Seq(S) /\ Len(Tail(q)) = Len(q) - 1
           /\ Len(q) \in Nat
  OBVIOUS

LEMMA QueueTypeStep ==
    ASSUME QueueType, [Next]_vars PROVE QueueType'
<1> USE DEF QueueType
<1>1. CASE pushQueue' = pushQueue
  BY <1>1
<1>2. CASE \E k \in Queueable : pushQueue' = Append(pushQueue, k)
  BY <1>2, QueueOperations
<1>3. CASE PushFrame
  BY <1>3, QueueOperations DEF PushFrame
<1> QED
  BY <1>1, <1>2, <1>3, QueueSteps DEF QueueStep

(* Each other part of TypeOK is preserved, with one step per action.       *)

LEMMA PushTypeStep ==
    ASSUME TypeOK, [Next]_vars PROVE PushType'
<1> USE DEF TypeOK, PushType
<1>1. CASE PushStart \/ PushStarted \/ PushFrame
  BY <1>1 DEF PushStart, PushStarted, PushFrame
<1>2. CASE PushEnded
  BY <1>2 DEF PushEnded
<1>3. CASE PushCleanup
  BY <1>3 DEF PushCleanup
<1>4. CASE PushKilled
  BY <1>4 DEF PushKilled
<1>5. CASE RunTask
  BY <1>5 DEF RunTask, RunFinished, RunJoined, RunCancelPush, RunReturn,
       DoCancel
<1>6. CASE FinishedHandler
  BY <1>6 DEF FinishedHandler
<1>7. CASE \E f \in Lifecycle : Sink(f)
  BY <1>7 DEF Sink
<1>8. CASE \E k \in Requests : Request(k)
  BY <1>8 DEF Request
<1>9. CASE Cancel \/ IdleTimeout
  BY <1>9 DEF Cancel, IdleTimeout, DoCancel
<1>10. CASE OutsideCancel
  BY <1>10 DEF OutsideCancel, DoCancel
<1>11. CASE \E f \in MayLose : Lose(f)
  BY <1>11 DEF Lose
<1>12. CASE UNCHANGED vars
  BY <1>12 DEF vars
<1> QED
  BY <1>1, <1>2, <1>3, <1>4, <1>5, <1>6, <1>7, <1>8, <1>9, <1>10, <1>11, <1>12
     DEF Next, PushTask, Environment

LEMMA RunTypeStep ==
    ASSUME TypeOK, [Next]_vars PROVE RunType'
<1> USE DEF TypeOK, RunType
<1>1. CASE PushStart \/ PushStarted \/ PushFrame
  BY <1>1 DEF PushStart, PushStarted, PushFrame
<1>2. CASE PushEnded
  BY <1>2 DEF PushEnded
<1>3. CASE PushCleanup
  BY <1>3 DEF PushCleanup
<1>4. CASE PushKilled
  BY <1>4 DEF PushKilled
<1>5. CASE RunTask
  BY <1>5 DEF RunTask, RunFinished, RunJoined, RunCancelPush, RunReturn,
       DoCancel
<1>6. CASE FinishedHandler
  BY <1>6 DEF FinishedHandler
<1>7. CASE \E f \in Lifecycle : Sink(f)
  BY <1>7 DEF Sink
<1>8. CASE \E k \in Requests : Request(k)
  BY <1>8 DEF Request
<1>9. CASE Cancel \/ IdleTimeout
  BY <1>9 DEF Cancel, IdleTimeout, DoCancel
<1>10. CASE OutsideCancel
  BY <1>10 DEF OutsideCancel, DoCancel
<1>11. CASE \E f \in MayLose : Lose(f)
  BY <1>11 DEF Lose
<1>12. CASE UNCHANGED vars
  BY <1>12 DEF vars
<1> QED
  BY <1>1, <1>2, <1>3, <1>4, <1>5, <1>6, <1>7, <1>8, <1>9, <1>10, <1>11, <1>12
     DEF Next, PushTask, Environment

LEMMA PipelineTypeStep ==
    ASSUME TypeOK, [Next]_vars PROVE PipelineType'
<1> USE DEF TypeOK, PipelineType, PushType
<1>1. CASE PushStart \/ PushStarted \/ PushFrame
  BY <1>1 DEF PushStart, PushStarted, PushFrame
<1>2. CASE PushEnded
  BY <1>2 DEF PushEnded
<1>3. CASE PushCleanup
  BY <1>3 DEF PushCleanup
<1>4. CASE PushKilled
  BY <1>4 DEF PushKilled
<1>5. CASE RunTask
  BY <1>5 DEF RunTask, RunFinished, RunJoined, RunCancelPush, RunReturn,
       DoCancel
<1>6. CASE FinishedHandler
  BY <1>6 DEF FinishedHandler
<1>7. CASE \E f \in Lifecycle : Sink(f)
  BY <1>7 DEF Sink
<1>8. CASE \E k \in Requests : Request(k)
  BY <1>8 DEF Request
<1>9. CASE Cancel \/ IdleTimeout
  BY <1>9 DEF Cancel, IdleTimeout, DoCancel
<1>10. CASE OutsideCancel
  BY <1>10 DEF OutsideCancel, DoCancel
<1>11. CASE \E f \in MayLose : Lose(f)
  BY <1>11 DEF Lose
<1>12. CASE UNCHANGED vars
  BY <1>12 DEF vars
<1> QED
  BY <1>1, <1>2, <1>3, <1>4, <1>5, <1>6, <1>7, <1>8, <1>9, <1>10, <1>11, <1>12
     DEF Next, PushTask, Environment

LEMMA HistoryTypeStep ==
    ASSUME TypeOK, [Next]_vars PROVE HistoryType'
<1> USE DEF TypeOK, HistoryType
<1>1. CASE PushStart \/ PushStarted \/ PushFrame
  BY <1>1 DEF PushStart, PushStarted, PushFrame
<1>2. CASE PushEnded
  BY <1>2 DEF PushEnded
<1>3. CASE PushCleanup
  BY <1>3 DEF PushCleanup
<1>4. CASE PushKilled
  BY <1>4 DEF PushKilled
<1>5. CASE RunTask
  BY <1>5 DEF RunTask, RunFinished, RunJoined, RunCancelPush, RunReturn,
       DoCancel
<1>6. CASE FinishedHandler
  BY <1>6 DEF FinishedHandler
<1>7. CASE \E f \in Lifecycle : Sink(f)
  BY <1>7 DEF Sink
<1>8. CASE \E k \in Requests : Request(k)
  BY <1>8 DEF Request
<1>9. CASE Cancel \/ IdleTimeout
  BY <1>9 DEF Cancel, IdleTimeout, DoCancel
<1>10. CASE OutsideCancel
  BY <1>10 DEF OutsideCancel, DoCancel
<1>11. CASE \E f \in MayLose : Lose(f)
  BY <1>11 DEF Lose
<1>12. CASE UNCHANGED vars
  BY <1>12 DEF vars
<1> QED
  BY <1>1, <1>2, <1>3, <1>4, <1>5, <1>6, <1>7, <1>8, <1>9, <1>10, <1>11, <1>12
     DEF Next, PushTask, Environment

\* Every variable keeps its type, and the push task knows which frame it
\* waits for.
THEOREM WorkerTypeCorrect == Spec => []TypeOK
<1>1. Init => TypeOK
  <2> SUFFICES ASSUME Init PROVE TypeOK
    OBVIOUS
  <2>1. QueueType
    BY DEF Init, QueueType
  <2>4. PushType
    BY DEF Init, PushType
  <2>2. RunType /\ PipelineType
    BY DEF Init, RunType, PipelineType
  <2>3. requests \in 0..MaxRequests /\ outside \in 0..MaxOutside /\ reports \in Nat
    BY DEF Init
  <2>5. startSeen \in BOOLEAN /\ pushKilled \in BOOLEAN
    BY DEF Init
  <2> QED
    BY <2>1, <2>2, <2>3, <2>4, <2>5 DEF TypeOK, HistoryType
<1>2. TypeOK /\ [Next]_vars => TypeOK'
  BY QueueTypeStep, PushTypeStep, RunTypeStep, PipelineTypeStep,
     HistoryTypeStep DEF TypeOK
<1> QED
  BY <1>1, <1>2, PTL DEF Spec

(***************************************************************************)
(* Where the push task is decides which frames may be in flight and what   *)
(* has been cleaned up.                                                    *)
(***************************************************************************)
PhaseInv ==
    /\ pushPc \in {"new", "waitStart", "get"} => terminal = "none"
    /\ pushPc \in {"waitEnd", "cleanup"} => terminal # "none"
    /\ pushKilled => pushPc = "done"
    /\ pushPc = "done" /\ ~pushKilled
         => terminal # "none" /\ (processors = "stopped" \/ terminal = "stop")
    /\ finished => pushPc = "done" /\ ~idle

LEMMA PhaseStep ==
    ASSUME TypeOK, PhaseInv, [Next]_vars PROVE PhaseInv'
<1> USE DEF TypeOK, PushType, PhaseInv
<1>1. CASE PushStart \/ PushStarted \/ PushFrame
  BY <1>1 DEF PushStart, PushStarted, PushFrame
<1>2. CASE PushEnded
  BY <1>2 DEF PushEnded
<1>3. CASE PushCleanup
  BY <1>3 DEF PushCleanup
<1>4. CASE PushKilled
  BY <1>4 DEF PushKilled
<1>5. CASE RunTask
  BY <1>5 DEF RunTask, RunFinished, RunJoined, RunCancelPush, RunReturn,
       DoCancel
<1>6. CASE FinishedHandler
  BY <1>6 DEF FinishedHandler
<1>7. CASE \E f \in Lifecycle : Sink(f)
  BY <1>7 DEF Sink
<1>8. CASE \E k \in Requests : Request(k)
  BY <1>8 DEF Request
<1>9. CASE Cancel \/ IdleTimeout
  BY <1>9 DEF Cancel, IdleTimeout, DoCancel
<1>10. CASE OutsideCancel
  BY <1>10 DEF OutsideCancel, DoCancel
<1>11. CASE \E f \in MayLose : Lose(f)
  BY <1>11 DEF Lose
<1>12. CASE UNCHANGED vars
  BY <1>12 DEF vars
<1> QED
  BY <1>1, <1>2, <1>3, <1>4, <1>5, <1>6, <1>7, <1>8, <1>9, <1>10, <1>11, <1>12
     DEF Next, PushTask, Environment

\* After run() there is no push task, no idle monitor and no running
\* processor, unless the worker was stopped or the push task killed.
THEOREM RunReturnsClean == Spec => []ReturnedClean
<1>1. Init => PhaseInv
  BY DEF Init, PhaseInv
<1>2. TypeOK /\ PhaseInv /\ [Next]_vars => PhaseInv'
  BY PhaseStep
<1>3. PhaseInv => ReturnedClean
  BY DEF PhaseInv, ReturnedClean
<1> QED
  BY <1>1, <1>2, <1>3, WorkerTypeCorrect, PTL DEF Spec

(***************************************************************************)
(* The only terminal frame in flight is the one the push task pushed, and  *)
(* it is reported where it is taken out: by the sink, or by the push task  *)
(* when it is a CancelFrame.                                               *)
(***************************************************************************)
FlightInv == inFlight \subseteq {"start", terminal}

ReportInv ==
    /\ reports \in {0, 1}
    /\ terminal = "none" => reports = 0 /\ ~endEvent
    /\ terminal \in {"end", "stop"} /\ terminal \in inFlight
         => reports = 0 /\ ~endEvent
    /\ terminal \in {"end", "stop"} /\ endEvent => reports = 1
    /\ terminal = "cancel" /\ pushPc = "waitEnd" => reports = 0
    /\ pushPc \in {"cleanup", "done"} /\ ~pushKilled => reports = 1

LEMMA FlightStep ==
    ASSUME "injected" \notin Requests, TypeOK, PhaseInv, FlightInv,
           [Next]_vars
    PROVE FlightInv'
<1> USE DEF TypeOK, PushType, PipelineType, PhaseInv,
       FlightInv
<1>1. CASE PushStart \/ PushStarted \/ PushFrame
  BY <1>1 DEF PushStart, PushStarted, PushFrame
<1>2. CASE PushEnded
  BY <1>2 DEF PushEnded
<1>3. CASE PushCleanup
  BY <1>3 DEF PushCleanup
<1>4. CASE PushKilled
  BY <1>4 DEF PushKilled
<1>5. CASE RunTask
  BY <1>5 DEF RunTask, RunFinished, RunJoined, RunCancelPush, RunReturn,
       DoCancel
<1>6. CASE FinishedHandler
  BY <1>6 DEF FinishedHandler
<1>7. CASE \E f \in Lifecycle : Sink(f)
  BY <1>7 DEF Sink
<1>8. CASE \E k \in Requests : Request(k)
  BY <1>8 DEF Request
<1>9. CASE Cancel \/ IdleTimeout
  BY <1>9 DEF Cancel, IdleTimeout, DoCancel
<1>10. CASE OutsideCancel
  BY <1>10 DEF OutsideCancel, DoCancel
<1>11. CASE \E f \in MayLose : Lose(f)
  BY <1>11 DEF Lose
<1>12. CASE UNCHANGED vars
  BY <1>12 DEF vars
<1> QED
  BY <1>1, <1>2, <1>3, <1>4, <1>5, <1>6, <1>7, <1>8, <1>9, <1>10, <1>11, <1>12
     DEF Next, PushTask, Environment

LEMMA ReportStep ==
    ASSUME "injected" \notin Requests, TypeOK, PhaseInv, FlightInv, ReportInv,
           [Next]_vars
    PROVE ReportInv'
<1> USE DEF TypeOK, PushType, HistoryType, PhaseInv,
       FlightInv, ReportInv
<1>1. CASE PushStart \/ PushStarted \/ PushFrame
  BY <1>1 DEF PushStart, PushStarted, PushFrame
<1>2. CASE PushEnded
  BY <1>2 DEF PushEnded
<1>3. CASE PushCleanup
  BY <1>3 DEF PushCleanup
<1>4. CASE PushKilled
  BY <1>4 DEF PushKilled
<1>5. CASE RunTask
  BY <1>5 DEF RunTask, RunFinished, RunJoined, RunCancelPush, RunReturn,
       DoCancel
<1>6. CASE FinishedHandler
  BY <1>6 DEF FinishedHandler
<1>7. CASE \E f \in Lifecycle : Sink(f)
  <2>1. PICK f \in Lifecycle : Sink(f)
    BY <1>7
  <2>2. CASE f = "start"
    BY <2>1, <2>2 DEF Sink
  <2>3. CASE f # "start"
    <3>1. f = terminal /\ terminal' = terminal /\ endEvent' /\ pushPc' = pushPc
            /\ inFlight' = inFlight \ {f} /\ pushKilled' = pushKilled
      BY <2>1, <2>3 DEF Sink
    <3>2. CASE f = "cancel"
      BY <2>1, <3>1, <3>2 DEF Sink
    <3>3. CASE f \in {"end", "stop"}
      <4>1. reports = 0
        BY <2>1, <3>1, <3>3 DEF Sink
      <4>2. reports' = 1
        BY <2>1, <3>3, <4>1 DEF Sink
      <4> QED
        BY <3>1, <3>3, <4>2
    <3> QED
      BY <2>1, <3>1, <3>2, <3>3 DEF Sink
  <2> QED
    BY <2>2, <2>3
<1>8. CASE \E k \in Requests : Request(k)
  BY <1>8 DEF Request
<1>9. CASE Cancel \/ IdleTimeout
  BY <1>9 DEF Cancel, IdleTimeout, DoCancel
<1>10. CASE OutsideCancel
  BY <1>10 DEF OutsideCancel, DoCancel
<1>11. CASE \E f \in MayLose : Lose(f)
  BY <1>11 DEF Lose
<1>12. CASE UNCHANGED vars
  BY <1>12 DEF vars
<1> QED
  BY <1>1, <1>2, <1>3, <1>4, <1>5, <1>6, <1>7, <1>8, <1>9, <1>10, <1>11, <1>12
     DEF Next, PushTask, Environment

\* A terminal frame is reported once, whatever races with it, as long as no
\* processor pushes an EndFrame of its own.
THEOREM FinishReportedOnce ==
    ASSUME "injected" \notin Requests PROVE Spec => []ReportedOnce
<1>1. Init => PhaseInv /\ FlightInv /\ ReportInv
  BY DEF Init, PhaseInv, FlightInv, ReportInv
<1>2. TypeOK /\ PhaseInv /\ FlightInv /\ ReportInv /\ [Next]_vars
        => PhaseInv' /\ FlightInv' /\ ReportInv'
  BY PhaseStep, FlightStep, ReportStep
<1>3. PhaseInv /\ ReportInv => ReportedOnce
  BY DEF PhaseInv, ReportInv, ReportedOnce
<1> QED
  BY <1>1, <1>2, <1>3, WorkerTypeCorrect, PTL DEF Spec

(* The push task only leaves its first wait when the StartFrame has come   *)
(* out of the pipeline or cancel() has released it.                        *)
StartInv ==
    /\ startEvent => startSeen \/ cancelled
    /\ pushPc = "get" => startSeen \/ cancelled

LEMMA StartStep ==
    ASSUME TypeOK, StartInv, [Next]_vars PROVE StartInv'
<1> USE DEF TypeOK, RunType, HistoryType, StartInv
<1>1. CASE PushStart \/ PushStarted \/ PushFrame
  BY <1>1 DEF PushStart, PushStarted, PushFrame
<1>2. CASE PushEnded
  BY <1>2 DEF PushEnded
<1>3. CASE PushCleanup
  BY <1>3 DEF PushCleanup
<1>4. CASE PushKilled
  BY <1>4 DEF PushKilled
<1>5. CASE RunTask
  BY <1>5 DEF RunTask, RunFinished, RunJoined, RunCancelPush, RunReturn,
       DoCancel
<1>6. CASE FinishedHandler
  BY <1>6 DEF FinishedHandler
<1>7. CASE \E f \in Lifecycle : Sink(f)
  BY <1>7 DEF Sink
<1>8. CASE \E k \in Requests : Request(k)
  BY <1>8 DEF Request
<1>9. CASE Cancel \/ IdleTimeout
  BY <1>9 DEF Cancel, IdleTimeout, DoCancel
<1>10. CASE OutsideCancel
  BY <1>10 DEF OutsideCancel, DoCancel
<1>11. CASE \E f \in MayLose : Lose(f)
  BY <1>11 DEF Lose
<1>12. CASE UNCHANGED vars
  BY <1>12 DEF vars
<1> QED
  BY <1>1, <1>2, <1>3, <1>4, <1>5, <1>6, <1>7, <1>8, <1>9, <1>10, <1>11, <1>12
     DEF Next, PushTask, Environment

LEMMA LengthsDiffer ==
    ASSUME NEW n \in Nat PROVE n - 1 # n /\ n + 1 # n - 1
  OBVIOUS

\* No frame is taken from the push queue before the pipeline has started or
\* the worker was cancelled.
THEOREM PushWaitsForStart == Spec => NothingBeforeStart
<1> DEFINE Early == pushQueue # <<>> /\ pushQueue' = Tail(pushQueue)
                      => startSeen \/ cancelled
<1>1. Init => StartInv
  BY DEF Init, StartInv
<1>2. TypeOK /\ StartInv /\ [Next]_vars => StartInv'
  BY StartStep
<1>3. TypeOK /\ StartInv /\ [Next]_vars => [Early]_vars
  <2> SUFFICES ASSUME TypeOK, StartInv, [Next]_vars, pushQueue # <<>>,
                      pushQueue' = Tail(pushQueue)
               PROVE startSeen \/ cancelled
    OBVIOUS
  <2> DEFINE n == Len(pushQueue)
  <2>1. n \in Nat /\ Len(pushQueue') = n - 1
    BY QueueOperations DEF TypeOK, QueueType
  <2>2. pushQueue' # pushQueue
    BY <2>1, LengthsDiffer
  <2>3. \A k \in Queueable : Len(Append(pushQueue, k)) = n + 1
    BY QueueOperations DEF TypeOK, QueueType
  <2>5. n + 1 # n - 1
    BY <2>1, LengthsDiffer
  <2>4. PushFrame
    BY <2>1, <2>2, <2>3, <2>5, QueueSteps DEF QueueStep
  <2> QED
    BY <2>4 DEF PushFrame, StartInv
<1> QED
  BY <1>1, <1>2, <1>3, WorkerTypeCorrect, PTL DEF Spec, NothingBeforeStart

(***************************************************************************)
(* The state half of RequestsFinish: whatever the push task and run() wait *)
(* for has come or can still come.                                         *)
(***************************************************************************)
HoldsCancel(q) == \E i \in DOMAIN q : q[i] = "cancel"

\* A push task that waits for the start has the event, or the StartFrame is on its way
\* and nobody has cancelled; until it has taken a terminal frame the CancelFrame of a
\* worker that was cancelled is in its queue; the terminal frame it waits for is a
\* CancelFrame, which it does not wait for long, has come out, or is on its way through
\* processors that run; and run() learns that it is done.  Only frames the pipeline may
\* lose are excepted.
NothingMissed ==
    /\ pushPc = "waitStart" =>
          \/ startEvent
          \/ ~cancelled /\ ~startSeen /\ "start" \in inFlight \cup MayLose
    /\ cancelled /\ pushPc \in {"new", "waitStart", "get"} => HoldsCancel(pushQueue)
    /\ pushPc = "waitEnd" =>
          terminal = "cancel" \/ endEvent \/ terminal \in inFlight \cup MayLose
    /\ processors = "stopped" => pushPc = "done"
    /\ pushPc \in {"cleanup", "done"} => finishedEvent \/ runPc \in {"finally", "returned"}

MissInv ==
    /\ NothingMissed
    /\ pushPc = "new" => inFlight = {} /\ ~startSeen /\ (cancelled => startEvent)
    /\ runPc \in {"join", "join2"} => finishedEvent
    /\ pushCancel => finishedEvent \/ runPc \in {"finally", "returned"}

LEMMA CancelStays ==
    ASSUME NEW q \in Seq(Queueable)
    PROVE  /\ \A e \in Queueable :
                 HoldsCancel(q) \/ e = "cancel" => HoldsCancel(Append(q, e))
           /\ q # <<>> /\ HoldsCancel(q) /\ Head(q) # "cancel" => HoldsCancel(Tail(q))
<1>1. ASSUME NEW e \in Queueable, HoldsCancel(q) \/ e = "cancel"
      PROVE  HoldsCancel(Append(q, e))
  <2>1. /\ Len(q) \in Nat /\ DOMAIN q = 1..Len(q)
        /\ DOMAIN Append(q, e) = 1..Len(q) + 1
        /\ \A i \in 1..Len(q) : Append(q, e)[i] = q[i]
        /\ Append(q, e)[Len(q) + 1] = e
    OBVIOUS
  <2>2. CASE HoldsCancel(q)
    <3>1. PICK i \in 1..Len(q) : q[i] = "cancel"
      BY <2>1, <2>2 DEF HoldsCancel
    <3>2. i \in DOMAIN Append(q, e) /\ Append(q, e)[i] = "cancel"
      BY <2>1, <3>1
    <3> QED
      BY <3>2 DEF HoldsCancel
  <2>3. CASE e = "cancel"
    <3>1. Len(q) + 1 \in DOMAIN Append(q, e)
      BY <2>1
    <3> QED
      BY <2>1, <2>3, <3>1 DEF HoldsCancel
  <2> QED
    BY <1>1, <2>2, <2>3
<1>2. ASSUME q # <<>>, HoldsCancel(q), Head(q) # "cancel"
      PROVE  HoldsCancel(Tail(q))
  <2>1. /\ Len(q) \in Nat /\ DOMAIN q = 1..Len(q)
        /\ DOMAIN Tail(q) = 1..Len(q) - 1
        /\ \A i \in 1..Len(q) - 1 : Tail(q)[i] = q[i + 1]
        /\ Head(q) = q[1]
    BY <1>2
  <2>2. PICK i \in 1..Len(q) : q[i] = "cancel"
    BY <1>2, <2>1 DEF HoldsCancel
  <2>3. i - 1 \in 1..Len(q) - 1 /\ (i - 1) + 1 = i
    BY <1>2, <2>1, <2>2
  <2>4. Tail(q)[i - 1] = "cancel"
    BY <2>1, <2>2, <2>3
  <2> QED
    BY <2>1, <2>3, <2>4 DEF HoldsCancel
<1> QED
  BY <1>1, <1>2

LEMMA MissStep ==
    ASSUME TypeOK, PhaseInv, MissInv, [Next]_vars PROVE MissInv'
<1> USE DEF PhaseInv, MissInv, NothingMissed
<1>q. pushQueue \in Seq(Queueable)
  BY DEF TypeOK, QueueType
<1>t. /\ pushPc \in PushPcs /\ runPc \in RunPcs /\ inFlight \subseteq Lifecycle
      /\ terminal \in Terminal \cup {"none"}
      /\ processors \in {"running", "stopped"}
      /\ startEvent \in BOOLEAN /\ endEvent \in BOOLEAN /\ finishedEvent \in BOOLEAN
      /\ cancelled \in BOOLEAN /\ startSeen \in BOOLEAN /\ pushCancel \in BOOLEAN
  BY DEF TypeOK, PushType, RunType, PipelineType, HistoryType
<1>d. ASSUME DoCancel
      PROVE  /\ HoldsCancel(pushQueue) => HoldsCancel(pushQueue')
             /\ cancelled' /\ (cancelled \/ HoldsCancel(pushQueue'))
             /\ startEvent => startEvent'
             /\ ~cancelled => startEvent'
  BY <1>q, <1>t, <1>d, CancelStays DEF DoCancel, Queueable
<1>1. CASE PushStart \/ PushStarted
  BY <1>1, <1>t DEF PushStart, PushStarted
<1>2. CASE PushFrame
  <2>1. CASE Head(pushQueue) \in Terminal
    BY <1>2, <1>t, <2>1 DEF PushFrame
  <2>2. CASE Head(pushQueue) \notin Terminal
    <3>1. HoldsCancel(pushQueue) => HoldsCancel(pushQueue')
      BY <1>2, <1>q, <2>2, CancelStays DEF PushFrame
    <3> QED
      BY <1>2, <1>t, <2>2, <3>1 DEF PushFrame
  <2> QED
    BY <2>1, <2>2
<1>3. CASE PushEnded
  BY <1>3, <1>t DEF PushEnded
<1>4. CASE PushCleanup
  BY <1>4, <1>t DEF PushCleanup
<1>5. CASE PushKilled
  BY <1>5, <1>t DEF PushKilled
<1>6. CASE RunJoined
  BY <1>6, <1>t, <1>d DEF RunJoined
<1>7. CASE RunFinished \/ RunCancelPush \/ RunReturn
  <2>1. /\ pushQueue' = pushQueue /\ pushPc' = pushPc /\ terminal' = terminal
        /\ startEvent' = startEvent /\ endEvent' = endEvent
        /\ finishedEvent' = finishedEvent /\ cancelled' = cancelled
        /\ inFlight' = inFlight /\ processors' = processors
        /\ startSeen' = startSeen
    BY <1>7 DEF RunFinished, RunCancelPush, RunReturn, pushVars, eventVars,
                runVars, pipelineVars, historyVars
  <2>2. CASE RunFinished
    BY <1>t, <2>1, <2>2 DEF RunFinished, pushVars
  <2>3. CASE RunCancelPush
    BY <1>t, <2>1, <2>3 DEF RunCancelPush, runVars
  <2>4. CASE RunReturn
    BY <1>t, <2>1, <2>4 DEF RunReturn, pushVars
  <2> QED
    BY <1>7, <2>2, <2>3, <2>4
<1>8. CASE FinishedHandler
  <2>1. /\ pushQueue' = pushQueue /\ pushPc' = pushPc /\ terminal' = terminal
        /\ pushCancel' = pushCancel /\ startEvent' = startEvent
        /\ endEvent' = endEvent /\ cancelled' = cancelled /\ runPc' = runPc
        /\ inFlight' = inFlight /\ processors' = processors
        /\ startSeen' = startSeen /\ finishedEvent' = TRUE
    BY <1>8 DEF FinishedHandler, pushVars, runVars, historyVars
  <2> QED
    BY <1>t, <2>1
<1>9. CASE \E f \in Lifecycle : Sink(f)
  <2>1. PICK f \in Lifecycle : Sink(f)
    BY <1>9
  <2>2. /\ pushQueue' = pushQueue /\ pushPc' = pushPc /\ terminal' = terminal
        /\ pushCancel' = pushCancel /\ finishedEvent' = finishedEvent
        /\ cancelled' = cancelled /\ runPc' = runPc
        /\ processors' = processors
    BY <2>1 DEF Sink, pushVars, runVars
  <2>3. /\ f \in inFlight /\ inFlight' = inFlight \ {f}
        /\ startSeen' = (startSeen \/ f = "start")
        /\ startEvent' = (startEvent \/ f = "start")
        /\ endEvent' = (endEvent \/ f # "start")
    BY <2>1 DEF Sink
  <2>4. pushPc # "new"
    BY <2>3
  <2>5. CASE f = "start"
    BY <1>t, <2>2, <2>3, <2>4, <2>5 DEF Terminal
  <2>6. CASE f # "start"
    BY <1>t, <2>2, <2>3, <2>4, <2>6
  <2> QED
    BY <2>5, <2>6
<1>10. CASE \E k \in Requests : Request(k)
  <2>1. PICK k \in Requests : Request(k)
    BY <1>10
  <2>2. HoldsCancel(pushQueue) => HoldsCancel(pushQueue')
    BY <1>q, <2>1, CancelStays DEF Request, Queueable
  <2> QED
    BY <1>t, <2>1, <2>2 DEF Request
<1>11. CASE Cancel
  BY <1>11, <1>t, <1>d DEF Cancel
<1>12. CASE IdleTimeout
  BY <1>12, <1>t, <1>d DEF IdleTimeout
<1>13. CASE OutsideCancel
  BY <1>13, <1>t, <1>d DEF OutsideCancel
<1>14. CASE \E f \in MayLose : Lose(f)
  <2>1. PICK f \in MayLose : Lose(f)
    BY <1>14
  <2>2. HoldsCancel(pushQueue) => HoldsCancel(pushQueue')
    BY <1>q, <2>1, CancelStays DEF Lose, Queueable
  <2> QED
    BY <1>t, <2>1, <2>2 DEF Lose
<1>15. CASE UNCHANGED vars
  BY <1>15, <1>t DEF vars
<1> QED
  BY <1>1, <1>2, <1>3, <1>4, <1>5, <1>6, <1>7, <1>8, <1>9, <1>10, <1>11, <1>12,
     <1>13, <1>14, <1>15
     DEF Next, PushTask, RunTask, Environment

\* For any frames the pipeline may lose, and any number of requests and cancellations
\* from outside: the push task and run() never wait for what has already been and gone.
THEOREM RequestsAreNotMissed == Spec => []NothingMissed
<1>1. Init => PhaseInv /\ MissInv
  BY DEF Init, PhaseInv, MissInv, NothingMissed
<1>2. TypeOK /\ (PhaseInv /\ MissInv) /\ [Next]_vars => (PhaseInv /\ MissInv)'
  BY PhaseStep, MissStep
<1>3. PhaseInv /\ MissInv => NothingMissed
  BY DEF MissInv
<1> QED
  BY <1>1, <1>2, <1>3, WorkerTypeCorrect, PTL DEF Spec
=============================================================================
